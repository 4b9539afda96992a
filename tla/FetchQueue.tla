------------------------------ MODULE FetchQueue ------------------------------
(***************************************************************************)
(* The download queue: the fetch_queue table (_fetch_queue.py) and the two *)
(* jobs that work on it (jobs/tasks.py), run by JobManager.  "add" queues  *)
(* an item and starts "drain" if none runs; "drain" claims the oldest      *)
(* pending item, downloads it, records what became of it and goes on until *)
(* it finds nothing pending.  app.py requeues at start-up what a stopped   *)
(* service left running, and starts a drain.                               *)
(***************************************************************************)
EXTENDS JobManager, FiniteSets, FiniteSetsExt

CONSTANTS
  Items,        \* the rows that may be queued, each once
  NoItem,
  Deletable,    \* the items an admin may delete
  MaxAttempts   \* MAX_FETCH_UPLOAD_ATTEMPTS

ASSUME FetchQueueAssumption ==
  /\ {"add", "drain"} \subseteq Jobs /\ NoItem \notin Items /\ Deletable \subseteq Items
  /\ IsFiniteSet(Items) /\ MaxAttempts \in Nat \ {0}

VARIABLES
  queue,   \* fetch_queue: status, attempts and added_at of each item
  now,     \* the clock when an item was last added
  step,    \* where the job function of each run is
  item,    \* the item each drain has in hand
  read,    \* the attempts of its row when the drain selected it
  stale    \* history: how often each item was claimed on a count that was old by then

vars == <<jobvars, queue, now, step, item, read, stale>>

counts == <<read, stale>>

Steps == {"enter", "more", "claim", "report", "fetch", "done", "retry", "fail", "requeue", "rest"}
Claimed == {"report", "fetch", "done", "retry", "fail", "requeue"}

Statuses == {"absent", "pending", "running", "done", "failed", "deleted"}
Entry == [status : Statuses, attempts : Nat, at : Nat]

QueueType ==
  /\ JobsType
  /\ queue \in [Items -> Entry]
  /\ now \in Nat
  /\ step \in [RunIds -> Steps]
  /\ item \in [RunIds -> Items \cup {NoItem}]
  /\ \A r \in RunIds : step[r] \in Claimed \cup {"claim"} => item[r] # NoItem

CountsType == read \in [RunIds -> Nat] /\ stale \in [Items -> Nat]

TypeOK == QueueType /\ CountsType

Init ==
  /\ JobsInit
  /\ queue = [i \in Items |-> [status |-> "absent", attempts |-> 0, at |-> 0]]
  /\ now = 1
  /\ step = [r \in RunIds |-> "enter"]
  /\ item = [r \in RunIds |-> NoItem]
  /\ read = [r \in RunIds |-> 0] /\ stale = [i \in Items |-> 0]

Pending == {i \in Items : queue[i].status = "pending"}
Latest == Max({queue[i].at : i \in Items})

-----------------------------------------------------------------------------
Goto(r, label) == step' = [step EXCEPT ![r] = label]
Outcome(r, outcome) == task' = [task EXCEPT ![r] = outcome]

\* Within the job function, and out of it.
Stay(r, label) == Goto(r, label) /\ UNCHANGED jobvars
Leave(r, outcome) ==
  /\ Outcome(r, outcome) /\ Goto(r, "enter")
  /\ item' = [item EXCEPT ![r] = NoItem]
  /\ UNCHANGED <<service, boots, rows, running, caller, cancelled>>

Write(i, status) == queue' = [queue EXCEPT ![i].status = status]
Untouched == UNCHANGED <<queue, now>>

(***************************************************************************)
(* fetch_queue_add_job.                                                    *)
(***************************************************************************)
Calling(r) == \E c \in RunIds : caller[c] = r

\* One URL of the form, the clock having moved on or not.
Queued(i) ==
  \E t \in now .. Max({now, Latest}) + 1 :
    /\ queue' = [queue EXCEPT ![i] = [status |-> "pending", attempts |-> 0, at |-> t]]
    /\ now' = t

Enqueue(r) ==
  /\ Works(r, "add") /\ step[r] \in {"enter", "more"} /\ ~Calling(r)
  /\ \E i \in Items : queue[i].status = "absent" /\ Queued(i)
  /\ Stay(r, "more")
  /\ UNCHANGED item

\* A form with no URL, or a failing insert.
AddFails(r) ==
  /\ Works(r, "add") /\ step[r] = "enter"
  /\ Leave(r, "failed") /\ Untouched

\* After the last URL: is_running, and run() up to its await.
AutoStart(r) ==
  /\ Works(r, "add") /\ step[r] = "more" /\ ~Calling(r)
  /\ IF running["drain"] = NoRun THEN Enter("drain", r) /\ UNCHANGED <<step, item>>
     ELSE Leave(r, "completed")
  /\ Untouched

InterruptAdd(r) ==
  /\ r \in cancelled /\ task[r] = "work" /\ Job(r) = "add"
  /\ \/ /\ ~Calling(r) /\ Leave(r, "cancelled")
        /\ \/ \E i \in Items : queue[i].status = "absent" /\ Queued(i)
           \/ Untouched
     \/ InterruptCall(r) /\ Goto(r, "enter") /\ UNCHANGED item /\ Untouched

-----------------------------------------------------------------------------
(***************************************************************************)
(* fetch_queue_drain_job.                                                  *)
(***************************************************************************)
\* The SELECT of claim_next_fetch_item: the oldest pending item, with the
\* attempts it has.
Select(r) ==
  /\ Works(r, "drain") /\ step[r] \in {"enter", "rest"}
  /\ \/ Pending = {} /\ Leave(r, "completed") /\ UNCHANGED read
     \/ \E i \in Pending :
          /\ \A j \in Pending : queue[i].at <= queue[j].at
          /\ item' = [item EXCEPT ![r] = i]
          /\ read' = [read EXCEPT ![r] = queue[i].attempts]
          /\ Stay(r, "claim")
  /\ Untouched /\ UNCHANGED stale

\* Mutant of Claim: the UPDATE does not look at the status.
Claim_Unchecked(r) ==
  /\ Works(r, "drain") /\ step[r] = "claim"
  /\ Write(item[r], "running")
  /\ Stay(r, "report")
  /\ UNCHANGED <<now, item, read, stale>>

\* Its UPDATE: of an item that is still pending, or is so again, else the
\* drain stops.  The row the drain goes on with is the one it selected.
Claim(r) ==
  /\ Works(r, "drain") /\ step[r] = "claim"
  /\ IF item[r] \in Pending
     THEN /\ Write(item[r], "running") /\ Stay(r, "report") /\ UNCHANGED item
          /\ stale' = [stale EXCEPT ![item[r]] = IF read[r] = queue[item[r]].attempts THEN @ ELSE @ + 1]
     ELSE Leave(r, "completed") /\ UNCHANGED <<queue, stale>>
  /\ UNCHANGED <<now, read>>

\* ctx.progress, then the download and how it ends.
Report(r) ==
  /\ Works(r, "drain") /\ step[r] = "report"
  /\ Stay(r, "fetch")
  /\ Untouched /\ UNCHANGED item

Fetch(r) ==
  /\ Works(r, "drain") /\ step[r] = "fetch"
  /\ \E end \in {"done", "retry", "fail"} : Stay(r, end)
  /\ Untouched /\ UNCHANGED item

\* Mutant of MayRetry: one attempt too many.
MayRetry_OffByOne(r) == read[r] + 1 <= MaxAttempts

\* The drain looks at the row it selected.
MayRetry(r) == read[r] + 1 < MaxAttempts

\* requeue_fetch_item_for_retry: to the back of the queue.
ToTheBack(i) ==
  queue' = [queue EXCEPT ![i] = [status |-> "pending", attempts |-> @.attempts + 1, at |-> Latest + 1]]

\* What the drain writes of the item: finish_fetch_item or a retry.
Recorded(r) ==
  CASE step[r] = "done" -> Write(item[r], "done")
    [] step[r] = "fail" -> Write(item[r], "failed")
    [] step[r] = "retry" ->
         IF MayRetry(r) THEN ToTheBack(item[r])
         ELSE queue' = [queue EXCEPT ![item[r]].status = "failed", ![item[r]].attempts = @ + 1]

\* Then the cooldown.
Record(r) ==
  /\ Works(r, "drain") /\ step[r] \in {"done", "retry", "fail"}
  /\ Recorded(r)
  /\ item' = [item EXCEPT ![r] = NoItem]
  /\ Stay(r, "rest")
  /\ UNCHANGED now

\* Mutant of InterruptDrain: the try clause is around the loop.
InterruptDrain_AroundLoop(r) ==
  /\ r \in cancelled /\ task[r] = "work" /\ Job(r) = "drain" /\ step[r] # "requeue"
  /\ Stay(r, "requeue")
  /\ UNCHANGED <<queue, item, now>>

\* CancelledError.  Within the try clause it is caught and the item requeued;
\* before it, and in the clauses that record a failure, it is not, whether or
\* not the statement under way took effect.
InterruptDrain(r) ==
  /\ r \in cancelled /\ task[r] = "work" /\ Job(r) = "drain"
  /\ \/ step[r] \in {"fetch", "done"} /\ Stay(r, "requeue") /\ UNCHANGED <<queue, item>>
     \/ step[r] \in {"enter", "rest", "report"} /\ Leave(r, "cancelled") /\ UNCHANGED queue
     \/ /\ step[r] = "claim" /\ Leave(r, "cancelled")
        /\ (item[r] \in Pending /\ Write(item[r], "running")) \/ UNCHANGED queue
     \/ /\ step[r] \in {"retry", "fail"} /\ Leave(r, "cancelled")
        /\ Recorded(r) \/ UNCHANGED queue
  /\ UNCHANGED now

\* requeue_fetch_item, and the CancelledError raised again.
Requeue(r) ==
  /\ task[r] = "work" /\ step[r] = "requeue"
  /\ Write(item[r], "pending")
  /\ Leave(r, "cancelled")
  /\ UNCHANGED now

-----------------------------------------------------------------------------
\* delete_fetch_queue_item: of an item that is not running.
Remove(i) ==
  /\ service = "up" /\ i \in Deletable
  /\ queue[i].status \in {"pending", "done", "failed"}
  /\ Write(i, "deleted")
  /\ UNCHANGED <<jobvars, now, step, item, counts>>

\* Mutant of Reset: what was running is left so.
Reset_Nothing == queue

\* reset_running_fetch_items.
Reset ==
  [i \in Items |-> IF queue[i].status = "running"
                   THEN [queue[i] EXCEPT !.status = "pending"] ELSE queue[i]]

\* Start-up, before a request is served: reconcile, reset, start a drain.
Boot ==
  LET r == Len(rows) + 1
      resume == \E i \in Items : Reset[i].status = "pending"
  IN  /\ service = "down" /\ service' = "up"
      /\ boots' = boots + 1
      /\ queue' = Reset
      /\ IF resume
         THEN /\ rows' = Append(Reconciled, [job |-> "drain", status |-> "running"])
              /\ running' = [running EXCEPT !["drain"] = r]
              /\ task' = [task EXCEPT ![r] = "work"]
         ELSE rows' = Reconciled /\ UNCHANGED <<running, task>>
      /\ UNCHANGED <<caller, cancelled, now, step, item, counts>>

-----------------------------------------------------------------------------
Work(r) ==
  \/ Select(r) \/ Claim(r)
  \/ /\ \/ Enqueue(r) \/ AddFails(r) \/ AutoStart(r) \/ InterruptAdd(r)
        \/ Report(r) \/ Fetch(r) \/ Record(r) \/ InterruptDrain(r) \/ Requeue(r)
     /\ UNCHANGED counts

Manage(r) ==
  /\ Begin(r) \/ Finish(r) \/ InterruptFinish(r)
  /\ UNCHANGED <<queue, now, step, item, counts>>

Run(n) == Call(n) /\ UNCHANGED <<queue, now, step, item, counts>>

Shutdown == Stop /\ UNCHANGED <<queue, now, step, item, counts>>

\* The coroutines are gone with the process.
Gone ==
  /\ step' = [r \in RunIds |-> "enter"] /\ item' = [r \in RunIds |-> NoItem]
  /\ UNCHANGED <<queue, now, counts>>

Ended == Close /\ Gone
Killed == Crash /\ Gone

Next ==
  \/ \E r \in RunIds : Work(r) \/ Manage(r)
  \/ \E n \in Jobs : Run(n)
  \/ \E i \in Items : Remove(i)
  \/ Shutdown \/ Ended \/ Killed \/ Boot

Spec == Init /\ [][Next]_vars

(***************************************************************************)
(* Fairness.  The event loop runs every task that is ready and statements  *)
(* and downloads end; a service that went down is started again.  Nobody   *)
(* has to call, delete or stop.                                            *)
(***************************************************************************)
Fairness ==
  /\ \A r \in RunIds : WF_vars(Work(r) \/ Manage(r))
  /\ WF_vars(Ended) /\ WF_vars(Boot)

FairSpec == Spec /\ Fairness

-----------------------------------------------------------------------------
(***************************************************************************)
(* Properties.                                                             *)
(***************************************************************************)
\* run() can be called twice before either call has entered the name, and two
\* drains run; still no item is downloaded by both, thanks to the claim.
Holds(r, i) == task[r] = "work" /\ step[r] \in Claimed /\ item[r] = i
ClaimedOnce ==
  \A r, s \in RunIds : r # s => \A i \in Items : ~(Holds(r, i) /\ Holds(s, i))

\* While the service is up no item is marked running that nobody downloads: a
\* stop, a crash or a cancellation at any point is made good at start-up.
NothingStranded ==
  service = "up" =>
    \A i \in Items : queue[i].status = "running" => \E r \in RunIds : Holds(r, i)

\* The same of the history: a row says "running" only while its coroutine is
\* alive, whichever of two runs took the name out of _running.
HistoryTrue ==
  service = "up" =>
    \A r \in DOMAIN rows : rows[r].status = "running" => task[r] # "ended"

\* A broken upload is tried MAX_FETCH_UPLOAD_ATTEMPTS times, restarts included,
\* and once more at most for each time a drain claimed it with a count that
\* another drain's try had made old between the SELECT and the UPDATE.  What is
\* still to be tried has a try left.
AttemptsBounded ==
  \A i \in Items :
    LET limit == MaxAttempts + stale[i] IN
    /\ queue[i].attempts <= limit
    /\ queue[i].status = "pending" => queue[i].attempts < limit

\* The types, nothing stranded, the history true, attempts bounded.
FetchSafe == TypeOK /\ NothingStranded /\ HistoryTrue /\ AttemptsBounded

\* Once the bounded calls are over, every run that was recorded as started is
\* recorded as ended, and every download that was begun has come to an end or
\* back into the queue.
AllSettles ==
  <>[](/\ \A r \in DOMAIN rows : rows[r].status # "running"
       /\ \A i \in Items : queue[i].status # "running")
=============================================================================
