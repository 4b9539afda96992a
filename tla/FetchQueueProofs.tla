--------------------------- MODULE FetchQueueProofs ---------------------------
(***************************************************************************)
(* Theorems about FetchQueue for every set of items, any number of calls,  *)
(* of attempts and of restarts.                                            *)
(***************************************************************************)
EXTENDS FetchQueue, FiniteFacts

-----------------------------------------------------------------------------
(***************************************************************************)
(* The inductive invariant.  A drain that holds an item holds one that the *)
(* table says is running, and nobody else does; for that a coroutine must  *)
(* begin at the start of its function, which a run that awaits the run it  *)
(* called, and a service that is down, could spoil.                        *)
(***************************************************************************)
Unborn == \A r \in RunIds : r > Len(rows) => task[r] = "none"
Fresh == \A r \in RunIds : task[r] \in {"none", "start"} => step[r] = "enter"
Awaiting == \A c, r \in RunIds : caller[c] = r => step[r] = "more" /\ task[c] = "start"
Asleep == service = "down" => \A r \in RunIds : task[r] \in {"none", "ended"} /\ step[r] = "enter"
Calm == /\ service # "stopping" => cancelled = {}
        /\ service # "up" => boots < MaxBoots
HeldRuns == \A r \in RunIds, i \in Items : Holds(r, i) => queue[i].status = "running"
Counted == \A i \in Items :
  /\ queue[i].attempts <= MaxAttempts + stale[i]
  /\ queue[i].status \in {"pending", "running"} => queue[i].attempts < MaxAttempts + stale[i]

\* A drain has read the attempts its item has, or the claim has been counted.
ReadTrue == \A r \in RunIds, i \in Items :
  Holds(r, i) => read[r] = queue[i].attempts \/ queue[i].attempts + 1 < MaxAttempts + stale[i]

Control == Unborn /\ Fresh /\ Awaiting /\ Asleep /\ Calm
Held == HeldRuns /\ ClaimedOnce /\ NothingStranded
IInv == QueueType /\ CountsType /\ Control /\ Held /\ Counted /\ ReadTrue

-----------------------------------------------------------------------------
LEMMA LatestType ==
  ASSUME QueueType, Items # {}
  PROVE  Latest \in Nat
<1>. DEFINE ats == {queue[i].at : i \in Items}
<1>. DEFINE f == [i \in Items |-> queue[i].at]
<1>1. ats = {f[i] : i \in Items} /\ ats \subseteq Nat /\ ats # {}
  BY DEF QueueType, Entry
<1>2. f = [i \in Items |-> f[i]]
  OBVIOUS
<1>. HIDE DEF f
<1>3. IsFiniteSet(ats)
  BY <1>1, <1>2, FetchQueueAssumption, FiniteImage
<1>. HIDE DEF ats
<1>4. \E x \in ats : \A y \in ats : x >= y
  BY <1>1, <1>3, NatMax
<1>. QED  BY <1>1, <1>4 DEF Latest, Max, ats

LEMMA InitIInv == Init => IInv
<1>. SUFFICES ASSUME Init PROVE IInv
  OBVIOUS
<1>. USE FetchQueueAssumption, JobManagerAssumption
<1>1. QueueType
  BY DEF Init, QueueType, JobsInit, JobsType, Entry, Statuses, Steps, Claimed, RunIds
<1>2. Control
  BY DEF Init, JobsInit, Control, Unborn, Fresh, Awaiting, Asleep, Calm
<1>3. Held /\ Counted /\ ReadTrue
  BY DEF Init, JobsInit, Held, HeldRuns, ClaimedOnce, NothingStranded, Holds, Counted, ReadTrue
<1>4. CountsType
  BY DEF Init, CountsType
<1>. QED  BY <1>1, <1>2, <1>3, <1>4 DEF IInv

-----------------------------------------------------------------------------
(***************************************************************************)
(* The actions keep the types.                                             *)
(***************************************************************************)
LEMMA EnterJobs ==
  ASSUME JobsType, NEW n \in Jobs, NEW by \in RunIds \cup {NoRun}, Enter(n, by)
  PROVE  JobsType'
<1>1. rows' \in Seq([job : Jobs, status : {"running", "interrupted"} \cup Outcomes])
  <2>1. [job |-> n, status |-> "running"]
          \in [job : Jobs, status : {"running", "interrupted"} \cup Outcomes]
    OBVIOUS
  <2>. QED  BY <2>1 DEF JobsType, Enter
<1>. QED  BY <1>1 DEF JobsType, Enter

LEMMA LeaveJobs ==
  ASSUME JobsType, NEW r \in RunIds, NEW outcome \in Outcomes, Leave(r, outcome)
  PROVE  JobsType'
BY DEF JobsType, Leave, Outcome, Outcomes

LEMMA StatusWritten ==
  ASSUME JobsType, NEW r, NEW status \in {"running", "interrupted"} \cup Outcomes
  PROVE  [rows EXCEPT ![r].status = status]
           \in Seq([job : Jobs, status : {"running", "interrupted"} \cup Outcomes])
<1>. DEFINE Row == [job : Jobs, status : {"running", "interrupted"} \cup Outcomes]
<1>1. rows \in Seq(Row)
  BY DEF JobsType
<1>2. ASSUME NEW i \in 1 .. Len(rows)
      PROVE  rows[i] \in Row /\ [rows[i] EXCEPT !.status = status] \in Row
  <2>. HIDE DEF Row
  <2>1. rows[i] \in Row
    BY <1>1
  <2>. QED  BY <2>1 DEF Row
<1>. DEFINE new == [rows EXCEPT ![r].status = status]
<1>3. new = [i \in 1 .. Len(rows) |-> IF i = r THEN [rows[i] EXCEPT !.status = status] ELSE rows[i]]
  BY <1>1
<1>. HIDE DEF Row
<1>4. new \in [1 .. Len(rows) -> Row]
  BY <1>2, <1>3
<1>5. Len(rows) \in Nat
  BY <1>1
<1>. HIDE DEF new
<1>6. new \in Seq(Row)
  BY <1>4, <1>5
<1>. QED  BY <1>6 DEF Row, new

LEMMA ReconciledType ==
  ASSUME JobsType
  PROVE  Reconciled \in Seq([job : Jobs, status : {"running", "interrupted"} \cup Outcomes])
<1>. DEFINE Row == [job : Jobs, status : {"running", "interrupted"} \cup Outcomes]
<1>1. rows \in Seq(Row)
  BY DEF JobsType
<1>2. ASSUME NEW i \in 1 .. Len(rows)
      PROVE  rows[i] \in Row /\ [rows[i] EXCEPT !.status = "interrupted"] \in Row
  <2>. HIDE DEF Row
  <2>1. rows[i] \in Row
    BY <1>1
  <2>. QED  BY <2>1 DEF Row
<1>3. DOMAIN rows = 1 .. Len(rows) /\ Len(rows) \in Nat
  BY <1>1
<1>. HIDE DEF Row
<1>4. Reconciled \in [1 .. Len(rows) -> Row]
  BY <1>2, <1>3 DEF Reconciled
<1>5. Reconciled \in Seq(Row)
  BY <1>3, <1>4
<1>. QED  BY <1>5 DEF Row

LEMMA ManageJobs ==
  ASSUME JobsType, NEW r \in RunIds, Begin(r) \/ Finish(r) \/ InterruptFinish(r)
  PROVE  JobsType'
<1>1. CASE Begin(r)
  <2>1. r \in Nat
    BY DEF RunIds
  <2>. QED  BY <1>1, <2>1 DEF JobsType, Begin, Outcomes
<1>2. CASE Finish(r)
  <2>1. task[r] \in Outcomes
    BY <1>2 DEF Finish
  <2>2. rows' \in Seq([job : Jobs, status : {"running", "interrupted"} \cup Outcomes])
    BY <1>2, <2>1, StatusWritten DEF Finish
  <2>. QED  BY <1>2, <2>2 DEF JobsType, Finish, Left
<1>3. CASE InterruptFinish(r)
  <2>1. rows' \in Seq([job : Jobs, status : {"running", "interrupted"} \cup Outcomes])
    <3>1. rows' = rows \/ rows' = [rows EXCEPT ![r].status = "failed"]
      BY <1>3 DEF InterruptFinish
    <3>2. "failed" \in {"running", "interrupted"} \cup Outcomes
      BY DEF Outcomes
    <3>3. rows \in Seq([job : Jobs, status : {"running", "interrupted"} \cup Outcomes])
      BY DEF JobsType
    <3>4. [rows EXCEPT ![r].status = "failed"]
            \in Seq([job : Jobs, status : {"running", "interrupted"} \cup Outcomes])
      BY <3>2, StatusWritten
    <3>. QED  BY <3>1, <3>3, <3>4
  <2>. QED  BY <1>3, <2>1 DEF JobsType, InterruptFinish, Left, Outcomes
<1>. QED  BY <1>1, <1>2, <1>3

LEMMA QueuedType ==
  ASSUME QueueType, NEW i \in Items, Queued(i)
  PROVE  queue' \in [Items -> Entry] /\ now' \in Nat
<1>1. Latest \in Nat
  BY LatestType
<1>2. now \in Nat /\ queue \in [Items -> Entry]
  BY DEF QueueType
<1>3. PICK t \in now .. Max({now, Latest}) + 1 :
         /\ queue' = [queue EXCEPT ![i] = [status |-> "pending", attempts |-> 0, at |-> t]]
         /\ now' = t
  BY DEF Queued
<1>4. Max({now, Latest}) \in Nat
  BY <1>1, <1>2 DEF Max
<1>5. t \in Nat
  BY <1>2, <1>4
<1>. QED  BY <1>2, <1>3, <1>5 DEF Entry, Statuses

LEMMA WriteType ==
  ASSUME QueueType, NEW i, NEW status \in Statuses, Write(i, status)
  PROVE  queue' \in [Items -> Entry]
BY DEF QueueType, Write, Entry

LEMMA RecordedType ==
  ASSUME QueueType, NEW r \in RunIds, item[r] \in Items, step[r] \in {"done", "retry", "fail"}, Recorded(r)
  PROVE  queue' \in [Items -> Entry]
<1>1. CASE step[r] \in {"done", "fail"}
  BY <1>1, WriteType DEF Recorded, Statuses
<1>2. CASE step[r] = "retry"
  <2>1. Latest \in Nat /\ queue \in [Items -> Entry]
    BY LatestType DEF QueueType
  <2>. QED  BY <1>2, <2>1 DEF Recorded, ToTheBack, Entry, Statuses
<1>. QED  BY <1>1, <1>2

\* A drain that goes on, with its item or without one, and one that ends.
LEMMA StayType ==
  ASSUME QueueType, NEW r \in RunIds, NEW label \in Steps, Stay(r, label),
         queue' \in [Items -> Entry], now' = now,
         \/ item' = item /\ (label \in Claimed \cup {"claim"} => item[r] # NoItem)
         \/ item' = [item EXCEPT ![r] = NoItem] /\ label \notin Claimed \cup {"claim"}
  PROVE  QueueType'
<1>1. JobsType'
  BY DEF Stay, jobvars, QueueType, JobsType
<1>. QED  BY <1>1 DEF Stay, Goto, QueueType

LEMMA LeaveType ==
  ASSUME QueueType, NEW r \in RunIds, NEW outcome \in Outcomes, Leave(r, outcome),
         queue' \in [Items -> Entry], now' = now
  PROVE  QueueType'
<1>1. JobsType'
  BY LeaveJobs DEF QueueType
<1>. QED  BY <1>1 DEF Leave, Goto, QueueType, Steps, Claimed

LEMMA TypeStep ==
  ASSUME IInv, [Next]_vars
  PROVE  QueueType'
<1>. USE JobManagerAssumption, FetchQueueAssumption
<1>1. QueueType /\ JobsType /\ Asleep /\ Calm
  BY DEF IInv, QueueType, Control
<1>2. ASSUME NEW r \in RunIds, Enqueue(r) PROVE QueueType'
  BY <1>1, <1>2, QueuedType DEF Enqueue, Stay, Goto, jobvars, QueueType, JobsType, Steps, Claimed
<1>3. ASSUME NEW r \in RunIds, AddFails(r) PROVE QueueType'
  BY <1>1, <1>3, LeaveJobs DEF AddFails, Leave, Goto, Untouched, QueueType, Outcomes, Steps, Claimed
<1>4. ASSUME NEW r \in RunIds, AutoStart(r) PROVE QueueType'
  BY <1>1, <1>4, LeaveJobs, EnterJobs DEF AutoStart, Leave, Goto, Untouched, QueueType, Outcomes, Steps, Claimed
<1>5. ASSUME NEW r \in RunIds, InterruptAdd(r) PROVE QueueType'
  <2>1. CASE Leave(r, "cancelled") /\ Untouched
    BY <1>1, <2>1, LeaveJobs DEF Leave, Goto, Untouched, QueueType, Outcomes, Steps, Claimed
  <2>2. CASE Leave(r, "cancelled") /\ \E i \in Items : Queued(i)
    BY <1>1, <2>2, LeaveJobs, QueuedType DEF Leave, Goto, QueueType, Outcomes, Steps, Claimed
  <2>3. CASE InterruptCall(r) /\ Goto(r, "enter") /\ UNCHANGED item /\ Untouched
    <3>1. JobsType'
      BY <1>1, <2>3 DEF InterruptCall, JobsType, Outcomes
    <3>. QED  BY <1>1, <2>3, <3>1 DEF Goto, Untouched, QueueType, Steps, Claimed
  <2>. QED  BY <1>5, <2>1, <2>2, <2>3 DEF InterruptAdd
<1>6. ASSUME NEW r \in RunIds, Select(r) PROVE QueueType'
  <2>1. CASE Leave(r, "completed")
    BY <1>1, <1>6, <2>1, LeaveJobs DEF Select, Leave, Goto, Untouched, QueueType, Outcomes, Steps, Claimed
  <2>2. ASSUME NEW i \in Items, item' = [item EXCEPT ![r] = i], Stay(r, "claim") PROVE QueueType'
    BY <1>1, <1>6, <2>2 DEF Select, Stay, jobvars, Goto, Untouched, QueueType, JobsType, Steps, Claimed
  <2>. QED  BY <1>6, <2>1, <2>2 DEF Select, Pending
<1>7. ASSUME NEW r \in RunIds, Claim(r) PROVE QueueType'
  <2>1. item[r] # NoItem /\ now' = now
    BY <1>1, <1>7 DEF Claim, QueueType
  <2>2. CASE item[r] \in Pending
    <3>1. Write(item[r], "running") /\ Stay(r, "report") /\ item' = item
      BY <1>7, <2>2 DEF Claim
    <3>2. queue' \in [Items -> Entry]
      BY <1>1, <3>1, WriteType DEF Statuses
    <3>. QED  BY <1>1, <2>1, <3>1, <3>2, StayType DEF Steps
  <2>3. CASE item[r] \notin Pending
    <3>1. Leave(r, "completed") /\ queue' = queue
      BY <1>7, <2>3 DEF Claim
    <3>. QED  BY <1>1, <2>1, <3>1, LeaveType DEF QueueType, Outcomes
  <2>. QED  BY <2>2, <2>3
<1>8. ASSUME NEW r \in RunIds, Report(r) \/ Fetch(r) PROVE QueueType'
  <2>1. PICK label \in Steps : Stay(r, label)
    BY <1>8 DEF Report, Fetch, Steps
  <2>2. queue' \in [Items -> Entry] /\ now' = now /\ item' = item /\ item[r] # NoItem
    BY <1>1, <1>8 DEF Report, Fetch, Untouched, QueueType, Claimed
  <2>. QED  BY <1>1, <2>1, <2>2, StayType
<1>9. ASSUME NEW r \in RunIds, Record(r) PROVE QueueType'
  <2>1. step[r] \in {"done", "retry", "fail"} /\ Recorded(r) /\ Stay(r, "rest")
    BY <1>9 DEF Record
  <2>2. item[r] \in Items
    BY <1>1, <2>1 DEF QueueType, Claimed
  <2>3. item' = [item EXCEPT ![r] = NoItem] /\ now' = now /\ queue' \in [Items -> Entry]
    BY <1>1, <1>9, <2>1, <2>2, RecordedType DEF Record
  <2>4. "rest" \in Steps /\ "rest" \notin Claimed \cup {"claim"}
    BY DEF Steps, Claimed
  <2>. QED  BY <1>1, <2>1, <2>3, <2>4, StayType
<1>10. ASSUME NEW r \in RunIds, InterruptDrain(r) PROVE QueueType'
  <2>1. now' = now
    BY <1>10 DEF InterruptDrain
  <2>2. CASE step[r] \in {"fetch", "done"} /\ Stay(r, "requeue") /\ UNCHANGED <<queue, item>>
    <3>1. item[r] # NoItem /\ "requeue" \in Steps
      BY <1>1, <2>2 DEF QueueType, Claimed, Steps
    <3>. QED  BY <1>1, <2>1, <2>2, <3>1, StayType DEF QueueType
  <2>3. CASE Leave(r, "cancelled") /\ UNCHANGED queue
    BY <1>1, <2>1, <2>3, LeaveType DEF QueueType, Outcomes
  <2>4. CASE item[r] \in Pending /\ Leave(r, "cancelled") /\ Write(item[r], "running")
    <3>1. queue' \in [Items -> Entry]
      BY <1>1, <2>4, WriteType DEF Statuses
    <3>. QED  BY <1>1, <2>1, <2>4, <3>1, LeaveType DEF Outcomes
  <2>5. CASE step[r] \in {"retry", "fail"} /\ Leave(r, "cancelled") /\ Recorded(r)
    <3>1. item[r] \in Items
      BY <1>1, <2>5 DEF QueueType, Claimed
    <3>2. queue' \in [Items -> Entry]
      BY <1>1, <2>5, <3>1, RecordedType
    <3>. QED  BY <1>1, <2>1, <2>5, <3>2, LeaveType DEF Outcomes
  <2>. QED  BY <1>10, <2>2, <2>3, <2>4, <2>5 DEF InterruptDrain
<1>11. ASSUME NEW r \in RunIds, Requeue(r) PROVE QueueType'
  BY <1>1, <1>11, WriteType, LeaveJobs DEF Requeue, Leave, Goto, QueueType, Outcomes, Steps, Claimed, Statuses
<1>12. ASSUME NEW r \in RunIds, Manage(r) PROVE QueueType'
  BY <1>1, <1>12, ManageJobs DEF Manage, QueueType
<1>13. ASSUME NEW n \in Jobs, Run(n) PROVE QueueType'
  BY <1>1, <1>13, EnterJobs DEF Run, Call, QueueType
<1>14. ASSUME NEW i \in Items, Remove(i) PROVE QueueType'
  BY <1>1, <1>14, WriteType DEF Remove, jobvars, QueueType, JobsType, Statuses
<1>15. CASE Shutdown
  BY <1>1, <1>15 DEF Shutdown, Stop, QueueType, JobsType
<1>16. CASE Ended \/ Killed
  BY <1>1, <1>16 DEF Ended, Killed, Close, Crash, Down, Gone, QueueType, JobsType, Steps, Claimed
<1>17. CASE Boot
  <2>1. Reconciled \in Seq([job : Jobs, status : {"running", "interrupted"} \cup Outcomes])
    BY <1>1, ReconciledType
  <2>2. [job |-> "drain", status |-> "running"]
          \in [job : Jobs, status : {"running", "interrupted"} \cup Outcomes]
    OBVIOUS
  <2>3. rows' \in Seq([job : Jobs, status : {"running", "interrupted"} \cup Outcomes])
    <3>. DEFINE Row == [job : Jobs, status : {"running", "interrupted"} \cup Outcomes]
                drain == [job |-> "drain", status |-> "running"]
    <3>1. rows' = Append(Reconciled, drain) \/ rows' = Reconciled
      BY <1>17 DEF Boot
    <3>2. Reconciled \in Seq(Row) /\ drain \in Row
      BY <2>1, <2>2
    <3>. HIDE DEF Row, drain
    <3>3. rows' \in Seq(Row)
      BY <3>1, <3>2
    <3>. QED  BY <3>3 DEF Row
  <2>4. JobsType'
    <3>1. Len(rows) + 1 \in Nat
      BY <1>1 DEF JobsType
    <3>2. boots' \in 0 .. MaxBoots
      BY <1>1, <1>17 DEF Boot, JobsType, Calm
    <3>3. /\ running' \in [Jobs -> Nat \cup {NoRun}]
          /\ task' \in [RunIds -> {"none", "start", "work", "ended"} \cup Outcomes]
      BY <1>1, <1>17, <3>1 DEF Boot, JobsType
    <3>4. service' \in {"up", "stopping", "down"}
      BY <1>17 DEF Boot
    <3>5. caller' \in [RunIds -> RunIds \cup {NoRun}] /\ cancelled' \subseteq Nat
      BY <1>1, <1>17 DEF Boot, JobsType
    <3>. QED  BY <2>3, <3>2, <3>3, <3>4, <3>5 DEF JobsType
  <2>5. queue' \in [Items -> Entry]
    <3>1. queue \in [Items -> Entry] /\ queue' = Reset
      BY <1>1, <1>17 DEF Boot, QueueType
    <3>. QED  BY <3>1 DEF Reset, Entry, Statuses
  <2>. QED  BY <1>1, <1>17, <2>4, <2>5 DEF Boot, QueueType
<1>18. CASE UNCHANGED vars
  BY <1>1, <1>18 DEF vars, jobvars, QueueType, JobsType
<1>. QED
  BY <1>2, <1>3, <1>4, <1>5, <1>6, <1>7, <1>8, <1>9, <1>10, <1>11, <1>12, <1>13, <1>14, <1>15,
     <1>16, <1>17, <1>18 DEF Next, Work

-----------------------------------------------------------------------------
(***************************************************************************)
(* The actions keep the control facts.                                     *)
(***************************************************************************)
LEMMA StayControl ==
  ASSUME QueueType, Control, NEW r \in RunIds, NEW label, task[r] = "work",
         step[r] # "more" \/ ~Calling(r), Stay(r, label)
  PROVE  Control'
<1>1. Unborn'
  BY DEF Stay, jobvars, Control, Unborn
<1>2. Fresh'
  BY DEF Stay, jobvars, Goto, Control, Fresh, QueueType
<1>3. Awaiting'
  BY DEF Stay, jobvars, Goto, Control, Awaiting, Calling, QueueType
<1>4. Asleep' /\ Calm'
  BY DEF Stay, jobvars, Goto, Control, Asleep, Calm
<1>. QED  BY <1>1, <1>2, <1>3, <1>4 DEF Control

LEMMA LeaveControl ==
  ASSUME QueueType, Control, NEW r \in RunIds, NEW outcome \in Outcomes, task[r] = "work",
         step[r] # "more" \/ ~Calling(r), Leave(r, outcome)
  PROVE  Control'
<1>1. Unborn'
  BY DEF Leave, Outcome, Control, Unborn, QueueType, JobsType
<1>2. Fresh'
  BY DEF Leave, Outcome, Goto, Control, Fresh, QueueType, JobsType
<1>3. Awaiting'
  BY DEF Leave, Outcome, Goto, Control, Awaiting, Calling, QueueType, JobsType
<1>4. Asleep' /\ Calm'
  BY DEF Leave, Outcome, Goto, Control, Asleep, Calm
<1>. QED  BY <1>1, <1>2, <1>3, <1>4 DEF Control

LEMMA EnterControl ==
  ASSUME QueueType, Control, service # "down", NEW n \in Jobs, NEW by,
         by = NoRun \/ step[by] = "more", Enter(n, by), UNCHANGED step
  PROVE  Control'
<1>. USE JobManagerAssumption
<1>. DEFINE new == Len(rows) + 1
<1>1. Len(rows) \in Nat /\ Len(rows') = new
  BY DEF QueueType, JobsType, Enter
<1>2. task' = [task EXCEPT ![new] = "start"] /\ caller' = [caller EXCEPT ![new] = by]
  BY DEF Enter
<1>3. new \in RunIds => step[new] = "enter"
  BY <1>1 DEF Control, Unborn, Fresh
<1>. HIDE DEF new
<1>4. Unborn'
  <2>. SUFFICES ASSUME NEW r \in RunIds, r > new PROVE task'[r] = "none"
    BY <1>1 DEF Unborn
  <2>1. r \in Nat /\ r # new /\ r > Len(rows)
    BY <1>1 DEF RunIds, new
  <2>2. task[r] = "none"
    BY <2>1 DEF Control, Unborn
  <2>. QED  BY <1>2, <2>1, <2>2 DEF QueueType, JobsType
<1>5. Fresh'
  BY <1>2, <1>3 DEF Control, Fresh, QueueType, JobsType
<1>6. Awaiting'
  BY <1>2 DEF Control, Awaiting, QueueType, JobsType
<1>7. Asleep' /\ Calm'
  BY DEF Enter, Control, Asleep, Calm
<1>. QED  BY <1>4, <1>5, <1>6, <1>7 DEF Control

LEMMA ControlStep ==
  ASSUME IInv, [Next]_vars
  PROVE  Control'
<1>. USE JobManagerAssumption, FetchQueueAssumption
<1>1. QueueType /\ JobsType /\ Control
  BY DEF IInv, QueueType
<1>2. ASSUME NEW r \in RunIds, Enqueue(r) \/ Report(r) \/ Fetch(r) \/ Record(r) PROVE Control'
  <2>1. /\ task[r] = "work" /\ (step[r] # "more" \/ ~Calling(r))
        /\ \E label \in Steps : Stay(r, label)
    BY <1>2 DEF Enqueue, Report, Fetch, Record, Works, Steps
  <2>. QED  BY <1>1, <2>1, StayControl
<1>3. ASSUME NEW r \in RunIds, AddFails(r) \/ Claim(r) \/ Select(r) \/ Requeue(r) PROVE Control'
  <2>1. /\ task[r] = "work" /\ step[r] # "more"
        /\ \/ \E label \in Steps : Stay(r, label)
           \/ \E outcome \in Outcomes : Leave(r, outcome)
    BY <1>3 DEF AddFails, Claim, Select, Requeue, Works, Steps, Outcomes
  <2>. QED  BY <1>1, <2>1, StayControl, LeaveControl
<1>4. ASSUME NEW r \in RunIds, AutoStart(r) PROVE Control'
  <2>1. task[r] = "work" /\ ~Calling(r) /\ step[r] = "more" /\ service # "down"
    BY <1>1, <1>4 DEF AutoStart, Works, Control, Asleep
  <2>2. CASE Leave(r, "completed")
    BY <1>1, <2>1, <2>2, LeaveControl DEF Outcomes
  <2>3. CASE Enter("drain", r) /\ UNCHANGED <<step, item>>
    BY <1>1, <2>1, <2>3, EnterControl
  <2>. QED  BY <1>4, <2>2, <2>3 DEF AutoStart
<1>5. ASSUME NEW r \in RunIds, InterruptAdd(r) PROVE Control'
  <2>1. CASE ~Calling(r) /\ Leave(r, "cancelled")
    <3>1. task[r] = "work"
      BY <1>5 DEF InterruptAdd
    <3>. QED  BY <1>1, <2>1, <3>1, LeaveControl DEF Outcomes
  <2>2. CASE InterruptCall(r) /\ Goto(r, "enter")
    <3>1. Unborn'
      BY <1>1, <2>2 DEF InterruptCall, Control, Unborn, Awaiting, QueueType, JobsType
    <3>2. Fresh'
      BY <1>1, <2>2 DEF InterruptCall, Goto, Control, Fresh, QueueType, JobsType
    <3>3. Awaiting'
      BY <1>1, <2>2 DEF InterruptCall, Goto, Control, Awaiting, QueueType, JobsType
    <3>4. Asleep' /\ Calm'
      BY <1>1, <2>2 DEF InterruptCall, Goto, Control, Asleep, Calm, QueueType, JobsType
    <3>. QED  BY <3>1, <3>2, <3>3, <3>4 DEF Control
  <2>. QED  BY <1>5, <2>1, <2>2 DEF InterruptAdd
<1>6. ASSUME NEW r \in RunIds, InterruptDrain(r) PROVE Control'
  BY <1>1, <1>6 DEF InterruptDrain, Leave, Outcome, Stay, Goto, jobvars, Control, Unborn, Fresh,
       Awaiting, Asleep, Calm, QueueType, JobsType
<1>7. ASSUME NEW r \in RunIds, Manage(r) PROVE Control'
  BY <1>1, <1>7 DEF Manage, Begin, Finish, InterruptFinish, Left, Outcomes, Control, Unborn, Fresh,
       Awaiting, Asleep, Calm, QueueType, JobsType
<1>8. ASSUME NEW n \in Jobs, Run(n) PROVE Control'
  BY <1>1, <1>8, EnterControl DEF Run, Call
<1>9. ASSUME NEW i \in Items, Remove(i) PROVE Control'
  BY <1>1, <1>9 DEF Remove, jobvars, Control, Unborn, Fresh, Awaiting, Asleep, Calm
<1>10. CASE Shutdown
  BY <1>1, <1>10 DEF Shutdown, Stop, Control, Unborn, Fresh, Awaiting, Asleep, Calm
<1>11. CASE Ended \/ Killed
  BY <1>1, <1>11 DEF Ended, Killed, Close, Crash, Down, Gone, Control, Unborn, Fresh, Awaiting, Asleep, Calm, QueueType, JobsType
<1>12. CASE Boot
  <2>. DEFINE new == Len(rows) + 1
  <2>1. Len(rows) \in Nat /\ Len(Reconciled) = Len(rows) /\ Reconciled \in Seq([job : Jobs, status : {"running", "interrupted"} \cup Outcomes])
    BY <1>1, ReconciledType DEF JobsType, Reconciled
  <2>2. \/ Len(rows') = new /\ task' = [task EXCEPT ![new] = "work"]
        \/ Len(rows') = Len(rows) /\ UNCHANGED task
    BY <1>12, <2>1 DEF Boot
  <2>3. Unborn'
    <3>. SUFFICES ASSUME NEW r \in RunIds, r > Len(rows') PROVE task'[r] = "none"
      BY DEF Unborn
    <3>1. r \in Nat /\ r > Len(rows)
      BY <2>1, <2>2 DEF RunIds
    <3>2. task[r] = "none"
      BY <1>1, <3>1 DEF Control, Unborn
    <3>. QED  BY <1>1, <2>1, <2>2, <3>1, <3>2 DEF JobsType
  <2>. HIDE DEF new
  <2>4. Fresh'
    BY <1>1, <1>12, <2>2 DEF Boot, Control, Fresh, JobsType
  <2>5. Awaiting' /\ Asleep' /\ Calm'
    BY <1>1, <1>12 DEF Boot, Control, Awaiting, Asleep, Calm
  <2>. QED  BY <2>3, <2>4, <2>5 DEF Control
<1>13. CASE UNCHANGED vars
  BY <1>1, <1>13 DEF vars, jobvars, Control, Unborn, Fresh, Awaiting, Asleep, Calm
<1>. QED
  BY <1>2, <1>3, <1>4, <1>5, <1>6, <1>7, <1>8, <1>9, <1>10, <1>11, <1>12, <1>13 DEF Next, Work
-----------------------------------------------------------------------------
(***************************************************************************)
(* Who holds what.  Most steps change neither the holders nor which items  *)
(* are running; three end a hold, and one begins a hold.                   *)
(***************************************************************************)
LEMMA HeldQuiet ==
  ASSUME Held,
         \A x \in RunIds, i \in Items : Holds(x, i)' <=> Holds(x, i),
         \A i \in Items : queue[i].status = "running" => queue'[i].status = "running",
         service' = "up" =>
           service = "up" /\ \A i \in Items : queue'[i].status = "running" => queue[i].status = "running"
  PROVE  Held'
<1>1. HeldRuns'
  BY DEF Held, HeldRuns
<1>2. ClaimedOnce'
  BY DEF Held, ClaimedOnce
<1>3. NothingStranded'
  BY DEF Held, NothingStranded
<1>. QED  BY <1>1, <1>2, <1>3 DEF Held

LEMMA HeldRelease ==
  ASSUME Held, NEW r \in RunIds, Holds(r, item[r]), item[r] \in Items, UNCHANGED service,
         \A j \in Items : ~Holds(r, j)',
         \A x \in RunIds \ {r}, j \in Items : Holds(x, j)' <=> Holds(x, j),
         \A j \in Items \ {item[r]} : queue'[j].status = "running" <=> queue[j].status = "running",
         service = "up" => queue'[item[r]].status # "running"
  PROVE  Held'
<1>1. \A x \in RunIds, j \in Items : Holds(x, j)' => x # r /\ Holds(x, j) /\ j # item[r]
  BY DEF Held, ClaimedOnce
<1>2. HeldRuns'
  BY <1>1 DEF Held, HeldRuns
<1>3. ClaimedOnce'
  BY <1>1 DEF Held, ClaimedOnce
<1>4. NothingStranded'
  <2>. SUFFICES ASSUME service = "up", NEW j \in Items, queue'[j].status = "running"
                PROVE  \E x \in RunIds : Holds(x, j)'
    BY DEF NothingStranded
  <2>1. j # item[r]
    OBVIOUS
  <2>2. PICK x \in RunIds : Holds(x, j)
    BY <2>1 DEF Held, NothingStranded
  <2>3. x # r
    BY <2>1, <2>2 DEF Holds
  <2>. QED  BY <2>2, <2>3
<1>. QED  BY <1>2, <1>3, <1>4 DEF Held

\* What a drain writes of the item it has in hand concerns no other item, and
\* that item is no longer running.
LEMMA RecordedItem ==
  ASSUME QueueType, NEW r \in RunIds, item[r] \in Items, step[r] \in {"done", "retry", "fail"}, Recorded(r)
  PROVE  /\ queue'[item[r]].status # "running"
         /\ \A j \in Items \ {item[r]} : queue'[j] = queue[j]
<1>1. queue \in [Items -> Entry]
  BY DEF QueueType
<1>2. CASE step[r] \in {"done", "fail"}
  <2>1. PICK status \in {"done", "failed"} : queue' = [queue EXCEPT ![item[r]].status = status]
    BY <1>2 DEF Recorded, Write
  <2>. QED  BY <1>1, <2>1 DEF Entry
<1>3. CASE step[r] = "retry" /\ MayRetry(r)
  BY <1>1, <1>3 DEF Recorded, ToTheBack, Entry
<1>4. CASE step[r] = "retry" /\ ~MayRetry(r)
  <2>1. queue' = [queue EXCEPT ![item[r]].status = "failed", ![item[r]].attempts = @ + 1]
    BY <1>4 DEF Recorded
  <2>. QED  BY <1>1, <2>1 DEF Entry
<1>. QED  BY <1>2, <1>3, <1>4

LEMMA ClaimHeld ==
  ASSUME QueueType, Held, NEW r \in RunIds, Claim(r)
  PROVE  Held'
<1>1. task[r] = "work" /\ step[r] = "claim" /\ item[r] \in Items
  BY DEF Claim, Works, QueueType
<1>2. CASE item[r] \in Pending
  <2>1. /\ queue' = [queue EXCEPT ![item[r]].status = "running"]
        /\ UNCHANGED <<task, item, service>> /\ step' = [step EXCEPT ![r] = "report"]
    BY <1>2 DEF Claim, Write, Stay, Goto, jobvars
  <2>2. queue'[item[r]].status = "running" /\ \A j \in Items \ {item[r]} : queue'[j] = queue[j]
    BY <1>1, <2>1 DEF QueueType, Entry
  <2>3. Holds(r, item[r])'
    BY <1>1, <2>1 DEF Holds, Claimed, QueueType
  <2>4. \A x \in RunIds, j \in Items : x # r => (Holds(x, j)' <=> Holds(x, j))
    BY <2>1 DEF Holds, QueueType
  <2>5. \A j \in Items : Holds(r, j)' => j = item[r]
    BY <2>1 DEF Holds
  <2>6. \A x \in RunIds : ~Holds(x, item[r])
    BY <1>1, <1>2 DEF Held, HeldRuns, Pending
  <2>7. \A j \in Items : ~Holds(r, j)
    BY <1>1 DEF Holds, Claimed
  <2>8. HeldRuns'
    BY <2>2, <2>4, <2>5 DEF Held, HeldRuns
  <2>9. ClaimedOnce'
    BY <2>4, <2>5, <2>6 DEF Held, ClaimedOnce
  <2>10. NothingStranded'
    BY <1>1, <2>1, <2>2, <2>3, <2>4, <2>7 DEF Held, NothingStranded
  <2>. QED  BY <2>8, <2>9, <2>10 DEF Held
<1>3. CASE item[r] \notin Pending
  <2>1. Leave(r, "completed") /\ UNCHANGED queue
    BY <1>3 DEF Claim
  <2>2. \A x \in RunIds, i \in Items : Holds(x, i)' <=> Holds(x, i)
    BY <1>1, <2>1 DEF Leave, Outcome, Goto, Holds, Claimed, QueueType, JobsType
  <2>. QED  BY <2>1, <2>2, HeldQuiet DEF Leave
<1>. QED  BY <1>2, <1>3

LEMMA RecordHeld ==
  ASSUME QueueType, Held, NEW r \in RunIds, Record(r)
  PROVE  Held'
<1>1. task[r] = "work" /\ step[r] \in {"done", "retry", "fail"} /\ item[r] \in Items
  BY DEF Record, Works, QueueType, Claimed
<1>2. Holds(r, item[r])
  BY <1>1 DEF Holds, Claimed
<1>3. UNCHANGED service /\ (\A j \in Items : ~Holds(r, j)')
      /\ \A x \in RunIds \ {r}, j \in Items : Holds(x, j)' <=> Holds(x, j)
  BY DEF Record, Stay, Goto, jobvars, Holds, Claimed, QueueType
<1>. QED  BY <1>1, <1>2, <1>3, RecordedItem, HeldRelease DEF Record

\* A coroutine that is cancelled or requeues lets go of its item.
LEMMA LeaveHeld ==
  ASSUME QueueType, Held, NEW r \in RunIds, NEW outcome \in Outcomes, task[r] = "work",
         step[r] \in Claimed, Leave(r, outcome),
         \A j \in Items \ {item[r]} : queue'[j].status = "running" <=> queue[j].status = "running",
         service = "up" => queue'[item[r]].status # "running"
  PROVE  Held'
<1>1. item[r] \in Items /\ Holds(r, item[r])
  BY DEF QueueType, Holds
<1>2. UNCHANGED service /\ (\A j \in Items : ~Holds(r, j)')
      /\ \A x \in RunIds \ {r}, j \in Items : Holds(x, j)' <=> Holds(x, j)
  BY DEF Leave, Outcome, Goto, Holds, Claimed, QueueType, JobsType
<1>. QED  BY <1>1, <1>2, HeldRelease

LEMMA InterruptDrainHeld ==
  ASSUME QueueType, Control, Held, NEW r \in RunIds, InterruptDrain(r)
  PROVE  Held'
<1>1. service # "up" /\ task[r] = "work" /\ UNCHANGED service
  BY DEF InterruptDrain, Control, Calm, Leave, Stay, jobvars
<1>2. CASE step[r] \in {"fetch", "done"} /\ Stay(r, "requeue") /\ UNCHANGED <<queue, item>>
  <2>1. \A x \in RunIds, i \in Items : Holds(x, i)' <=> Holds(x, i)
    BY <1>2 DEF Stay, Goto, jobvars, Holds, Claimed, QueueType
  <2>. QED  BY <1>1, <1>2, <2>1, HeldQuiet
<1>3. CASE step[r] \in {"enter", "rest", "claim"} /\ Leave(r, "cancelled")
  <2>1. \A x \in RunIds, i \in Items : Holds(x, i)' <=> Holds(x, i)
    BY <1>3 DEF Leave, Outcome, Goto, Holds, Claimed, QueueType, JobsType
  <2>2. \A i \in Items : queue[i].status = "running" => queue'[i].status = "running"
    BY <1>3 DEF InterruptDrain, Write, QueueType, Entry
  <2>. QED  BY <1>1, <2>1, <2>2, HeldQuiet
<1>4. CASE step[r] = "report" /\ Leave(r, "cancelled") /\ UNCHANGED queue
  BY <1>1, <1>4, LeaveHeld DEF Claimed, Outcomes
<1>5. CASE step[r] \in {"retry", "fail"} /\ Leave(r, "cancelled") /\ (Recorded(r) \/ UNCHANGED queue)
  <2>1. item[r] \in Items
    BY <1>5 DEF QueueType, Claimed
  <2>2. \A j \in Items \ {item[r]} : queue'[j] = queue[j]
    BY <1>5, <2>1, RecordedItem
  <2>. QED  BY <1>1, <1>5, <2>2, LeaveHeld DEF Claimed, Outcomes
<1>. QED  BY <1>2, <1>3, <1>4, <1>5 DEF InterruptDrain

LEMMA RequeueHeld ==
  ASSUME QueueType, Held, NEW r \in RunIds, Requeue(r)
  PROVE  Held'
<1>1. task[r] = "work" /\ step[r] = "requeue" /\ item[r] \in Items /\ Leave(r, "cancelled")
  BY DEF Requeue, QueueType, Claimed
<1>2. /\ queue'[item[r]].status # "running"
      /\ \A j \in Items \ {item[r]} : queue'[j] = queue[j]
  BY <1>1 DEF Requeue, Write, QueueType, Entry
<1>. QED  BY <1>1, <1>2, LeaveHeld DEF Claimed, Outcomes

\* A run that is entered has not begun.
LEMMA EnterHolds ==
  ASSUME QueueType, Control, NEW n \in Jobs, NEW by, Enter(n, by), UNCHANGED <<step, item>>
  PROVE  \A x \in RunIds, j \in Items : Holds(x, j)' <=> Holds(x, j)
<1>. DEFINE new == Len(rows) + 1
<1>1. Len(rows) \in Nat
  BY DEF QueueType, JobsType
<1>2. new \in RunIds => task[new] = "none"
  BY <1>1 DEF Control, Unborn
<1>3. task' = [task EXCEPT ![new] = "start"]
  BY DEF Enter
<1>. HIDE DEF new
<1>. QED  BY <1>2, <1>3 DEF Holds, QueueType, JobsType

LEMMA HeldStep ==
  ASSUME IInv, [Next]_vars
  PROVE  Held'
<1>. USE JobManagerAssumption, FetchQueueAssumption
<1>1. QueueType /\ JobsType /\ Control /\ Held
  BY DEF IInv, QueueType
<1>2. ASSUME NEW r \in RunIds, Enqueue(r) PROVE Held'
  <2>1. \A x \in RunIds, j \in Items : Holds(x, j)' <=> Holds(x, j)
    BY <1>1, <1>2 DEF Enqueue, Stay, Goto, jobvars, Holds, Claimed, QueueType
  <2>2. \A j \in Items : queue'[j].status = "running" <=> queue[j].status = "running"
    BY <1>1, <1>2 DEF Enqueue, Queued, QueueType
  <2>. QED  BY <1>1, <1>2, <2>1, <2>2, HeldQuiet DEF Enqueue, Stay, jobvars
<1>3. ASSUME NEW r \in RunIds, AddFails(r) PROVE Held'
  <2>1. \A x \in RunIds, j \in Items : Holds(x, j)' <=> Holds(x, j)
    BY <1>1, <1>3 DEF AddFails, Leave, Outcome, Goto, Holds, Claimed, QueueType, JobsType
  <2>. QED  BY <1>1, <1>3, <2>1, HeldQuiet DEF AddFails, Leave, Untouched
<1>4. ASSUME NEW r \in RunIds, AutoStart(r) PROVE Held'
  <2>1. CASE Leave(r, "completed")
    <3>1. \A x \in RunIds, j \in Items : Holds(x, j)' <=> Holds(x, j)
      BY <1>1, <1>4, <2>1 DEF AutoStart, Leave, Outcome, Goto, Holds, Claimed, QueueType, JobsType
    <3>. QED  BY <1>1, <1>4, <2>1, <3>1, HeldQuiet DEF AutoStart, Leave, Untouched
  <2>2. CASE Enter("drain", r) /\ UNCHANGED <<step, item>>
    <3>1. \A x \in RunIds, j \in Items : Holds(x, j)' <=> Holds(x, j)
      BY <1>1, <2>2, EnterHolds
    <3>. QED  BY <1>1, <1>4, <2>2, <3>1, HeldQuiet DEF AutoStart, Enter, Untouched
  <2>. QED  BY <1>4, <2>1, <2>2 DEF AutoStart
<1>5. ASSUME NEW r \in RunIds, InterruptAdd(r) PROVE Held'
  <2>1. service # "up" /\ task[r] = "work" /\ UNCHANGED service
    BY <1>1, <1>5 DEF InterruptAdd, InterruptCall, Leave, Control, Calm
  <2>2. \A j \in Items : queue[j].status = "running" <=> queue'[j].status = "running"
    BY <1>1, <1>5 DEF InterruptAdd, Queued, Untouched, QueueType
  <2>3. CASE step[r] \notin Claimed /\ Leave(r, "cancelled")
    <3>1. \A x \in RunIds, j \in Items : Holds(x, j)' <=> Holds(x, j)
      BY <1>1, <2>3 DEF Leave, Outcome, Goto, Holds, Claimed, QueueType, JobsType
    <3>. QED  BY <1>1, <2>1, <2>2, <3>1, HeldQuiet
  <2>4. CASE InterruptCall(r) /\ Goto(r, "enter") /\ UNCHANGED item
    <3>1. step[r] = "more" /\ \A x \in RunIds : caller[x] = r => task[x] = "start"
      BY <1>1, <2>4 DEF InterruptCall, Control, Awaiting
    <3>2. \A x \in RunIds, j \in Items : Holds(x, j)' <=> Holds(x, j)
      BY <1>1, <2>4, <3>1 DEF InterruptCall, Goto, Holds, Claimed, QueueType, JobsType
    <3>. QED  BY <1>1, <2>1, <2>2, <3>2, HeldQuiet
  <2>5. CASE step[r] \in Claimed /\ Leave(r, "cancelled")
    BY <1>1, <2>1, <2>2, <2>5, LeaveHeld DEF Outcomes
  <2>. QED  BY <1>5, <2>3, <2>4, <2>5 DEF InterruptAdd
<1>6. ASSUME NEW r \in RunIds, Select(r) PROVE Held'
  <2>1. \A x \in RunIds, j \in Items : Holds(x, j)' <=> Holds(x, j)
    BY <1>1, <1>6 DEF Select, Stay, jobvars, Leave, Outcome, Goto, Holds, Claimed, QueueType, JobsType
  <2>. QED  BY <1>1, <1>6, <2>1, HeldQuiet DEF Select, Leave, Stay, jobvars, Untouched
<1>7. ASSUME NEW r \in RunIds, Report(r) \/ Fetch(r) PROVE Held'
  <2>1. \A x \in RunIds, j \in Items : Holds(x, j)' <=> Holds(x, j)
    BY <1>1, <1>7 DEF Report, Fetch, Stay, jobvars, Goto, Holds, Claimed, QueueType
  <2>. QED  BY <1>1, <1>7, <2>1, HeldQuiet DEF Report, Fetch, Stay, jobvars, Untouched
<1>8. ASSUME NEW r \in RunIds, Manage(r) PROVE Held'
  <2>1. \A x \in RunIds, j \in Items : Holds(x, j)' <=> Holds(x, j)
    <3>1. CASE Begin(r)
      BY <1>1, <1>8, <3>1 DEF Manage, Begin, Control, Fresh, Awaiting, Holds, Claimed, QueueType, JobsType
    <3>2. CASE Finish(r) \/ InterruptFinish(r)
      BY <1>1, <1>8, <3>2 DEF Manage, Finish, InterruptFinish, Left, Outcomes, Holds, QueueType, JobsType
    <3>. QED  BY <1>8, <3>1, <3>2 DEF Manage
  <2>. QED  BY <1>1, <1>8, <2>1, HeldQuiet DEF Manage, Begin, Finish, InterruptFinish
<1>9. ASSUME NEW n \in Jobs, Run(n) PROVE Held'
  <2>1. \A x \in RunIds, j \in Items : Holds(x, j)' <=> Holds(x, j)
    BY <1>1, <1>9, EnterHolds DEF Run, Call
  <2>. QED  BY <1>1, <1>9, <2>1, HeldQuiet DEF Run, Call, Enter
<1>10. ASSUME NEW i \in Items, Remove(i) PROVE Held'
  <2>1. \A x \in RunIds, j \in Items : Holds(x, j)' <=> Holds(x, j)
    BY <1>10 DEF Remove, jobvars, Holds
  <2>2. \A j \in Items : queue'[j].status = "running" <=> queue[j].status = "running"
    BY <1>1, <1>10 DEF Remove, Write, QueueType, Entry
  <2>. QED  BY <1>1, <1>10, <2>1, <2>2, HeldQuiet DEF Remove, jobvars
<1>11. CASE Shutdown
  <2>1. \A x \in RunIds, j \in Items : Holds(x, j)' <=> Holds(x, j)
    BY <1>11 DEF Shutdown, Stop, Holds
  <2>. QED  BY <1>1, <1>11, <2>1, HeldQuiet DEF Shutdown, Stop
<1>12. CASE Ended \/ Killed
  <2>1. \A x \in RunIds, j \in Items : ~Holds(x, j)'
    BY <1>12 DEF Ended, Killed, Gone, Holds, Claimed
  <2>. QED  BY <1>12, <2>1 DEF Ended, Killed, Close, Crash, Down, Held, HeldRuns, ClaimedOnce, NothingStranded
<1>13. CASE Boot
  <2>1. \A x \in RunIds, j \in Items : ~Holds(x, j)'
    BY <1>1, <1>13 DEF Boot, Control, Asleep, Holds, Claimed
  <2>2. \A j \in Items : queue'[j].status # "running"
    BY <1>1, <1>13 DEF Boot, Reset, QueueType, Entry
  <2>. QED  BY <2>1, <2>2 DEF Held, HeldRuns, ClaimedOnce, NothingStranded
<1>14. CASE UNCHANGED vars
  BY <1>1, <1>14 DEF vars, jobvars, Held, HeldRuns, ClaimedOnce, NothingStranded, Holds
<1>. QED
  BY <1>1, <1>2, <1>3, <1>4, <1>5, <1>6, <1>7, <1>8, <1>9, <1>10, <1>11, <1>12, <1>13, <1>14,
     ClaimHeld, RecordHeld, InterruptDrainHeld, RequeueHeld DEF Next, Work

-----------------------------------------------------------------------------
(***************************************************************************)
(* Attempts.                                                               *)
(***************************************************************************)
LEMMA CountsStep ==
  ASSUME IInv, [Next]_vars
  PROVE  CountsType'
<1>1. QueueType /\ CountsType
  BY DEF IInv
<1>2. CASE UNCHANGED counts
  BY <1>1, <1>2 DEF CountsType, counts
<1>3. ASSUME NEW r \in RunIds, Select(r) PROVE CountsType'
  <2>1. \A i \in Items : queue[i].attempts \in Nat
    BY <1>1 DEF QueueType, Entry
  <2>. QED  BY <1>1, <1>3, <2>1 DEF Select, Pending, CountsType
<1>4. ASSUME NEW r \in RunIds, Claim(r) PROVE CountsType'
  <2>1. UNCHANGED stale \/ stale' = [stale EXCEPT ![item[r]] = IF read[r] = queue[item[r]].attempts THEN @ ELSE @ + 1]
    BY <1>4 DEF Claim
  <2>2. UNCHANGED read
    BY <1>4 DEF Claim
  <2>. QED  BY <1>1, <2>1, <2>2 DEF CountsType
<1>. QED  BY <1>2, <1>3, <1>4 DEF Next, Work, Manage, Run, Remove, Shutdown, Ended, Killed, Gone, Boot, vars, counts

\* A hold begins with a claim only.
LEMMA HoldsStep ==
  ASSUME IInv, [Next]_vars, NEW x \in RunIds, NEW j \in Items, Holds(x, j)'
  PROVE  Holds(x, j) \/ (Claim(x) /\ item[x] = j /\ j \in Pending)
<1>. USE JobManagerAssumption, FetchQueueAssumption
<1>1. QueueType /\ JobsType /\ Control
  BY DEF IInv, QueueType
<1>2. ASSUME NEW r \in RunIds, Enqueue(r) PROVE Holds(x, j)
  BY <1>1, <1>2 DEF Enqueue, Stay, Goto, jobvars, Holds, Claimed, QueueType
<1>3. ASSUME NEW r \in RunIds, NEW outcome \in Outcomes, Leave(r, outcome) PROVE Holds(x, j)
  BY <1>1, <1>3 DEF Leave, Outcome, Goto, Holds, Claimed, QueueType, JobsType
<1>4. ASSUME NEW r \in RunIds, AutoStart(r) PROVE Holds(x, j)
  BY <1>1, <1>3, <1>4, EnterHolds DEF AutoStart, Outcomes
<1>5. ASSUME NEW r \in RunIds, InterruptAdd(r) PROVE Holds(x, j)
  <2>1. CASE InterruptCall(r) /\ Goto(r, "enter") /\ UNCHANGED item
    <3>1. step[r] = "more" /\ \A y \in RunIds : caller[y] = r => task[y] = "start"
      BY <1>1, <2>1 DEF InterruptCall, Control, Awaiting
    <3>. QED  BY <1>1, <2>1, <3>1 DEF InterruptCall, Goto, Holds, Claimed, QueueType, JobsType
  <2>. QED  BY <1>3, <1>5, <2>1 DEF InterruptAdd, Outcomes
<1>6. ASSUME NEW r \in RunIds, Select(r) PROVE Holds(x, j)
  <2>1. CASE Stay(r, "claim") /\ \E i \in Items : item' = [item EXCEPT ![r] = i]
    BY <1>1, <2>1 DEF Stay, jobvars, Goto, Holds, Claimed, QueueType
  <2>. QED  BY <1>3, <1>6, <2>1 DEF Select, Outcomes, Pending
<1>7. ASSUME NEW r \in RunIds, Claim(r) PROVE Holds(x, j) \/ (Claim(x) /\ item[x] = j /\ j \in Pending)
  <2>1. CASE item[r] \in Pending
    BY <1>1, <1>7, <2>1 DEF Claim, Stay, Goto, jobvars, Holds, QueueType
  <2>. QED  BY <1>3, <1>7, <2>1 DEF Claim, Outcomes
<1>8. ASSUME NEW r \in RunIds, Report(r) \/ Fetch(r) PROVE Holds(x, j)
  BY <1>1, <1>8 DEF Report, Fetch, Stay, jobvars, Goto, Holds, Claimed, QueueType
<1>9. ASSUME NEW r \in RunIds, Record(r) PROVE Holds(x, j)
  BY <1>1, <1>9 DEF Record, Stay, jobvars, Goto, Holds, Claimed, QueueType
<1>10. ASSUME NEW r \in RunIds, InterruptDrain(r) PROVE Holds(x, j)
  <2>1. CASE step[r] \in {"fetch", "done"} /\ Stay(r, "requeue") /\ UNCHANGED item
    BY <1>1, <2>1 DEF Stay, Goto, jobvars, Holds, Claimed, QueueType
  <2>. QED  BY <1>3, <1>10, <2>1 DEF InterruptDrain, Outcomes
<1>11. ASSUME NEW r \in RunIds, Manage(r) PROVE Holds(x, j)
  <2>1. CASE Begin(r)
    BY <1>1, <1>11, <2>1 DEF Manage, Begin, Control, Fresh, Awaiting, Holds, Claimed, QueueType, JobsType
  <2>2. CASE Finish(r) \/ InterruptFinish(r)
    BY <1>1, <1>11, <2>2 DEF Manage, Finish, InterruptFinish, Left, Outcomes, Holds, QueueType, JobsType
  <2>. QED  BY <1>11, <2>1, <2>2 DEF Manage
<1>12. ASSUME NEW n \in Jobs, Run(n) PROVE Holds(x, j)
  BY <1>1, <1>12, EnterHolds DEF Run, Call
<1>13. CASE Ended \/ Killed
  BY <1>13 DEF Ended, Killed, Gone, Holds, Claimed
<1>14. CASE Boot
  BY <1>1, <1>14 DEF Boot, Control, Asleep, Holds, Claimed
<1>15. CASE Shutdown \/ UNCHANGED vars \/ \E i \in Items : Remove(i)
  BY <1>15 DEF Shutdown, Stop, Remove, vars, jobvars, Holds
<1>. QED
  BY <1>2, <1>3, <1>4, <1>5, <1>6, <1>7, <1>8, <1>9, <1>10, <1>11, <1>12, <1>13, <1>14, <1>15
     DEF Next, Work, AddFails, Requeue, Outcomes

\* A step leaves the attempts of what is being downloaded alone, unless it
\* writes down what became of it.
LEMMA AttemptsKept ==
  ASSUME IInv, [Next]_vars, NEW x \in RunIds, NEW j \in Items, Holds(x, j), Holds(x, j)'
  PROVE  queue'[j].attempts = queue[j].attempts
<1>. USE FetchQueueAssumption
<1>1. QueueType /\ HeldRuns /\ ClaimedOnce
  BY DEF IInv, Held
<1>2. queue[j].status = "running" /\ queue \in [Items -> Entry]
  BY <1>1 DEF HeldRuns, QueueType
<1>3. ASSUME NEW i \in Items, queue[i].status = "absent", Queued(i) PROVE queue'[j] = queue[j]
  BY <1>2, <1>3 DEF Queued
<1>4. ASSUME NEW i, NEW status, Write(i, status) PROVE queue'[j].attempts = queue[j].attempts
  BY <1>2, <1>4 DEF Write, Entry
<1>5. ASSUME NEW r \in RunIds, task[r] = "work", step[r] \in {"done", "retry", "fail"}, Recorded(r),
             \A i \in Items : ~Holds(r, i)'
      PROVE  queue'[j] = queue[j]
  <2>1. item[r] \in Items /\ Holds(r, item[r])
    BY <1>1, <1>5 DEF QueueType, Holds, Claimed
  <2>2. j # item[r]
    BY <1>1, <1>5, <2>1 DEF ClaimedOnce
  <2>. QED  BY <1>1, <1>5, <2>1, <2>2, RecordedItem
<1>6. ASSUME NEW r \in RunIds, Enqueue(r) \/ AddFails(r) \/ AutoStart(r) \/ InterruptAdd(r)
      PROVE  queue'[j] = queue[j]
  BY <1>3, <1>6 DEF Enqueue, AddFails, AutoStart, InterruptAdd, Untouched
<1>7. ASSUME NEW r \in RunIds, Record(r) PROVE queue'[j] = queue[j]
  <2>1. \A i \in Items : ~Holds(r, i)'
    BY <1>1, <1>7 DEF Record, Stay, Goto, Holds, Claimed, QueueType
  <2>. QED  BY <1>5, <1>7, <2>1 DEF Record, Works
<1>8. ASSUME NEW r \in RunIds, InterruptDrain(r) PROVE queue'[j].attempts = queue[j].attempts
  <2>1. ASSUME Leave(r, "cancelled") PROVE \A i \in Items : ~Holds(r, i)'
    BY <1>1, <2>1 DEF Leave, Goto, Holds, Claimed, QueueType
  <2>. QED  BY <1>4, <1>5, <1>8, <2>1 DEF InterruptDrain
<1>9. ASSUME NEW r \in RunIds, Select(r) \/ Claim(r) \/ Report(r) \/ Fetch(r) \/ Manage(r) \/ Requeue(r)
      PROVE  queue'[j].attempts = queue[j].attempts
  BY <1>4, <1>9 DEF Select, Claim, Report, Fetch, Manage, Requeue, Untouched
<1>10. CASE Boot
  BY <1>2, <1>10 DEF Boot, Reset, Entry
<1>11. CASE \E i \in Items : Remove(i)
  BY <1>4, <1>11 DEF Remove
<1>12. CASE Shutdown \/ Ended \/ Killed \/ UNCHANGED vars \/ \E n \in Jobs : Run(n)
  BY <1>12 DEF Shutdown, Ended, Killed, Gone, Run, vars
<1>. QED  BY <1>6, <1>7, <1>8, <1>9, <1>10, <1>11, <1>12 DEF Next, Work

\* Which claims are counted.
LEMMA StaleStep ==
  ASSUME IInv, [Next]_vars, NEW j \in Items
  PROVE  \/ stale'[j] = stale[j]
         \/ \E r \in RunIds : Claim(r) /\ item[r] = j /\ j \in Pending /\ stale'[j] = stale[j] + 1
<1>1. QueueType /\ CountsType
  BY DEF IInv
<1>2. ASSUME NEW r \in RunIds, Claim(r)
      PROVE  stale'[j] = stale[j] \/ (item[r] = j /\ j \in Pending /\ stale'[j] = stale[j] + 1)
  BY <1>1, <1>2 DEF Claim, CountsType, Pending
<1>3. ASSUME NEW r \in RunIds, Select(r) PROVE stale'[j] = stale[j]
  BY <1>3 DEF Select
<1>4. CASE UNCHANGED counts
  BY <1>4 DEF counts
<1>. QED  BY <1>2, <1>3, <1>4 DEF Next, Work, Manage, Run, Remove, Shutdown, Ended, Killed, Gone, Boot, vars, counts

LEMMA ReadStep ==
  ASSUME IInv, [Next]_vars
  PROVE  ReadTrue'
<1>. SUFFICES ASSUME NEW x \in RunIds, NEW j \in Items, Holds(x, j)'
              PROVE  read'[x] = queue'[j].attempts \/ queue'[j].attempts + 1 < MaxAttempts + stale'[j]
  BY DEF ReadTrue
<1>1. /\ QueueType /\ CountsType /\ HeldRuns /\ Counted /\ ReadTrue
      /\ queue[j].attempts \in Nat /\ stale[j] \in Nat /\ MaxAttempts \in Nat
  BY FetchQueueAssumption DEF IInv, Held, QueueType, CountsType, Entry
<1>2. CASE Holds(x, j)
  <2>1. queue'[j].attempts = queue[j].attempts
    BY <1>2, AttemptsKept
  <2>2. queue[j].status = "running" /\ step[x] # "claim" /\ step[x] \notin {"enter", "rest"}
    BY <1>1, <1>2 DEF HeldRuns, Holds, Claimed
  <2>3. stale'[j] = stale[j]
    BY <2>2, StaleStep DEF Pending
  <2>4. read'[x] = read[x]
    <3>1. ASSUME NEW r \in RunIds, Select(r) PROVE read'[x] = read[x]
      BY <1>1, <2>2, <3>1 DEF Select, CountsType
    <3>2. ASSUME NEW r \in RunIds, Claim(r) PROVE read'[x] = read[x]
      BY <3>2 DEF Claim
    <3>3. CASE UNCHANGED counts
      BY <3>3 DEF counts
    <3>. QED  BY <3>1, <3>2, <3>3 DEF Next, Work, Manage, Run, Remove, Shutdown, Ended, Killed, Gone, Boot, vars, counts
  <2>. QED  BY <1>1, <1>2, <2>1, <2>3, <2>4 DEF ReadTrue
<1>3. CASE Claim(x) /\ item[x] = j /\ j \in Pending
  <2>1. queue'[j].attempts = queue[j].attempts /\ read'[x] = read[x]
    BY <1>1, <1>3 DEF Claim, Write, QueueType, Entry
  <2>2. stale'[j] = IF read[x] = queue[j].attempts THEN stale[j] ELSE stale[j] + 1
    BY <1>1, <1>3 DEF Claim, CountsType
  <2>3. queue[j].attempts < MaxAttempts + stale[j]
    BY <1>1, <1>3 DEF Counted, Pending
  <2>. QED  BY <1>1, <2>1, <2>2, <2>3
<1>. QED  BY <1>2, <1>3, HoldsStep

\* Of the item a drain has in hand at least one attempt is left to make.
LEMMA RecordedCounted ==
  ASSUME QueueType, CountsType, HeldRuns, Counted, ReadTrue, NEW r \in RunIds, task[r] = "work",
         step[r] \in {"done", "retry", "fail"}, Recorded(r), UNCHANGED stale
  PROVE  Counted'
<1>. DEFINE i == item[r]
            limit == MaxAttempts + stale[i]
<1>1. i \in Items /\ queue \in [Items -> Entry] /\ MaxAttempts \in Nat
  BY FetchQueueAssumption DEF QueueType, Claimed
<1>2. queue[i].attempts \in Nat /\ queue[i].attempts < limit /\ limit \in Nat /\ stale[i] \in Nat
  BY <1>1 DEF HeldRuns, Holds, Claimed, Counted, Entry, CountsType
<1>3. /\ queue'[i].attempts <= limit
      /\ queue'[i].status \in {"pending", "running"} => queue'[i].attempts < limit
  <2>1. CASE step[r] \in {"done", "fail"}
    <3>1. \/ queue' = [queue EXCEPT ![i].status = "done"]
          \/ queue' = [queue EXCEPT ![i].status = "failed"]
      BY <2>1 DEF Recorded, Write
    <3>2. queue'[i].attempts = queue[i].attempts /\ queue'[i].status \in {"done", "failed"}
      BY <1>1, <3>1 DEF Entry
    <3>. QED  BY <1>1, <1>2, <3>2
  <2>2. CASE step[r] = "retry" /\ MayRetry(r)
    <3>1. queue'[i].attempts = queue[i].attempts + 1
      BY <1>1, <2>2 DEF Recorded, ToTheBack, Entry
    <3>2. read[r] = queue[i].attempts \/ queue[i].attempts + 1 < limit
      BY <1>1, <2>2 DEF ReadTrue, Holds, Claimed
    <3>3. queue[i].attempts + 1 < limit
      BY <1>1, <1>2, <2>2, <3>2 DEF MayRetry
    <3>. QED  BY <1>2, <3>1, <3>3
  <2>3. CASE step[r] = "retry" /\ ~MayRetry(r)
    <3>1. queue' = [queue EXCEPT ![i].status = "failed", ![i].attempts = @ + 1]
      BY <2>3 DEF Recorded
    <3>2. queue'[i].attempts = queue[i].attempts + 1 /\ queue'[i].status = "failed"
      BY <1>1, <3>1 DEF Entry
    <3>. QED  BY <1>1, <1>2, <3>2
  <2>. QED  BY <2>1, <2>2, <2>3
<1>4. \A j \in Items \ {i} : queue'[j] = queue[j]
  BY <1>1, RecordedItem
<1>. QED  BY <1>3, <1>4 DEF Counted

LEMMA CountedStep ==
  ASSUME IInv, [Next]_vars
  PROVE  Counted'
<1>. USE FetchQueueAssumption
<1>1. QueueType /\ CountsType /\ HeldRuns /\ Counted /\ ReadTrue
  BY DEF IInv, Held
<1>2. \A i \in Items : /\ stale[i] \in Nat /\ queue[i].attempts \in Nat /\ MaxAttempts \in Nat
                       /\ stale'[i] \in {stale[i], stale[i] + 1}
  BY <1>1, StaleStep DEF QueueType, CountsType, Entry
<1>3. CASE UNCHANGED queue
  BY <1>1, <1>2, <1>3 DEF Counted
<1>4. ASSUME NEW i \in Items, Queued(i) PROVE Counted'
  <2>1. queue'[i].attempts = 0 /\ \A j \in Items \ {i} : queue'[j] = queue[j]
    BY <1>1, <1>4 DEF Queued, QueueType
  <2>. QED  BY <1>1, <1>2, <2>1 DEF Counted
<1>5. ASSUME NEW i \in Items, NEW status \in Statuses, Write(i, status),
             status \in {"pending", "running"} => queue[i].status \in {"pending", "running"}
      PROVE  Counted'
  <2>1. \A j \in Items : /\ queue'[j].attempts = queue[j].attempts
                         /\ queue'[j].status \in {"pending", "running"} => queue[j].status \in {"pending", "running"}
    BY <1>1, <1>5 DEF Write, QueueType, Entry
  <2>. QED  BY <1>1, <1>2, <2>1 DEF Counted
<1>6. ASSUME NEW r \in RunIds, Enqueue(r) \/ AddFails(r) \/ AutoStart(r) \/ InterruptAdd(r) PROVE Counted'
  BY <1>3, <1>4, <1>6 DEF Enqueue, AddFails, AutoStart, InterruptAdd, Untouched
<1>7. ASSUME NEW r \in RunIds, Claim(r) PROVE Counted'
  BY <1>3, <1>5, <1>7 DEF Claim, Pending, Statuses
<1>8. ASSUME NEW r \in RunIds, Record(r), UNCHANGED stale PROVE Counted'
  BY <1>1, <1>8, RecordedCounted DEF Record, Works
<1>9. ASSUME NEW r \in RunIds, InterruptDrain(r), UNCHANGED stale PROVE Counted'
  BY <1>1, <1>3, <1>5, <1>9, RecordedCounted DEF InterruptDrain, Pending, Statuses
<1>10. ASSUME NEW r \in RunIds, Requeue(r) PROVE Counted'
  <2>1. item[r] \in Items /\ queue[item[r]].status = "running"
    BY <1>1, <1>10 DEF Requeue, QueueType, HeldRuns, Holds, Claimed
  <2>. QED  BY <1>5, <1>10, <2>1 DEF Requeue, Statuses
<1>11. ASSUME NEW r \in RunIds, Select(r) \/ Report(r) \/ Fetch(r) \/ Manage(r) PROVE Counted'
  BY <1>3, <1>11 DEF Select, Report, Fetch, Manage, Untouched
<1>12. ASSUME NEW i \in Items, Remove(i) PROVE Counted'
  BY <1>5, <1>12 DEF Remove, Statuses
<1>13. CASE Boot
  <2>1. \A j \in Items : /\ queue'[j].attempts = queue[j].attempts
                         /\ queue'[j].status \in {"pending", "running"} => queue[j].status \in {"pending", "running"}
    BY <1>1, <1>13 DEF Boot, Reset, QueueType, Entry
  <2>. QED  BY <1>1, <1>2, <2>1 DEF Counted
<1>14. CASE Shutdown \/ Ended \/ Killed \/ UNCHANGED vars \/ \E n \in Jobs : Run(n)
  BY <1>3, <1>14 DEF Shutdown, Ended, Killed, Gone, Run, vars
<1>. QED
  BY <1>6, <1>7, <1>8, <1>9, <1>10, <1>11, <1>12, <1>13, <1>14 DEF Next, Work, counts

-----------------------------------------------------------------------------
THEOREM Invariance == Spec => []IInv
<1>1. Init => IInv
  BY InitIInv
<1>2. IInv /\ [Next]_vars => IInv'
  BY TypeStep, CountsStep, ControlStep, HeldStep, CountedStep, ReadStep DEF IInv
<1>. QED  BY <1>1, <1>2, PTL DEF Spec

\* The state of the jobs, of their runs and of the table keeps its types, and a
\* drain past its SELECT has an item in hand (jobs/manager.py, _fetch_queue.py).
THEOREM FetchTypeCorrect == Spec => []TypeOK
<1>1. IInv => TypeOK
  BY DEF IInv, TypeOK
<1>. QED  BY <1>1, Invariance, PTL

\* However many drains run() lets start, claim_next_fetch_item gives an item to
\* one of them only, and no requeue, reset or cancellation gives it to a second.
THEOREM ClaimedOnceCorrect == Spec => []ClaimedOnce
<1>1. IInv => ClaimedOnce
  BY DEF IInv, Held
<1>. QED  BY <1>1, Invariance, PTL

\* While the service is up no item is left running that nobody downloads,
\* wherever it was stopped or killed before.
THEOREM NothingStrandedCorrect == Spec => []NothingStranded
<1>1. IInv => NothingStranded
  BY DEF IInv, Held
<1>. QED  BY <1>1, Invariance, PTL

\* No item is tried more often than MAX_FETCH_UPLOAD_ATTEMPTS allows, plus once
\* for each claim made on a count that another drain had made old, over any
\* number of drains and restarts (fetch_queue_drain_job).
THEOREM AttemptsBoundedCorrect == Spec => []AttemptsBounded
<1>1. IInv => AttemptsBounded
  BY FetchQueueAssumption DEF IInv, Counted, AttemptsBounded
<1>. QED  BY <1>1, Invariance, PTL

-----------------------------------------------------------------------------
(***************************************************************************)
(* The history.  A run has a coroutine as long as there are no more runs   *)
(* than RunIds, which needs a count: a request starts one run, the job     *)
(* "add" that it starts one more (Spent: those that have), each start of   *)
(* the service another.                                                    *)
(***************************************************************************)
AddsFirst == \A r \in DOMAIN rows : Job(r) = "add" => r <= MaxCalls

Spent == {c \in 1 .. MaxCalls : /\ c \in DOMAIN rows /\ Job(c) = "add"
                                /\ Calling(c) \/ task[c] \notin {"start", "work"}}

Numbered == Len(rows) <= MaxCalls + Cardinality(Spent) + boots

HistoryInv == AddsFirst /\ Numbered /\ HistoryTrue

\* What a step does to the runs.
Ends(r) == \E outcome \in Outcomes : Leave(r, outcome)

LEMMA JobSteps ==
  ASSUME [Next]_vars
  PROVE  \/ UNCHANGED jobvars \/ Stop \/ Down \/ Boot
         \/ \E n \in Jobs : Call(n)
         \/ \E r \in RunIds : \/ Works(r, "add") /\ ~Calling(r) /\ Enter("drain", r)
                              \/ Ends(r) \/ Begin(r) \/ Finish(r) \/ InterruptFinish(r) \/ InterruptCall(r)
<1>1. ASSUME NEW r \in RunIds, Work(r)
      PROVE  \/ UNCHANGED jobvars \/ Ends(r) \/ InterruptCall(r)
             \/ Works(r, "add") /\ ~Calling(r) /\ Enter("drain", r)
  BY <1>1 DEF Work, Enqueue, AddFails, AutoStart, InterruptAdd, Select, Claim, Report, Fetch, Record,
              InterruptDrain, Requeue, Stay, Ends, Outcomes
<1>2. CASE \E i \in Items : Remove(i)
  BY <1>2 DEF Remove
<1>. QED  BY <1>1, <1>2 DEF Next, vars, Manage, Run, Shutdown, Ended, Close, Killed, Crash

LEMMA RunsListed ==
  ASSUME QueueType
  PROVE  /\ DOMAIN rows = 1 .. Len(rows) /\ Len(rows) \in Nat /\ boots \in Nat
         /\ 1 .. MaxCalls \subseteq RunIds /\ MaxCalls \in Nat
         /\ task \in [RunIds -> {"none", "start", "work", "ended"} \cup Outcomes]
         /\ caller \in [RunIds -> RunIds \cup {NoRun}]
<1>1. MaxCalls \in Nat /\ MaxBoots \in Nat
  BY JobManagerAssumption
<1>2. 1 .. MaxCalls \subseteq RunIds
  BY <1>1 DEF RunIds
<1>. QED  BY <1>1, <1>2 DEF QueueType, JobsType

LEMMA FewCalls ==
  ASSUME NEW S, S \subseteq 1 .. MaxCalls
  PROVE  IsFiniteSet(S) /\ Cardinality(S) \in Nat /\ Cardinality(S) <= MaxCalls
<1>1. MaxCalls \in Nat
  BY JobManagerAssumption
<1>2. IsFiniteSet(1 .. MaxCalls) /\ Cardinality(1 .. MaxCalls) = MaxCalls
  BY <1>1, FS_Interval
<1>. QED  BY <1>1, <1>2, FS_Subset, FS_CardinalityType

\* What is spent stays so.
LEMMA SpentStays ==
  ASSUME QueueType, QueueType', DOMAIN rows \subseteq DOMAIN rows',
         \A c \in DOMAIN rows : rows'[c].job = rows[c].job,
         \A c \in DOMAIN rows \cap 1 .. MaxCalls :
           /\ task[c] \notin {"start", "work"} => task'[c] \notin {"start", "work"}
           /\ Calling(c) => Calling(c)' \/ task'[c] \notin {"start", "work"}
  PROVE  Spent \subseteq Spent'
BY DEF Spent, Job

LEMMA NumberedStill ==
  ASSUME QueueType, QueueType', HistoryInv, Spent \subseteq Spent', boots' = boots, Len(rows') = Len(rows)
  PROVE  Numbered'
<1>1. Spent \subseteq 1 .. MaxCalls /\ Spent' \subseteq 1 .. MaxCalls
  BY DEF Spent
<1>2. IsFiniteSet(Spent') /\ Cardinality(Spent') \in Nat /\ Cardinality(Spent) \in Nat
  BY <1>1, FewCalls
<1>3. Cardinality(Spent) <= Cardinality(Spent')
  BY <1>2, FS_Subset
<1>. QED  BY <1>2, <1>3, RunsListed, JobManagerAssumption DEF HistoryInv, Numbered

\* There is room for one more row where the next is numbered.
LEMMA RoomForOne ==
  ASSUME QueueType, HistoryInv, NEW c, c \in 1 .. MaxCalls, c \notin Spent
  PROVE  Len(rows) + 1 \in RunIds
<1>1. Spent \subseteq 1 .. MaxCalls /\ Spent \cup {c} \subseteq 1 .. MaxCalls
  BY DEF Spent
<1>2. IsFiniteSet(Spent) /\ Cardinality(Spent) \in Nat /\ Cardinality(Spent \cup {c}) <= MaxCalls
  BY <1>1, FewCalls
<1>3. Cardinality(Spent \cup {c}) = Cardinality(Spent) + 1
  BY <1>2, FS_AddElement
<1>4. MaxCalls \in Nat /\ MaxBoots \in Nat /\ boots \in 0 .. MaxBoots /\ Len(rows) \in Nat
  BY JobManagerAssumption, RunsListed DEF QueueType, JobsType
<1>5. Len(rows) + 1 <= 2 * MaxCalls + MaxBoots
  BY <1>2, <1>3, <1>4 DEF HistoryInv, Numbered
<1>. QED  BY <1>4, <1>5 DEF RunIds

\* Every run has its number.
LEMMA AllListed ==
  ASSUME QueueType, HistoryInv
  PROVE  /\ DOMAIN rows \subseteq RunIds
         /\ boots < MaxBoots => Len(rows) + 1 \in RunIds
<1>1. Spent \subseteq 1 .. MaxCalls
  BY DEF Spent
<1>2. Cardinality(Spent) \in Nat /\ Cardinality(Spent) <= MaxCalls
  BY <1>1, FewCalls
<1>3. /\ MaxCalls \in Nat /\ MaxBoots \in Nat /\ boots \in 0 .. MaxBoots /\ Len(rows) \in Nat
      /\ DOMAIN rows = 1 .. Len(rows)
  BY JobManagerAssumption, RunsListed DEF QueueType, JobsType
<1>4. Len(rows) <= 2 * MaxCalls + boots
  BY <1>2, <1>3 DEF HistoryInv, Numbered
<1>. QED  BY <1>3, <1>4 DEF RunIds

LEMMA RowsTyped ==
  ASSUME QueueType
  PROVE  \A c \in DOMAIN rows : rows[c] \in [job : Jobs, status : {"running", "interrupted"} \cup Outcomes]
<1>. DEFINE Row == [job : Jobs, status : {"running", "interrupted"} \cup Outcomes]
<1>1. rows \in Seq(Row)
  BY DEF QueueType, JobsType
<1>. HIDE DEF Row
<1>2. \A c \in DOMAIN rows : rows[c] \in Row
  BY <1>1
<1>. QED  BY <1>2 DEF Row

\* A run's status is written, and no more of the table.
LEMMA StatusOnly ==
  ASSUME QueueType, QueueType', NEW r, NEW status, rows' = [rows EXCEPT ![r].status = status]
  PROVE  /\ Len(rows') = Len(rows) /\ DOMAIN rows' = DOMAIN rows
         /\ \A c \in DOMAIN rows : rows'[c].job = rows[c].job
         /\ \A c \in DOMAIN rows \ {r} : rows'[c] = rows[c]
         /\ r \in DOMAIN rows => rows'[r].status = status
<1>1. DOMAIN rows' = DOMAIN rows
  OBVIOUS
<1>2. /\ rows \in Seq([job : Jobs, status : {"running", "interrupted"} \cup Outcomes])
      /\ rows' \in Seq([job : Jobs, status : {"running", "interrupted"} \cup Outcomes])
  BY DEF QueueType, JobsType
<1>3. Len(rows') = Len(rows)
  BY <1>1, <1>2
<1>4. \A c \in DOMAIN rows : rows[c] \in [job : Jobs, status : {"running", "interrupted"} \cup Outcomes]
  BY RowsTyped
<1>. QED  BY <1>1, <1>3, <1>4

\* One row more at the end.
LEMMA OneMore ==
  ASSUME QueueType, NEW list, NEW row,
         list \in Seq([job : Jobs, status : {"running", "interrupted"} \cup Outcomes]),
         Len(list) = Len(rows), rows' = Append(list, row)
  PROVE  /\ Len(rows') = Len(rows) + 1 /\ DOMAIN rows' = DOMAIN rows \cup {Len(rows) + 1}
         /\ Len(rows) + 1 \notin DOMAIN rows
         /\ rows'[Len(rows) + 1] = row /\ \A c \in DOMAIN rows : rows'[c] = list[c]
<1>1. Len(rows) \in Nat /\ DOMAIN rows = 1 .. Len(rows)
  BY RunsListed
<1>. QED  BY <1>1

LEMMA HistoryStep == IInv /\ IInv' /\ HistoryInv /\ [Next]_vars => HistoryInv'
<1>. SUFFICES ASSUME IInv, IInv', HistoryInv, [Next]_vars PROVE HistoryInv'
  OBVIOUS
<1>0. QueueType /\ QueueType' /\ Control /\ AddsFirst /\ Numbered /\ HistoryTrue
  BY DEF IInv, HistoryInv
<1>l. /\ DOMAIN rows = 1 .. Len(rows) /\ Len(rows) \in Nat /\ boots \in Nat
      /\ 1 .. MaxCalls \subseteq RunIds /\ MaxCalls \in Nat
      /\ task \in [RunIds -> {"none", "start", "work", "ended"} \cup Outcomes]
      /\ caller \in [RunIds -> RunIds \cup {NoRun}]
  BY <1>0, RunsListed
<1>d. DOMAIN rows \subseteq RunIds /\ (boots < MaxBoots => Len(rows) + 1 \in RunIds)
  BY <1>0, AllListed
<1>u. \A r \in RunIds : task[r] # "none" => r \in DOMAIN rows
  BY <1>0, <1>l DEF Control, Unborn, RunIds
<1>m. {"start", "work", "ended", "none"} \cap Outcomes = {} /\ "running" \notin Outcomes
  BY DEF Outcomes
<1>1. CASE UNCHANGED jobvars \/ Stop
  <2>1. UNCHANGED <<boots, rows, task, caller>> /\ (service' = "up" => service = "up")
    BY <1>1 DEF jobvars, Stop
  <2>2. Spent' = Spent
    BY <2>1 DEF Spent, Job, Calling
  <2>. QED  BY <1>0, <2>1, <2>2 DEF HistoryInv, AddsFirst, Job, Numbered, HistoryTrue
<1>2. CASE Down
  <2>1. UNCHANGED <<boots, rows>> /\ service' = "down" /\ task' = [r \in RunIds |-> IF task[r] = "none" THEN "none" ELSE "ended"]
    BY <1>2 DEF Down
  <2>2. Spent \subseteq Spent'
    BY <1>0, <1>l, <2>1, SpentStays
  <2>3. Numbered'
    BY <1>0, <2>1, <2>2, NumberedStill
  <2>. QED  BY <1>0, <2>1, <2>3 DEF HistoryInv, AddsFirst, Job, HistoryTrue
<1>3. ASSUME NEW r \in RunIds, Ends(r) PROVE HistoryInv'
  <2>1. PICK o \in Outcomes : Leave(r, o)
    BY <1>3 DEF Ends
  <2>2. UNCHANGED <<service, boots, rows, caller>> /\ task' = [task EXCEPT ![r] = o]
    BY <2>1 DEF Leave, Outcome
  <2>3. Spent \subseteq Spent'
    BY <1>0, <1>l, <1>m, <2>2, SpentStays DEF Calling
  <2>4. Numbered'
    BY <1>0, <2>2, <2>3, NumberedStill
  <2>5. HistoryTrue'
    BY <1>0, <1>l, <1>m, <2>2 DEF HistoryTrue
  <2>. QED  BY <1>0, <2>2, <2>4, <2>5 DEF HistoryInv, AddsFirst, Job
<1>4. ASSUME NEW r \in RunIds, Begin(r) PROVE HistoryInv'
  <2>1. /\ UNCHANGED <<service, boots, rows>> /\ task[r] = "start"
        /\ task' = [x \in RunIds |-> IF x = r THEN "work" ELSE IF x = caller[r] THEN "completed" ELSE task[x]]
        /\ caller' = [caller EXCEPT ![r] = NoRun]
    BY <1>4 DEF Begin
  <2>2. \A c \in RunIds : task[c] \notin {"start", "work"} => task'[c] \notin {"start", "work"}
    BY <1>l, <2>1
  <2>3. ASSUME NEW c \in RunIds, Calling(c) PROVE Calling(c)' \/ task'[c] \notin {"start", "work"}
    <3>1. PICK x \in RunIds : caller[x] = c
      BY <2>3 DEF Calling
    <3>2. CASE x = r
      <4>1. c # r
        BY <1>0, <2>1, <3>1, <3>2 DEF Control, Awaiting, Fresh, QueueType, Steps
      <4>. QED  BY <2>1, <3>1, <3>2, <4>1
    <3>3. CASE x # r
      BY <1>l, <2>1, <3>1, <3>3 DEF Calling
    <3>. QED  BY <3>2, <3>3
  <2>4. Spent \subseteq Spent'
    BY <1>0, <1>l, <2>1, <2>2, <2>3, SpentStays
  <2>5. Numbered'
    BY <1>0, <2>1, <2>4, NumberedStill
  <2>6. \A x \in DOMAIN rows : task'[x] = "ended" => task[x] = "ended"
    BY <1>d, <2>1
  <2>7. HistoryTrue'
    BY <1>0, <2>1, <2>6 DEF HistoryTrue
  <2>. QED  BY <1>0, <2>1, <2>5, <2>7 DEF HistoryInv, AddsFirst, Job
<1>5. ASSUME NEW r \in RunIds, NEW status \in Outcomes, UNCHANGED <<service, boots, caller>>,
             rows' = [rows EXCEPT ![r].status = status], task[r] \in Outcomes,
             task' = [task EXCEPT ![r] = "ended"]
      PROVE HistoryInv'
  <2>1. /\ Len(rows') = Len(rows) /\ DOMAIN rows' = DOMAIN rows
        /\ \A c \in DOMAIN rows : rows'[c].job = rows[c].job
        /\ \A c \in DOMAIN rows \ {r} : rows'[c] = rows[c]
        /\ r \in DOMAIN rows => rows'[r].status = status
    BY <1>0, <1>5, StatusOnly
  <2>2. Spent \subseteq Spent'
    BY <1>0, <1>l, <1>5, <2>1, SpentStays DEF Calling
  <2>3. Numbered'
    BY <1>0, <1>5, <2>1, <2>2, NumberedStill
  <2>4. AddsFirst'
    BY <1>0, <2>1 DEF AddsFirst, Job
  <2>5. HistoryTrue'
    BY <1>0, <1>l, <1>d, <1>m, <1>5, <2>1 DEF HistoryTrue
  <2>. QED  BY <2>3, <2>4, <2>5 DEF HistoryInv
<1>6. ASSUME NEW r \in RunIds, Finish(r) PROVE HistoryInv'
  BY <1>5, <1>6 DEF Finish, Left
<1>7. ASSUME NEW r \in RunIds, InterruptFinish(r) PROVE HistoryInv'
  <2>1. service' # "up" /\ UNCHANGED <<service, boots, caller>>
    BY <1>0, <1>7 DEF InterruptFinish, Control, Calm
  <2>2. CASE rows' = rows
    <3>1. \A c \in RunIds : task[c] \notin {"start", "work"} => task'[c] \notin {"start", "work"}
      BY <1>l, <1>7 DEF InterruptFinish, Left
    <3>2. Spent \subseteq Spent'
      BY <1>0, <1>l, <2>1, <2>2, <3>1, SpentStays DEF Calling
    <3>3. Numbered'
      BY <1>0, <2>1, <2>2, <3>2, NumberedStill
    <3>. QED  BY <1>0, <2>1, <2>2, <3>3 DEF HistoryInv, AddsFirst, Job, HistoryTrue
  <2>3. CASE task[r] = "failed" /\ Left(r) /\ rows' = [rows EXCEPT ![r].status = "failed"]
    BY <1>5, <2>1, <2>3 DEF Left, Outcomes
  <2>. QED  BY <1>7, <2>2, <2>3 DEF InterruptFinish
<1>8. ASSUME NEW r \in RunIds, InterruptCall(r) PROVE HistoryInv'
  <2>1. /\ service' # "up" /\ UNCHANGED <<service, boots, rows>> /\ task[r] = "work"
        /\ task' = [x \in RunIds |-> IF x = r THEN "cancelled" ELSE IF caller[x] = r THEN "ended" ELSE task[x]]
        /\ caller' = [x \in RunIds |-> IF caller[x] = r THEN NoRun ELSE caller[x]]
    BY <1>0, <1>8 DEF InterruptCall, Control, Calm
  <2>2. \A c \in RunIds : task[c] \notin {"start", "work"} => task'[c] \notin {"start", "work"}
    BY <1>l, <2>1
  <2>3. \A c \in RunIds : Calling(c) => Calling(c)' \/ task'[c] \notin {"start", "work"}
    BY <1>l, <2>1 DEF Calling
  <2>4. Spent \subseteq Spent'
    BY <1>0, <1>l, <2>1, <2>2, <2>3, SpentStays
  <2>5. Numbered'
    BY <1>0, <2>1, <2>4, NumberedStill
  <2>. QED  BY <1>0, <2>1, <2>5 DEF HistoryInv, AddsFirst, Job, HistoryTrue
<1>9. ASSUME NEW n \in Jobs, NEW by \in RunIds \cup {NoRun}, Enter(n, by), Len(rows) + 1 \in RunIds,
             n = "add" => Len(rows) + 1 <= MaxCalls
      PROVE  Spent \subseteq Spent' /\ AddsFirst' /\ HistoryTrue' /\ Len(rows') = Len(rows) + 1
  <2>. DEFINE new == Len(rows) + 1
              row == [job |-> n, status |-> "running"]
  <2>1. /\ rows' = Append(rows, row) /\ UNCHANGED <<service, boots>>
        /\ task' = [task EXCEPT ![new] = "start"] /\ caller' = [caller EXCEPT ![new] = by]
    BY <1>9 DEF Enter
  <2>2. /\ Len(rows') = Len(rows) + 1 /\ DOMAIN rows' = DOMAIN rows \cup {new} /\ new \notin DOMAIN rows
        /\ rows'[new] = row /\ \A c \in DOMAIN rows : rows'[c] = rows[c]
    BY <1>0, <2>1, OneMore DEF QueueType, JobsType
  <2>3. row.job = n /\ row.status = "running" /\ new \in RunIds
    BY <1>9
  <2>. HIDE DEF new, row
  <2>4. \A c \in RunIds \ {new} : task'[c] = task[c]
    BY <1>l, <2>1
  <2>5. \A c \in RunIds : caller[c] # NoRun => c # new
    <3>1. task[new] = "none"
      BY <1>u, <2>2, <2>3
    <3>. QED  BY <1>0, <1>l, <3>1 DEF Control, Awaiting
  <2>6. \A c \in RunIds : Calling(c) => Calling(c)'
    <3>1. NoRun \notin RunIds
      BY JobManagerAssumption
    <3>. QED  BY <1>l, <2>1, <2>5, <3>1 DEF Calling
  <2>7. \A c \in DOMAIN rows \cap 1 .. MaxCalls : task'[c] = task[c] /\ c \in RunIds
    BY <1>l, <2>2, <2>4
  <2>8. Spent \subseteq Spent'
    BY <1>0, <2>2, <2>6, <2>7, SpentStays
  <2>9. AddsFirst'
    BY <1>0, <1>9, <2>2, <2>3 DEF AddsFirst, Job, new
  <2>10. task'[new] = "start"
    BY <1>l, <2>1, <2>3
  <2>11. HistoryTrue'
    BY <1>0, <1>d, <2>1, <2>2, <2>4, <2>10 DEF HistoryTrue
  <2>. QED  BY <2>2, <2>8, <2>9, <2>11 DEF new
<1>10. ASSUME NEW n \in Jobs, Call(n) PROVE HistoryInv'
  <2>1. Enter(n, NoRun) /\ Len(rows) + 1 <= MaxCalls /\ boots' = boots
    BY <1>l, <1>10 DEF Call, Enter
  <2>2. Len(rows) + 1 \in RunIds
    BY <1>l, <2>1, JobManagerAssumption DEF RunIds
  <2>3. Len(rows') = Len(rows) + 1 /\ AddsFirst' /\ HistoryTrue'
    BY <1>9, <2>1, <2>2
  <2>4. Spent' \subseteq 1 .. MaxCalls
    BY DEF Spent
  <2>5. Cardinality(Spent') \in Nat
    BY <2>4, FewCalls
  <2>6. Numbered'
    BY <1>l, <2>1, <2>3, <2>5 DEF Numbered
  <2>. QED  BY <2>3, <2>6 DEF HistoryInv
<1>11. ASSUME NEW r \in RunIds, Works(r, "add"), ~Calling(r), Enter("drain", r) PROVE HistoryInv'
  <2>1. task[r] = "work" /\ r \in DOMAIN rows /\ Job(r) = "add" /\ boots' = boots
    BY <1>u, <1>11 DEF Works, Enter
  <2>2. r \in 1 .. MaxCalls /\ r \notin Spent
    BY <1>0, <1>l, <1>11, <2>1 DEF AddsFirst, Spent
  <2>3. Len(rows) + 1 \in RunIds
    BY <1>0, <2>2, RoomForOne DEF HistoryInv
  <2>4. Len(rows') = Len(rows) + 1 /\ AddsFirst' /\ HistoryTrue' /\ Spent \subseteq Spent'
    BY <1>9, <1>11, <2>3, FetchQueueAssumption
  <2>5. r \in Spent'
    <3>1. caller'[Len(rows) + 1] = r
      BY <1>l, <1>11, <2>3 DEF Enter
    <3>2. Calling(r)'
      BY <2>3, <3>1 DEF Calling
    <3>3. r \in DOMAIN rows' /\ rows'[r].job = "add"
      BY <1>0, <1>11, <2>1, OneMore DEF Enter, QueueType, JobsType, Job
    <3>. QED  BY <2>2, <3>2, <3>3 DEF Spent, Job
  <2>6. Spent' \subseteq 1 .. MaxCalls /\ Spent \subseteq 1 .. MaxCalls
    BY DEF Spent
  <2>7. IsFiniteSet(Spent') /\ IsFiniteSet(Spent) /\ Cardinality(Spent') \in Nat /\ Cardinality(Spent) \in Nat
    BY <2>6, FewCalls
  <2>8. Cardinality(Spent \cup {r}) = Cardinality(Spent) + 1
    BY <2>2, <2>7, FS_AddElement
  <2>9. Cardinality(Spent \cup {r}) <= Cardinality(Spent')
    BY <2>4, <2>5, <2>7, FS_Subset
  <2>10. Numbered'
    BY <1>0, <1>l, <2>1, <2>4, <2>7, <2>8, <2>9 DEF Numbered
  <2>. QED  BY <2>4, <2>10 DEF HistoryInv
<1>12. CASE Boot
  <2>. DEFINE new == Len(rows) + 1
              row == [job |-> "drain", status |-> "running"]
  <2>1. /\ boots' = boots + 1 /\ caller' = caller /\ service = "down"
        /\ \/ rows' = Append(Reconciled, row) /\ task' = [task EXCEPT ![new] = "work"]
           \/ rows' = Reconciled /\ task' = task
    BY <1>12 DEF Boot
  <2>2. new \in RunIds
    BY <1>0, <1>d, <2>1 DEF Control, Calm
  <2>3. /\ Reconciled \in Seq([job : Jobs, status : {"running", "interrupted"} \cup Outcomes])
        /\ DOMAIN Reconciled = DOMAIN rows
    BY <1>0, ReconciledType DEF QueueType, Reconciled
  <2>4. Len(Reconciled) = Len(rows)
    BY <1>l, <2>3
  <2>5. \A c \in DOMAIN rows : Reconciled[c].job = rows[c].job /\ Reconciled[c].status # "running"
    <3>1. \A c \in DOMAIN rows : rows[c] \in [job : Jobs, status : {"running", "interrupted"} \cup Outcomes]
      BY <1>0, RowsTyped
    <3>. QED  BY <3>1 DEF Reconciled
  <2>6. row.job = "drain"
    OBVIOUS
  <2>7. /\ \A c \in DOMAIN rows : c \in DOMAIN rows' /\ rows'[c] = Reconciled[c]
        /\ Len(rows') <= Len(rows) + 1
        /\ \A c \in DOMAIN rows' \ DOMAIN rows : c = new /\ rows'[c] = row /\ task'[c] = "work"
    <3>1. CASE rows' = Reconciled
      BY <1>l, <2>3, <2>4, <3>1
    <3>2. CASE rows' = Append(Reconciled, row) /\ task' = [task EXCEPT ![new] = "work"]
      <4>1. /\ Len(rows') = Len(rows) + 1 /\ DOMAIN rows' = DOMAIN rows \cup {Len(rows) + 1}
            /\ rows'[Len(rows) + 1] = row /\ \A c \in DOMAIN rows : rows'[c] = Reconciled[c]
        <5>. HIDE DEF row
        <5>. QED  BY <1>0, <2>3, <2>4, <3>2, OneMore
      <4>2. task'[new] = "work"
        BY <1>l, <2>2, <3>2
      <4>. QED  BY <1>l, <4>1, <4>2
    <3>. QED  BY <2>1, <3>1, <3>2
  <2>8. AddsFirst'
    BY <1>0, <2>5, <2>6, <2>7 DEF AddsFirst, Job
  <2>9. HistoryTrue'
    BY <2>5, <2>7 DEF HistoryTrue
  <2>10. Spent \subseteq Spent'
    <3>1. \A c \in DOMAIN rows : task'[c] = task[c]
      <4>1. new \notin DOMAIN rows
        BY <1>l
      <4>. QED  BY <1>l, <1>d, <2>1, <4>1
    <3>. QED  BY <1>0, <2>1, <2>5, <2>7, <3>1, SpentStays DEF Calling
  <2>11. Spent' \subseteq 1 .. MaxCalls /\ Spent \subseteq 1 .. MaxCalls
    BY DEF Spent
  <2>12. IsFiniteSet(Spent') /\ Cardinality(Spent') \in Nat /\ Cardinality(Spent) \in Nat
    BY <2>11, FewCalls
  <2>13. Cardinality(Spent) <= Cardinality(Spent')
    BY <2>10, <2>12, FS_Subset
  <2>14. Len(rows') \in Nat
    BY <1>0 DEF QueueType, JobsType
  <2>15. Numbered'
    <3>. HIDE DEF new, row
    <3>. QED  BY <1>0, <1>l, <2>1, <2>7, <2>12, <2>13, <2>14 DEF Numbered
  <2>. QED  BY <2>8, <2>9, <2>15 DEF HistoryInv
<1>. QED  BY <1>1, <1>2, <1>3, <1>4, <1>6, <1>7, <1>8, <1>10, <1>11, <1>12, JobSteps

LEMMA InitHistory == Init => HistoryInv
<1>. SUFFICES ASSUME Init PROVE HistoryInv
  OBVIOUS
<1>1. rows = <<>> /\ boots = 0
  BY DEF Init, JobsInit
<1>2. Spent = {}
  BY <1>1 DEF Spent
<1>. QED  BY <1>1, <1>2, JobManagerAssumption, FS_EmptySet DEF HistoryInv, AddsFirst, Numbered, HistoryTrue

\* While the service is up, a row of the history says "running" only as long as
\* its run is alive (manager.py _execute, reconcile_orphaned_job_runs).
THEOREM HistoryTrueCorrect == Spec => []HistoryTrue
<1>1. IInv /\ IInv' /\ HistoryInv /\ [Next]_vars => HistoryInv'
  BY HistoryStep
<1>2. HistoryInv => HistoryTrue
  BY DEF HistoryInv
<1>. QED  BY <1>1, <1>2, InitHistory, Invariance, PTL DEF Spec

\* Types, items with a download and rows with a run behind them, and bounded
\* attempts together (_fetch_queue.py, tasks.py, manager.py).
THEOREM FetchSafeCorrect == Spec => []FetchSafe
  BY FetchTypeCorrect, NothingStrandedCorrect, HistoryTrueCorrect, AttemptsBoundedCorrect, PTL DEF FetchSafe
=============================================================================
