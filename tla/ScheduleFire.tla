----------------------------- MODULE ScheduleFire -----------------------------
(***************************************************************************)
(* Firing a scheduled playlist (playlists/fire.py), the lock of an         *)
(* immutable event (table active_schedule), and the poll loop that runs    *)
(* beside it: it lifts the lock when the last item plays, clears the row   *)
(* when the event is over (queue/shadow.py) and lets the promo director    *)
(* put promos between items (promos/director.py) unless a load is under    *)
(* way or the lock is on.                                                  *)
(*                                                                         *)
(* A fire is one call of fire_schedule, by the scheduler or by an admin;   *)
(* all load the same immutable playlist.  pc[f] is where it awaits, ppc    *)
(* where the poll loop does.  An item says who added it: two fires add     *)
(* different items of the same media.  The order of the playlist is        *)
(* abstracted: it is the set of its items, and any of them may play next,  *)
(* as it may when a moderator jumps.                                       *)
(***************************************************************************)
EXTENDS Integers

CONSTANTS
  Fires,
  NoFire,
  NoItem,
  Size,          \* items of the scheduled playlist
  FallbackSize,  \* items of its fallback playlist
  Faults,        \* what the external calls may do
  Admin,         \* whether admins unlock and clear
  MaxStrays,     \* bound: promos put into one load
  MaxRestarts    \* bound: restarts

ASSUME ScheduleFireAssumption ==
  /\ NoFire \notin Fires /\ {Size, FallbackSize, MaxStrays, MaxRestarts} \subseteq Nat
  /\ Size > 0 /\ Admin \in BOOLEAN
  /\ Faults \subseteq {"missing", "clear_failed", "clear_lost", "add_failed",
                       "add_lost", "unresolved", "poll_failed"}

VARIABLES
  playlist, playing,                 \* CyTube
  active,                            \* the row of active_schedule
  overdue,                           \* its estimated end is 5 minutes past
  fireLock,                          \* fire.py's _queue_lock
  suppressed, rebaseline, blocked,   \* of the promo director
  pc, loaded, lastUid, lastMedia,    \* of each fire: items tried, and the last
  ppc, seen, seenNow, woven,         \* of the poll loop
  strays,                            \* promos put into the load under way
  restarts

cytube == <<playlist, playing>>
director == <<suppressed, rebaseline, blocked>>
locals == <<loaded, lastUid, lastMedia>>
poller == <<ppc, seen, seenNow, woven>>
vars == <<cytube, active, overdue, fireLock, director, pc, locals, poller, strays, restarts>>

Item(kind, by, n) == [kind |-> kind, by |-> by, n |-> n]
Old == Item("old", NoFire, 1)
Items == [kind : {"old", "event", "fallback", "promo"}, by : Fires \cup {NoFire}, n : Nat]
Media(i) == <<i.kind, i.n>>

NoRow == [fire |-> NoFire, uid |-> NoItem, media |-> 0, lifted |-> FALSE]

Ended == {"done", "failed"}
Loading == {"clear", "load", "fallback"}
PollLabels == {"read", "now", "lift", "lifting", "expire", "expiring", "promo", "baseline", "locked", "weave"}

TypeOK ==
  /\ playlist \subseteq Items
  /\ IF playlist = {} THEN playing = NoItem ELSE playing \in playlist
  /\ active \in [fire : Fires \cup {NoFire}, uid : Items \cup {NoItem}, media : 0 .. Size,
                  lifted : BOOLEAN]
  /\ overdue \in BOOLEAN
  /\ fireLock \in Fires \cup {NoFire}
  /\ suppressed = IF fireLock = NoFire THEN 0 ELSE 1
  /\ rebaseline \in BOOLEAN /\ blocked \in BOOLEAN
  /\ pc \in [Fires -> {"idle", "lock"} \cup Loading \cup Ended]
  /\ \A f \in Fires : pc[f] \in Loading <=> fireLock = f
  /\ loaded \in [Fires -> 0 .. Size + FallbackSize]
  /\ lastUid \in [Fires -> Items \cup {NoItem}] /\ lastMedia \in [Fires -> 0 .. Size]
  /\ seen \subseteq Items /\ seenNow \in Items \cup {NoItem}
  /\ ppc \in PollLabels /\ woven \in 0 .. 2 /\ strays \in 0 .. MaxStrays
  /\ restarts \in 0 .. MaxRestarts

Init ==
  /\ playlist = {Old} /\ playing = Old
  /\ active = NoRow /\ overdue = FALSE /\ fireLock = NoFire
  /\ suppressed = 0 /\ rebaseline = FALSE /\ blocked = FALSE
  /\ pc = [f \in Fires |-> "idle"]
  /\ loaded = [f \in Fires |-> 0] /\ lastMedia = [f \in Fires |-> 0]
  /\ lastUid = [f \in Fires |-> NoItem]
  /\ ppc = "read" /\ seen = {} /\ seenNow = NoItem /\ woven = 0
  /\ strays = 0 /\ restarts = 0

-----------------------------------------------------------------------------
(***************************************************************************)
(* CyTube.                                                                 *)
(***************************************************************************)
\* The first item of an empty playlist plays at once.
Added(i) ==
  /\ playlist' = playlist \cup {i}
  /\ playing' = IF playing = NoItem THEN i ELSE playing

\* The current item ends; items are temporary.
Advance ==
  /\ playing # NoItem
  /\ playlist' = playlist \ {playing}
  /\ IF playlist' = {} THEN playing' = NoItem ELSE playing' \in playlist'
  /\ UNCHANGED <<active, overdue, fireLock, director, pc, locals, poller, strays, restarts>>

-----------------------------------------------------------------------------
(***************************************************************************)
(* fire_schedule.                                                          *)
(***************************************************************************)
Goto(f, label) == pc' = [pc EXCEPT ![f] = label]

Resume ==
  /\ suppressed' = suppressed - 1
  /\ rebaseline' = (rebaseline \/ suppressed = 1)
  /\ UNCHANGED blocked

\* The end of a fire, by an exception too, leaves the suppression and the lock.
Leave(f, label) == Goto(f, label) /\ fireLock' = NoFire /\ Resume /\ strays' = 0

Call(f) ==
  /\ pc[f] = "idle" /\ Goto(f, "lock")
  /\ UNCHANGED <<cytube, active, overdue, fireLock, director, locals, poller, strays, restarts>>

\* Mutant of Take: the lock is taken though another fire has it.
Take_NotHeld(f) ==
  /\ pc[f] = "lock"
  /\ Goto(f, "clear") /\ fireLock' = f /\ suppressed' = suppressed + 1
  /\ UNCHANGED <<cytube, active, overdue, rebaseline, blocked, locals, poller, strays, restarts>>

\* The lock, and the look-ups of the schedule and its playlist; then promos are
\* suppressed.
Take(f) ==
  /\ pc[f] = "lock" /\ fireLock = NoFire
  /\ \/ Goto(f, "clear") /\ fireLock' = f /\ suppressed' = suppressed + 1
     \/ "missing" \in Faults /\ Goto(f, "failed") /\ UNCHANGED <<fireLock, suppressed>>
  /\ UNCHANGED <<cytube, active, overdue, rebaseline, blocked, locals, poller, strays, restarts>>

Cleared == playlist' = {} /\ playing' = NoItem

\* Mutant of Clear: a failure leaves promos suppressed.
Clear_StillSuppressed(f) ==
  /\ pc[f] = "clear"
  /\ \/ Goto(f, "load") /\ Cleared /\ UNCHANGED <<fireLock, director, strays>>
     \/ /\ "clear_failed" \in Faults /\ Goto(f, "failed") /\ fireLock' = NoFire /\ strays' = 0
        /\ UNCHANGED <<cytube, director>>
  /\ UNCHANGED <<active, overdue, locals, poller, restarts>>

\* The displaced paid items are refunded and the playlist is cleared.
Clear(f) ==
  /\ pc[f] = "clear"
  /\ \/ Goto(f, "load") /\ Cleared /\ UNCHANGED <<fireLock, director, strays>>
     \/ "clear_failed" \in Faults /\ Leave(f, "failed") /\ UNCHANGED cytube
     \/ "clear_lost" \in Faults /\ Leave(f, "failed") /\ Cleared
  /\ UNCHANGED <<active, overdue, locals, poller, restarts>>

\* One item of the event, its retries included: what is known of the last is its media, and its uid
\* when CyTube's answer had one.
Load(f) ==
  LET n == loaded[f] + 1
      i == Item("event", f, n)
  IN  /\ pc[f] = "load" /\ n <= Size
      /\ loaded' = [loaded EXCEPT ![f] = n]
      /\ \/ /\ Added(i)
            /\ lastUid' = [lastUid EXCEPT ![f] = i] /\ lastMedia' = [lastMedia EXCEPT ![f] = n]
         \/ /\ "unresolved" \in Faults /\ Added(i)
            /\ lastMedia' = [lastMedia EXCEPT ![f] = n] /\ UNCHANGED lastUid
         \/ "add_failed" \in Faults /\ UNCHANGED <<cytube, lastUid, lastMedia>>
         \/ "add_lost" \in Faults /\ Added(i) /\ UNCHANGED <<lastUid, lastMedia>>
      /\ UNCHANGED <<active, overdue, fireLock, director, pc, poller, strays, restarts>>

\* set_active_schedule.
Activate(f) ==
  /\ pc[f] = "load" /\ loaded[f] = Size
  /\ active' = [fire |-> f, uid |-> lastUid[f], media |-> lastMedia[f], lifted |-> FALSE]
  /\ overdue' = FALSE
  /\ Goto(f, "fallback")
  /\ lastUid' = [lastUid EXCEPT ![f] = NoItem] /\ lastMedia' = [lastMedia EXCEPT ![f] = 0]
  /\ UNCHANGED <<cytube, fireLock, director, loaded, poller, strays, restarts>>

Fallback(f) ==
  LET n == loaded[f] + 1
  IN  /\ pc[f] = "fallback" /\ n <= Size + FallbackSize
      /\ loaded' = [loaded EXCEPT ![f] = n]
      /\ \/ Added(Item("fallback", f, n))
         \/ "add_failed" \in Faults /\ UNCHANGED cytube
      /\ UNCHANGED <<active, overdue, fireLock, director, pc, lastUid, lastMedia, poller, strays, restarts>>

\* mark_schedule_fired, the end of the suppression, the broadcast and the end of
\* the lock.
Fired(f) ==
  /\ pc[f] = "fallback" /\ loaded[f] = Size + FallbackSize
  /\ Leave(f, "done") /\ loaded' = [loaded EXCEPT ![f] = 0]
  /\ UNCHANGED <<cytube, active, overdue, lastUid, lastMedia, poller, restarts>>

-----------------------------------------------------------------------------
(***************************************************************************)
(* The poll loop: two reads, then apply_poll_result.                       *)
(***************************************************************************)
Events == {i \in playlist : i.kind = "event"}

\* What has been read is of use up to the director's turn.
PollGoto(label) ==
  /\ ppc' = label
  /\ IF label \in {"read", "promo"} THEN seen' = {} /\ seenNow' = NoItem
     ELSE UNCHANGED <<seen, seenNow>>
  /\ woven' = 0

\* Of the list only the event's items matter.
PollRead ==
  /\ ppc = "read"
  /\ ppc' = "now" /\ seen' = Events
  /\ UNCHANGED <<seenNow, woven, cytube, active, overdue, fireLock, director, pc, locals, strays, restarts>>

PollNow ==
  /\ ppc = "now"
  /\ ppc' = "lift" /\ seenNow' = playing
  /\ UNCHANGED <<seen, woven, cytube, active, overdue, fireLock, director, pc, locals, strays, restarts>>

PollError ==
  /\ ppc = "now" /\ "poll_failed" \in Faults
  /\ PollGoto("read")
  /\ UNCHANGED <<cytube, active, overdue, fireLock, director, pc, locals, strays, restarts>>

\* _now_playing_index: CyTube tells the media, the list it is looked up in has
\* the uids.
Current == {i \in seen : seenNow # NoItem /\ Media(i) = Media(seenNow)}

LastIsOn ==
  \E i \in Current : i = active.uid \/ (active.media # 0 /\ Media(i) = <<"event", active.media>>)

\* _maybe_lift_event_lock: its SELECT, and its UPDATE of the row there is then.
PollLift ==
  /\ ppc = "lift"
  /\ PollGoto(IF active.fire # NoFire /\ ~active.lifted /\ LastIsOn THEN "lifting" ELSE "expire")
  /\ UNCHANGED <<cytube, active, overdue, fireLock, director, pc, locals, strays, restarts>>

Lifted == active' = IF active.fire = NoFire THEN active ELSE [active EXCEPT !.lifted = TRUE]

PollLifting ==
  /\ ppc = "lifting" /\ Lifted
  /\ PollGoto("expire")
  /\ UNCHANGED <<cytube, overdue, fireLock, director, pc, locals, strays, restarts>>

\* Mutant of Expired: without the time safety net.
Expired_NoSafetyNet == active.uid # NoItem /\ seenNow # NoItem /\ active.uid \notin seen

Expired == (active.uid # NoItem /\ seenNow # NoItem /\ active.uid \notin seen) \/ overdue

\* _maybe_expire_active_schedule: its SELECT, and its DELETE.
PollExpire ==
  /\ ppc = "expire"
  /\ PollGoto(IF active.fire # NoFire /\ Expired THEN "expiring" ELSE "promo")
  /\ UNCHANGED <<cytube, active, overdue, fireLock, director, pc, locals, strays, restarts>>

PollExpiring ==
  /\ ppc = "expiring" /\ active' = NoRow
  /\ PollGoto("promo")
  /\ UNCHANGED <<cytube, overdue, fireLock, director, pc, locals, strays, restarts>>

-----------------------------------------------------------------------------
(***************************************************************************)
(* PromoDirector.on_poll, awaited by the poll loop.                        *)
(***************************************************************************)
\* Mutant of PromoCheck: on_poll does not look at the suppression.
PromoCheck_Always ==
  /\ ppc = "promo"
  /\ PollGoto(IF blocked THEN "read" ELSE "baseline")
  /\ UNCHANGED <<cytube, active, overdue, fireLock, director, pc, locals, strays, restarts>>

PromoCheck ==
  /\ ppc = "promo"
  /\ PollGoto(IF blocked \/ suppressed > 0 THEN "read" ELSE "baseline")
  /\ UNCHANGED <<cytube, active, overdue, fireLock, director, pc, locals, strays, restarts>>

\* What plays is read again; after a load that is all.
PromoBaseline ==
  /\ ppc = "baseline" /\ rebaseline' = FALSE
  /\ PollGoto(IF rebaseline THEN "read" ELSE "locked")
  /\ UNCHANGED <<cytube, active, overdue, fireLock, suppressed, blocked, pc, locals, strays, restarts>>

EventLocked == active.fire # NoFire /\ ~active.lifted

\* is_event_lock_active.
PromoLocked ==
  /\ ppc = "locked"
  /\ PollGoto(IF EventLocked THEN "read" ELSE "weave")
  /\ UNCHANGED <<cytube, active, overdue, fireLock, director, pc, locals, strays, restarts>>

Promo == Item("promo", NoFire, 0)

\* A lead-in or a general promo is due, and added, whether the answer says so
\* or not; its move changes the order only.
Weave ==
  /\ ppc = "weave" /\ woven < 2 /\ (suppressed > 0 => strays < MaxStrays)
  /\ Added(Promo)
  /\ strays' = IF suppressed > 0 THEN strays + 1 ELSE strays
  /\ \/ woven' = woven + 1 /\ UNCHANGED <<ppc, seen, seenNow, blocked>>
     \/ "unresolved" \in Faults /\ blocked' = TRUE /\ PollGoto("read")
  /\ UNCHANGED <<active, overdue, fireLock, suppressed, rebaseline, pc, locals, restarts>>

\* There is no content to come, no promo is due, or its add fails.
WeaveNone ==
  /\ ppc = "weave" /\ PollGoto("read")
  /\ UNCHANGED <<cytube, active, overdue, fireLock, director, pc, locals, strays, restarts>>

-----------------------------------------------------------------------------
\* POST /unlock, after its own look at the row; POST /clear-active.
Unlock ==
  /\ Admin /\ Lifted
  /\ UNCHANGED <<cytube, overdue, fireLock, director, pc, locals, poller, strays, restarts>>

ClearActive ==
  /\ Admin /\ active' = NoRow
  /\ UNCHANGED <<cytube, overdue, fireLock, director, pc, locals, poller, strays, restarts>>

TimePasses ==
  /\ active.fire # NoFire /\ overdue' = TRUE
  /\ UNCHANGED <<cytube, active, fireLock, director, pc, locals, poller, strays, restarts>>

\* The service stops anywhere and starts again; CyTube plays on.
Restart ==
  /\ restarts < MaxRestarts /\ restarts' = restarts + 1
  /\ fireLock' = NoFire
  /\ strays' = 0 /\ suppressed' = 0 /\ rebaseline' = FALSE /\ blocked' = FALSE
  /\ pc' = [f \in Fires |-> IF pc[f] \in {"idle", "done"} THEN pc[f] ELSE "failed"]
  /\ PollGoto("read")
  /\ loaded' = [f \in Fires |-> 0] /\ lastMedia' = [f \in Fires |-> 0]
  /\ lastUid' = [f \in Fires |-> NoItem]
  /\ UNCHANGED <<cytube, active, overdue>>

-----------------------------------------------------------------------------
FireStep(f) ==
  Take(f) \/ Clear(f) \/ Load(f) \/ Activate(f) \/ Fallback(f) \/ Fired(f)

PollStep ==
  PollRead \/ PollNow \/ PollLift \/ PollLifting \/ PollExpire \/ PollExpiring
    \/ PromoCheck \/ PromoBaseline \/ PromoLocked \/ Weave \/ WeaveNone

Next ==
  \/ \E f \in Fires : Call(f) \/ FireStep(f)
  \/ PollStep \/ PollError
  \/ Advance \/ Unlock \/ ClearActive \/ TimePasses \/ Restart

Spec == Init /\ [][Next]_vars

(***************************************************************************)
(* Fairness.  Tasks that are ready run and external calls end; the lock    *)
(* serves its waiters in order; the two reads of a poll do not fail for    *)
(* ever; time passes.  Nobody has to fire, to play or to unlock.           *)
(***************************************************************************)
FairSpec ==
  /\ Spec
  /\ \A f \in Fires : WF_vars(FireStep(f)) /\ SF_vars(Take(f))
  /\ WF_vars(PollStep) /\ SF_vars(PollNow)
  /\ WF_vars(TimePasses)

-----------------------------------------------------------------------------
(***************************************************************************)
(* Properties.                                                             *)
(***************************************************************************)
\* Two fires never mix their items, however their calls, failures and a
\* restart interleave: fire.py's lock is held until the last item is in.
LoadsApart ==
  \A i, j \in playlist :
    {i.kind, j.kind} \subseteq {"event", "fallback"} => i.by = j.by

\* Into a playlist that is being built the poll loop puts the promos of one
\* cycle at most, the one that was past its look at the suppression when the fire
\* began: a lead-in and a general promo.
StraysBounded == strays <= 2

\* The types, and what a load may get besides its own items.
LoadSafe == TypeOK /\ StraysBounded

\* The lock of an event is lifted or its row is cleared, also when no uid was
\* captured, an add failed, or the service restarted.
Reopens == EventLocked ~> ~EventLocked

\* The director goes back to work after every load, whichever way it ended.
PromosResume == []<>(ppc = "baseline" \/ blocked)

\* An event ends for buyers and for the director.
EventEnds == Reopens /\ PromosResume
=============================================================================
