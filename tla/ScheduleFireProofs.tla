-------------------------- MODULE ScheduleFireProofs --------------------------
(***************************************************************************)
(* For any number of fires, items, faults and restarts: the types of       *)
(* ScheduleFire, that two fires never mix their items, and that the poll   *)
(* loop puts the promos of one cycle at most into a load.                  *)
(*                                                                         *)
(* LoadsApart is not inductive: a state with the items of one fire only,   *)
(* in which another is loading, satisfies it.  Alone says that cannot be:  *)
(* since its clear, only the fire that holds the lock has added content.   *)
(* Nor is StraysBounded: Counted says that a cycle past its look at the    *)
(* suppression has put in all the promos there are, and that a load begins *)
(* with none.                                                              *)
(***************************************************************************)
EXTENDS ScheduleFire, TLAPS

Content == {i \in playlist : i.kind \in {"event", "fallback"}}

Alone == \A f \in Fires : pc[f] \in {"load", "fallback"} => \A i \in Content : i.by = f

Weaving == {"baseline", "locked", "weave"}

Counted ==
  /\ suppressed = 0 => strays = 0
  /\ ppc # "weave" => woven = 0
  /\ ppc \in Weaving => strays <= woven

IInv == TypeOK /\ Alone /\ LoadsApart /\ Counted /\ StraysBounded

\* An added item keeps the shape of the playlist.
LEMMA AddedShape ==
  ASSUME TypeOK, NEW i \in Items, Added(i)
  PROVE  /\ playlist' \subseteq Items
         /\ IF playlist' = {} THEN playing' = NoItem ELSE playing' \in playlist'
  BY DEF TypeOK, Added

\* A label of the poll loop is followed by a label, with nothing read that was
\* not read before.
LEMMA PollShape ==
  ASSUME TypeOK, NEW l \in PollLabels, PollGoto(l)
  PROVE  ppc' \in PollLabels /\ woven' \in 0 .. 2 /\ seen' \subseteq Items /\ seenNow' \in Items \cup {NoItem}
  BY DEF TypeOK, PollGoto

-----------------------------------------------------------------------------
(***************************************************************************)
(* The types.                                                              *)
(***************************************************************************)
LEMMA InitTypes == Init => TypeOK
  <1> SUFFICES ASSUME Init PROVE TypeOK OBVIOUS
  <1>1. Old \in Items BY DEF Old, Item, Items
  <1>2. 0 \in 0 .. Size /\ 0 \in 0 .. Size + FallbackSize /\ 0 \in 0 .. MaxStrays /\ 0 \in 0 .. MaxRestarts
    BY ScheduleFireAssumption
  <1>3. active \in [fire : Fires \cup {NoFire}, uid : Items \cup {NoItem}, media : 0 .. Size,
                    lifted : BOOLEAN]
    BY <1>2 DEF Init, NoRow
  <1>4. /\ pc \in [Fires -> {"idle", "lock"} \cup Loading \cup Ended]
        /\ \A f \in Fires : pc[f] \in Loading <=> fireLock = f
    BY ScheduleFireAssumption DEF Init, Loading
  <1>5. /\ loaded \in [Fires -> 0 .. Size + FallbackSize] /\ lastMedia \in [Fires -> 0 .. Size]
        /\ lastUid \in [Fires -> Items \cup {NoItem}]
    BY <1>2 DEF Init
  <1>6. playlist \subseteq Items /\ playing \in playlist /\ playlist # {} BY <1>1 DEF Init
  <1>7. /\ fireLock \in Fires \cup {NoFire} /\ suppressed = IF fireLock = NoFire THEN 0 ELSE 1
        /\ rebaseline \in BOOLEAN /\ blocked \in BOOLEAN /\ overdue \in BOOLEAN
    BY DEF Init
  <1>8. seen \subseteq Items /\ seenNow \in Items \cup {NoItem} /\ ppc \in PollLabels /\ woven \in 0 .. 2
    BY DEF Init, PollLabels
  <1>9. strays \in 0 .. MaxStrays /\ restarts \in 0 .. MaxRestarts BY <1>2 DEF Init
  <1> QED BY <1>3, <1>4, <1>5, <1>6, <1>7, <1>8, <1>9 DEF TypeOK

\* What a fire changes of itself, of the lock and of the suppression.
LEMMA TakeTypes ==
  ASSUME TypeOK, NEW f \in Fires, Take(f)
  PROVE  TypeOK'
  <1>1. pc[f] = "lock" /\ fireLock = NoFire /\ NoFire \notin Fires
    BY ScheduleFireAssumption DEF Take
  <1>2. CASE Goto(f, "clear") /\ fireLock' = f /\ suppressed' = suppressed + 1
    BY <1>1, <1>2 DEF Take, TypeOK, Goto, Loading, cytube, locals, poller
  <1>3. CASE Goto(f, "failed") /\ UNCHANGED <<fireLock, suppressed>>
    BY <1>1, <1>3 DEF Take, TypeOK, Goto, Loading, Ended, cytube, locals, poller
  <1> QED BY <1>2, <1>3 DEF Take

\* The end of a fire keeps what it touches in its type.
LEMMA LeaveTypes ==
  ASSUME TypeOK, NEW f \in Fires, NEW l \in Ended, pc[f] \in Loading, Leave(f, l)
  PROVE  /\ fireLock' \in Fires \cup {NoFire}
         /\ suppressed' = (IF fireLock' = NoFire THEN 0 ELSE 1)
         /\ rebaseline' \in BOOLEAN /\ blocked' \in BOOLEAN
         /\ pc' \in [Fires -> {"idle", "lock"} \cup Loading \cup Ended]
         /\ \A g \in Fires : pc'[g] \in Loading <=> fireLock' = g
         /\ strays' \in 0 .. MaxStrays
  BY ScheduleFireAssumption DEF TypeOK, Leave, Goto, Resume, Loading, Ended

LEMMA ClearTypes ==
  ASSUME TypeOK, NEW f \in Fires, Clear(f)
  PROVE  TypeOK'
  <1>1. pc[f] = "clear" /\ pc[f] \in Loading BY DEF Clear, Loading
  <1>2. CASE Goto(f, "load") /\ Cleared /\ UNCHANGED <<fireLock, director, strays>>
    BY <1>1, <1>2 DEF Clear, TypeOK, Goto, Cleared, Loading, Ended, director, locals, poller
  <1>3. CASE Leave(f, "failed") /\ (UNCHANGED cytube \/ Cleared)
    <2>1. "failed" \in Ended BY DEF Ended
    <2> QED BY <1>1, <1>3, <2>1, LeaveTypes DEF Clear, TypeOK, Cleared, cytube, locals, poller
  <1> QED BY <1>2, <1>3 DEF Clear

LEMMA LoadTypes ==
  ASSUME TypeOK, NEW f \in Fires, Load(f)
  PROVE  TypeOK'
  <1> DEFINE n == loaded[f] + 1
             i == Item("event", f, n)
  <1>1. n \in 0 .. Size + FallbackSize /\ n \in 0 .. Size /\ n \in Nat
    BY ScheduleFireAssumption DEF Load, TypeOK
  <1>2. i \in Items BY <1>1 DEF Items, Item
  <1>3. loaded' = [loaded EXCEPT ![f] = n] BY DEF Load
  <1>4. /\ lastMedia' = lastMedia \/ lastMedia' = [lastMedia EXCEPT ![f] = n]
        /\ lastUid' = lastUid \/ lastUid' = [lastUid EXCEPT ![f] = i]
    BY DEF Load
  <1>5. Added(i) \/ UNCHANGED cytube BY DEF Load
  <1>6. UNCHANGED <<active, overdue, fireLock, director, pc, poller, strays, restarts>> BY DEF Load
  <1> HIDE DEF n, i
  <1>7. /\ playlist' \subseteq Items
        /\ IF playlist' = {} THEN playing' = NoItem ELSE playing' \in playlist'
    BY <1>2, <1>5, AddedShape DEF TypeOK, cytube
  <1> QED BY <1>1, <1>2, <1>3, <1>4, <1>6, <1>7 DEF TypeOK, director, poller

LEMMA ActivateTypes ==
  ASSUME TypeOK, NEW f \in Fires, Activate(f)
  PROVE  TypeOK'
  <1>1. pc[f] = "load" /\ pc[f] \in Loading BY DEF Activate, Loading
  <1>2. active' \in [fire : Fires \cup {NoFire}, uid : Items \cup {NoItem}, media : 0 .. Size,
                     lifted : BOOLEAN]
    BY DEF Activate, TypeOK
  <1>3. /\ pc' \in [Fires -> {"idle", "lock"} \cup Loading \cup Ended]
        /\ \A g \in Fires : pc'[g] \in Loading <=> fireLock' = g
    BY <1>1 DEF Activate, TypeOK, Goto, Loading
  <1>4. lastUid' \in [Fires -> Items \cup {NoItem}] /\ overdue' \in BOOLEAN BY DEF Activate, TypeOK
  <1>5. 0 \in 0 .. Size BY ScheduleFireAssumption
  <1>6. lastMedia' \in [Fires -> 0 .. Size] BY <1>5 DEF Activate, TypeOK
  <1> QED BY <1>2, <1>3, <1>4, <1>6 DEF Activate, TypeOK, cytube, director, poller

LEMMA FallbackTypes ==
  ASSUME TypeOK, NEW f \in Fires, Fallback(f)
  PROVE  TypeOK'
  <1> DEFINE n == loaded[f] + 1
             i == Item("fallback", f, n)
  <1>1. n \in 0 .. Size + FallbackSize /\ n \in Nat
    BY ScheduleFireAssumption DEF Fallback, TypeOK
  <1>2. i \in Items BY <1>1 DEF Items, Item
  <1>3. loaded' = [loaded EXCEPT ![f] = n] BY DEF Fallback
  <1>4. Added(i) \/ UNCHANGED cytube BY DEF Fallback
  <1>5. UNCHANGED <<active, overdue, fireLock, director, pc, lastUid, lastMedia, poller, strays, restarts>>
    BY DEF Fallback
  <1> HIDE DEF n, i
  <1>6. /\ playlist' \subseteq Items
        /\ IF playlist' = {} THEN playing' = NoItem ELSE playing' \in playlist'
    BY <1>2, <1>4, AddedShape DEF TypeOK, cytube
  <1> QED BY <1>1, <1>3, <1>5, <1>6 DEF TypeOK, director, poller

LEMMA FiredTypes ==
  ASSUME TypeOK, NEW f \in Fires, Fired(f)
  PROVE  TypeOK'
  <1>1. pc[f] \in Loading /\ "done" \in Ended /\ Leave(f, "done") BY DEF Fired, Loading, Ended
  <1>2. loaded' \in [Fires -> 0 .. Size + FallbackSize]
    BY ScheduleFireAssumption DEF Fired, TypeOK
  <1> QED BY <1>1, <1>2, LeaveTypes DEF Fired, TypeOK, cytube, poller

LEMMA FireTypes ==
  ASSUME TypeOK, NEW f \in Fires, Call(f) \/ FireStep(f)
  PROVE  TypeOK'
  <1>1. CASE Call(f)
    BY <1>1 DEF Call, TypeOK, Goto, Loading, cytube, director, locals, poller
  <1> QED BY <1>1, TakeTypes, ClearTypes, LoadTypes, ActivateTypes, FallbackTypes, FiredTypes DEF FireStep

\* The steps of the poll loop that change no more than where it is and what it
\* has read, the row or the baseline.
LEMMA PollTypes ==
  ASSUME TypeOK, PollStep \/ PollError
  PROVE  TypeOK'
  <1> USE DEF TypeOK, cytube, director, locals, poller
  <1>1. CASE PollRead BY <1>1 DEF PollRead, Events, PollLabels
  <1>2. CASE PollNow BY <1>2 DEF PollNow, PollLabels
  <1>3. CASE PollError
    <2>1. PollGoto("read") /\ "read" \in PollLabels BY <1>3 DEF PollError, PollLabels
    <2> QED BY <1>3, <2>1, PollShape DEF PollError
  <1>4. CASE PollLift
    <2>1. \E l \in PollLabels : PollGoto(l) BY <1>4 DEF PollLift, PollLabels
    <2> QED BY <1>4, <2>1, PollShape DEF PollLift
  <1>5. CASE PollLifting
    <2>1. PollGoto("expire") /\ "expire" \in PollLabels BY <1>5 DEF PollLifting, PollLabels
    <2>2. active' \in [fire : Fires \cup {NoFire}, uid : Items \cup {NoItem}, media : 0 .. Size,
                       lifted : BOOLEAN]
      BY <1>5 DEF PollLifting, Lifted
    <2> QED BY <1>5, <2>1, <2>2, PollShape DEF PollLifting
  <1>6. CASE PollExpire
    <2>1. \E l \in PollLabels : PollGoto(l) BY <1>6 DEF PollExpire, PollLabels
    <2> QED BY <1>6, <2>1, PollShape DEF PollExpire
  <1>7. CASE PollExpiring
    <2>1. PollGoto("promo") /\ "promo" \in PollLabels BY <1>7 DEF PollExpiring, PollLabels
    <2> QED BY <1>7, <2>1, PollShape, ScheduleFireAssumption DEF PollExpiring, NoRow
  <1>8. CASE PromoCheck
    <2>1. \E l \in PollLabels : PollGoto(l) BY <1>8 DEF PromoCheck, PollLabels
    <2> QED BY <1>8, <2>1, PollShape DEF PromoCheck
  <1>9. CASE PromoBaseline
    <2>1. \E l \in PollLabels : PollGoto(l) BY <1>9 DEF PromoBaseline, PollLabels
    <2> QED BY <1>9, <2>1, PollShape DEF PromoBaseline
  <1>10. CASE PromoLocked
    <2>1. \E l \in PollLabels : PollGoto(l) BY <1>10 DEF PromoLocked, PollLabels
    <2> QED BY <1>10, <2>1, PollShape DEF PromoLocked
  <1>11. CASE Weave
    <2>1. Promo \in Items BY DEF Promo, Item, Items
    <2>2. Added(Promo) BY <1>11 DEF Weave
    <2>3. /\ playlist' \subseteq Items
          /\ IF playlist' = {} THEN playing' = NoItem ELSE playing' \in playlist'
      BY <2>1, <2>2, AddedShape
    <2>4. strays' \in 0 .. MaxStrays BY <1>11, ScheduleFireAssumption DEF Weave
    <2>5. ppc' \in PollLabels /\ woven' \in 0 .. 2 /\ blocked' \in BOOLEAN /\ seen' \subseteq Items /\ seenNow' \in Items \cup {NoItem}
      <3>1. "read" \in PollLabels BY DEF PollLabels
      <3>2. CASE woven' = woven + 1 /\ UNCHANGED <<ppc, seen, seenNow, blocked>>
        BY <1>11, <3>2 DEF Weave
      <3>3. CASE blocked' = TRUE /\ PollGoto("read") BY <3>1, <3>3, PollShape
      <3> QED BY <1>11, <3>2, <3>3 DEF Weave
    <2> QED BY <1>11, <2>3, <2>4, <2>5 DEF Weave
  <1>12. CASE WeaveNone
    <2>1. PollGoto("read") /\ "read" \in PollLabels BY <1>12 DEF WeaveNone, PollLabels
    <2> QED BY <1>12, <2>1, PollShape DEF WeaveNone
  <1> QED BY <1>1, <1>2, <1>3, <1>4, <1>5, <1>6, <1>7, <1>8, <1>9, <1>10, <1>11, <1>12 DEF PollStep

LEMMA OtherTypes ==
  ASSUME TypeOK, Advance \/ Unlock \/ ClearActive \/ TimePasses \/ Restart \/ UNCHANGED vars
  PROVE  TypeOK'
  <1> USE DEF TypeOK, cytube, director, locals, poller
  <1>1. CASE Advance BY <1>1 DEF Advance
  <1>2. CASE Unlock
    <2>1. active' \in [fire : Fires \cup {NoFire}, uid : Items \cup {NoItem}, media : 0 .. Size,
                       lifted : BOOLEAN]
      BY <1>2 DEF Unlock, Lifted
    <2> QED BY <1>2, <2>1 DEF Unlock
  <1>3. CASE ClearActive BY <1>3, ScheduleFireAssumption DEF ClearActive, NoRow
  <1>4. CASE TimePasses BY <1>4 DEF TimePasses
  <1>5. CASE Restart
    <2>1. PollGoto("read") /\ "read" \in PollLabels BY <1>5 DEF Restart, PollLabels
    <2>2. restarts' \in 0 .. MaxRestarts BY <1>5, ScheduleFireAssumption DEF Restart
    <2>3. /\ pc' \in [Fires -> {"idle", "lock"} \cup Loading \cup Ended]
          /\ \A f \in Fires : pc'[f] \in Loading <=> fireLock' = f
      BY <1>5, ScheduleFireAssumption DEF Restart, Loading, Ended
    <2>4. /\ loaded' \in [Fires -> 0 .. Size + FallbackSize] /\ lastMedia' \in [Fires -> 0 .. Size]
          /\ strays' \in 0 .. MaxStrays
      BY <1>5, ScheduleFireAssumption DEF Restart
    <2> QED BY <1>5, <2>1, <2>2, <2>3, <2>4, PollShape DEF Restart
  <1>6. CASE UNCHANGED vars BY <1>6 DEF vars
  <1> QED BY <1>1, <1>2, <1>3, <1>4, <1>5, <1>6

LEMMA NextTypes == TypeOK /\ [Next]_vars => TypeOK'
  BY FireTypes, PollTypes, OtherTypes DEF Next

-----------------------------------------------------------------------------
(***************************************************************************)
(* Whose content is on the playlist.                                       *)
(***************************************************************************)
\* Items leave, or a promo comes, and no fire gets to its loop.
LEMMA ContentLeaves ==
  ASSUME TypeOK, Alone, LoadsApart,
         \A i \in playlist' : i \in playlist \/ i = Promo,
         \A f \in Fires : pc'[f] \in {"load", "fallback"} => pc[f] \in {"load", "fallback"}
  PROVE  Alone' /\ LoadsApart'
  <1>1. Content' \subseteq Content BY DEF Content, Promo, Item
  <1>2. Alone' BY <1>1 DEF Alone
  <1>3. \A i, j \in Content : i.by = j.by BY DEF LoadsApart, Content
  <1> QED BY <1>1, <1>2, <1>3 DEF LoadsApart, Content

\* The fire that holds the lock adds an item.
LEMMA ContentAdded ==
  ASSUME TypeOK, Alone, NEW f \in Fires, pc[f] \in {"load", "fallback"},
         UNCHANGED pc, NEW n, NEW kind, Added(Item(kind, f, n))
  PROVE  Alone' /\ LoadsApart'
  <1>1. \A i \in Content' : i.by = f
    BY DEF Content, Added, Item, Alone
  <1>2. \A g \in Fires : pc[g] \in {"load", "fallback"} => g = f
    BY DEF TypeOK, Loading
  <1>3. Alone' BY <1>1, <1>2 DEF Alone
  <1> QED BY <1>1, <1>3 DEF LoadsApart, Content

LEMMA FireContent ==
  ASSUME TypeOK, Alone, LoadsApart, NEW f \in Fires, Call(f) \/ FireStep(f)
  PROVE  Alone' /\ LoadsApart'
  <1> USE DEF cytube
  <1>1. CASE Call(f)
    BY <1>1, ContentLeaves DEF Call, Goto, TypeOK
  <1>2. CASE Take(f)
    BY <1>2, ContentLeaves DEF Take, Goto, TypeOK
  <1>3. CASE Clear(f)
    <2>1. CASE Cleared
      BY <2>1 DEF Cleared, Alone, Content, LoadsApart
    <2>2. CASE Leave(f, "failed") /\ UNCHANGED cytube
      BY <2>2, ContentLeaves DEF Leave, Goto, TypeOK
    <2> QED BY <1>3, <2>1, <2>2 DEF Clear
  <1>4. CASE Load(f)
    <2>1. pc[f] \in {"load", "fallback"} /\ UNCHANGED pc BY <1>4 DEF Load
    <2>2. Added(Item("event", f, loaded[f] + 1)) \/ UNCHANGED cytube BY <1>4 DEF Load
    <2> QED BY <2>1, <2>2, ContentAdded, ContentLeaves
  <1>5. CASE Activate(f)
    BY <1>5, ContentLeaves DEF Activate, Goto, TypeOK
  <1>6. CASE Fallback(f)
    <2>1. pc[f] \in {"load", "fallback"} /\ UNCHANGED pc BY <1>6 DEF Fallback
    <2>2. Added(Item("fallback", f, loaded[f] + 1)) \/ UNCHANGED cytube BY <1>6 DEF Fallback
    <2> QED BY <2>1, <2>2, ContentAdded, ContentLeaves
  <1>7. CASE Fired(f)
    BY <1>7, ContentLeaves DEF Fired, Leave, Goto, TypeOK
  <1> QED BY <1>1, <1>2, <1>3, <1>4, <1>5, <1>6, <1>7 DEF FireStep

LEMMA OtherContent ==
  ASSUME TypeOK, Alone, LoadsApart,
         \/ PollStep \/ PollError
         \/ Advance \/ Unlock \/ ClearActive \/ TimePasses \/ Restart \/ UNCHANGED vars
  PROVE  Alone' /\ LoadsApart'
  <1>1. \A i \in playlist' : i \in playlist \/ i = Promo
    BY DEF PollStep, PollRead, PollNow, PollError, PollLift, PollLifting, PollExpire, PollExpiring,
           PromoCheck, PromoBaseline, PromoLocked, Weave, Added, WeaveNone,
           Advance, Unlock, ClearActive, TimePasses, Restart, vars, cytube
  <1>2. UNCHANGED pc \/ Restart
    BY DEF PollStep, PollRead, PollNow, PollError, PollLift, PollLifting, PollExpire, PollExpiring,
           PromoCheck, PromoBaseline, PromoLocked, Weave, WeaveNone,
           Advance, Unlock, ClearActive, TimePasses, vars
  <1>3. \A f \in Fires : pc'[f] \in {"load", "fallback"} => pc[f] \in {"load", "fallback"}
    BY <1>2 DEF Restart
  <1> QED BY <1>1, <1>3, ContentLeaves

-----------------------------------------------------------------------------
(***************************************************************************)
(* How many promos go into a load.                                         *)
(***************************************************************************)
LEMMA FireCounted ==
  ASSUME TypeOK, Counted, StraysBounded, NEW f \in Fires, Call(f) \/ FireStep(f)
  PROVE  Counted' /\ StraysBounded'
  <1> USE DEF director, poller
  <1>1. woven \in 0 .. 2 /\ suppressed \in {0, 1} BY DEF TypeOK
  <1>2. UNCHANGED <<ppc, woven>>
    BY DEF Call, FireStep, Take, Clear, Load, Activate, Fallback, Fired
  <1>3. CASE strays' = 0
    BY <1>1, <1>2, <1>3 DEF Counted, StraysBounded
  <1>4. CASE UNCHANGED <<strays, suppressed>>
    BY <1>2, <1>4 DEF Counted, StraysBounded
  <1>5. strays' = 0 \/ UNCHANGED <<strays, suppressed>>
    <2>1. CASE Take(f)
      <3>1. strays = 0 BY <2>1 DEF Take, TypeOK, Counted
      <3> QED BY <2>1, <3>1 DEF Take
    <2>2. CASE Clear(f) \/ Fired(f) BY <2>2 DEF Clear, Fired, Leave
    <2>3. CASE Call(f) \/ Load(f) \/ Activate(f) \/ Fallback(f)
      BY <2>3 DEF Call, Load, Activate, Fallback
    <2> QED BY <2>1, <2>2, <2>3 DEF FireStep
  <1> QED BY <1>3, <1>4, <1>5

LEMMA PollCounted ==
  ASSUME TypeOK, Counted, StraysBounded, PollStep \/ PollError
  PROVE  Counted' /\ StraysBounded'
  <1> USE DEF director
  <1>1. woven \in 0 .. 2 /\ suppressed \in {0, 1} /\ strays \in Nat
    BY ScheduleFireAssumption DEF TypeOK
  <1>2. UNCHANGED suppressed
    BY DEF PollStep, PollRead, PollNow, PollError, PollLift, PollLifting, PollExpire, PollExpiring,
           PromoCheck, PromoBaseline, PromoLocked, Weave, WeaveNone
  <1>3. CASE PollRead \/ PollNow \/ PollError \/ PollLift \/ PollLifting \/ PollExpire \/ PollExpiring \/ WeaveNone
    BY <1>2, <1>3 DEF PollRead, PollNow, PollError, PollLift, PollLifting, PollExpire, PollExpiring,
       WeaveNone, PollGoto, Counted, StraysBounded, Weaving, poller
  <1>4. CASE PromoCheck
    BY <1>1, <1>2, <1>4 DEF PromoCheck, PollGoto, Counted, StraysBounded, Weaving
  <1>5. CASE PromoBaseline \/ PromoLocked
    <2>1. ppc \in Weaving /\ ppc # "weave" BY <1>5 DEF PromoBaseline, PromoLocked, Weaving
    <2>2. woven' = 0 /\ UNCHANGED strays BY <1>5 DEF PromoBaseline, PromoLocked, PollGoto
    <2>3. strays = 0 BY <1>1, <2>1 DEF Counted
    <2> QED BY <1>1, <2>2, <2>3 DEF Counted, StraysBounded
  <1>6. CASE Weave
    <2>1. ppc \in Weaving /\ woven < 2 BY <1>6 DEF Weave, Weaving
    <2>2. strays <= woven BY <2>1 DEF Counted
    <2>3. strays' <= woven + 1 /\ (suppressed = 0 => strays' = 0)
      BY <1>1, <1>6, <2>2 DEF Weave, Counted
    <2>4. (woven' = woven + 1 /\ ppc' = "weave") \/ (woven' = 0 /\ ppc' = "read")
      BY <1>6 DEF Weave, PollGoto
    <2>5. strays' \in Nat BY <1>1, <1>6 DEF Weave
    <2> QED BY <1>1, <1>2, <2>1, <2>3, <2>4, <2>5 DEF Counted, StraysBounded, Weaving
  <1> QED BY <1>3, <1>4, <1>5, <1>6 DEF PollStep

LEMMA OtherCounted ==
  ASSUME TypeOK, Counted, StraysBounded,
         Advance \/ Unlock \/ ClearActive \/ TimePasses \/ Restart \/ UNCHANGED vars
  PROVE  Counted' /\ StraysBounded'
  <1>1. CASE Restart
    <2>1. strays' = 0 /\ woven' = 0 BY <1>1 DEF Restart, PollGoto
    <2> QED BY <2>1 DEF Counted, StraysBounded
  <1>2. CASE Advance \/ Unlock \/ ClearActive \/ TimePasses \/ UNCHANGED vars
    <2>1. UNCHANGED <<strays, suppressed, ppc, woven>>
      BY <1>2 DEF Advance, Unlock, ClearActive, TimePasses, vars, director, poller
    <2> QED BY <2>1 DEF Counted, StraysBounded
  <1> QED BY <1>1, <1>2

-----------------------------------------------------------------------------
\* The invariant holds of every state of the specification.
THEOREM Invariance == Spec => []IInv
  <1>1. Init => IInv
    <2> SUFFICES ASSUME Init PROVE IInv OBVIOUS
    <2>1. TypeOK BY InitTypes
    <2>2. Alone BY DEF Init, Alone
    <2>3. LoadsApart BY DEF Init, LoadsApart
    <2>4. Counted /\ StraysBounded BY DEF Init, Counted, StraysBounded
    <2> QED BY <2>1, <2>2, <2>3, <2>4 DEF IInv
  <1>2. IInv /\ [Next]_vars => IInv'
    <2> SUFFICES ASSUME IInv, [Next]_vars PROVE IInv' OBVIOUS
    <2>1. TypeOK /\ Alone /\ LoadsApart /\ Counted /\ StraysBounded BY DEF IInv
    <2>2. TypeOK' BY <2>1, NextTypes
    <2>3. Alone' /\ LoadsApart'
      BY <2>1, FireContent, OtherContent DEF Next
    <2>4. Counted' /\ StraysBounded'
      BY <2>1, FireCounted, PollCounted, OtherCounted DEF Next
    <2> QED BY <2>2, <2>3, <2>4 DEF IInv
  <1> QED BY <1>1, <1>2, PTL DEF Spec

\* The types hold, among them: the fire that holds the lock is the one that
\* loads, and promos are suppressed as long as it does.
THEOREM ScheduleTypeCorrect == Spec => []TypeOK
  <1>1. IInv => TypeOK BY DEF IInv
  <1> QED BY <1>1, Invariance, PTL

\* Two fires never mix their items (fire.py:31).
THEOREM LoadsApartCorrect == Spec => []LoadsApart
  <1>1. IInv => LoadsApart BY DEF IInv
  <1> QED BY <1>1, Invariance, PTL

\* The poll loop puts the promos of one cycle at most into a load
\* (director.py:515).
THEOREM StraysBoundedCorrect == Spec => []StraysBounded
  <1>1. IInv => StraysBounded BY DEF IInv
  <1> QED BY <1>1, Invariance, PTL

\* Types and strays together (fire.py:27, director.py:515).
THEOREM LoadSafeCorrect == Spec => []LoadSafe
  BY ScheduleTypeCorrect, StraysBoundedCorrect, PTL DEF LoadSafe
=============================================================================
