------------------------------- MODULE PayQueue -------------------------------
(***************************************************************************)
(* The paid queue: the insert handlers of queue/ordering.py, the handlers  *)
(* that refund and remove items (routes/admin_queue.py, queue/presence.py) *)
(* and the poll loop of queue/poller.py, over the in-memory QueueShadow,   *)
(* its table, the spend ledger of the economy service and the CyTube       *)
(* playlist.                                                               *)
(*                                                                         *)
(* One process stands for one call of a handler.  A step ends where the    *)
(* code awaits: a call to api-gate, a database statement, a lock.  A call  *)
(* to api-gate takes effect in one step together with what the handler     *)
(* does with its answer; Faults says which calls may go wrong.             *)
(***************************************************************************)
EXTENDS Integers, Sequences, FiniteSets, PlaylistOps, ShadowOps

CONSTANTS
  Procs,        \* calls of a handler
  Kind,         \* which handler each call runs
  Owner,        \* the user of each call
  MediaOf,      \* the media each inserting call adds
  Users, Media,
  InitMedia,    \* the media of the permanent items 1, 2, ... of the playlist
  NoProc,       \* a lock that nobody holds
  Faults,       \* the failures the environment may produce
  MaxRestarts   \* bound: how often the service may be restarted

PayKinds == {"queue", "playnext"}
InsertKinds == PayKinds \cup {"admin", "override"}
RefundKinds == {"remove", "clear", "presence", "override"}
FaultKinds == {"spend_refused", "add_refused", "move_refused", "refund_refused",
               "delete_refused", "clear_refused", "np_unavailable", "poll_failed",
               "lost_answer"}

Payers == {p \in Procs : Kind[p] \in PayKinds}
Uid == Nat \ {0}

ASSUME PayQueueAssumption ==
  /\ Kind \in [Procs -> InsertKinds \cup RefundKinds]
  /\ Owner \in [Procs -> Users]
  /\ MediaOf \in [Procs -> Media]
  /\ InitMedia \in Seq(Media)
  /\ NoUser \notin Users /\ NoUid \notin Uid
  /\ NoProc \notin Procs \cup {"poller"} /\ "poller" \notin Procs
  /\ Faults \subseteq FaultKinds
  /\ MaxRestarts \in Nat

VARIABLES
  playlist, current, media, nextUid,     \* CyTube
  ledger,                                \* the economy's record of each payment
  rows, spends, restarts,                \* tables queue_shadow and spend_requests
  items, npCache,                        \* QueueShadow
  queueLock, shadowLock,                 \* ordering._queue_lock, QueueShadow._lock
  pc, tgt, uid, slot, todo, req,         \* locals of each call
  ppc, snap,                             \* the poll loop
  strays                                 \* history: playlist items webqueue let go of

cytube == <<playlist, current, media, nextUid>>
tables == <<rows, spends, restarts>>
shadow == <<items, npCache, shadowLock>>
locals == <<tgt, uid, slot, todo, req>>
poller == <<ppc, snap, strays>>
vars == <<cytube, ledger, tables, shadow, queueLock, pc, locals, poller>>

Ended == {"done", "failed", "raised"}
PC == Ended \cup {"idle", "list", "spend", "anchor", "add", "move", "save", "insert", "row",
                  "undo", "unadd", "lookup", "refund", "mark", "delete", "forget", "unrow",
                  "clear"}
HasUid == {"move", "save", "insert", "row", "unadd", "lookup", "refund", "mark", "delete",
           "forget", "unrow"}

Entry == [uid : Uid, at : Nat, pos : Nat, by : Users \cup {NoUser}]
Record == [uid : Uid, pos : Nat, by : Users \cup {NoUser}]

CytubeType ==
  /\ nextUid \in Uid /\ media \in [1 .. nextUid - 1 -> Media]
  /\ playlist \in Seq(1 .. nextUid - 1) /\ current \in 1 .. nextUid - 1 \cup {NoUid}

TablesType ==
  /\ rows \subseteq Record /\ IsFiniteSet(rows)
  /\ spends \subseteq [req : Payers, uid : Uid, refunded : BOOLEAN]
  /\ restarts \in Nat

ShadowType ==
  /\ items \subseteq Entry /\ IsFiniteSet(items)
  /\ npCache \in Media \cup {NoUid}
  /\ shadowLock \in Procs \cup {NoProc, "poller"}

LocalsType ==
  /\ tgt \in [Procs -> Uid \cup {NoUid}] /\ uid \in [Procs -> Uid \cup {NoUid}]
  /\ slot \in [Procs -> Nat]
  /\ todo \in [Procs -> SUBSET [uid : Uid, pos : Nat]]
  /\ req \in [Procs -> Procs]

ControlType ==
  /\ queueLock \in Procs \cup {NoProc} /\ pc \in [Procs -> PC]
  /\ \A p \in Procs : pc[p] \in HasUid => uid[p] # NoUid
  /\ \A p \in Procs : pc[p] \in {"spend", "save", "undo"} => p \in Payers

\* Every variable has its type, a call that acts on an item knows its uid, and
\* only calls that pay record a spend.
TypeOK ==
  /\ CytubeType /\ TablesType /\ ShadowType /\ LocalsType /\ ControlType
  /\ ledger \in [Procs -> {"none", "charged", "refunded"}]
  /\ ppc \in {"idle", "fetched", "upsert", "commit"} /\ snap \in Seq(Uid) /\ strays \subseteq Uid

Init ==
  /\ playlist = [i \in 1 .. Len(InitMedia) |-> i]
  /\ current = IF InitMedia = <<>> THEN NoUid ELSE 1
  /\ media = [i \in 1 .. Len(InitMedia) |-> InitMedia[i]]
  /\ nextUid = Len(InitMedia) + 1
  /\ ledger = [p \in Procs |-> "none"]
  /\ rows = {[uid |-> i, pos |-> i - 1, by |-> NoUser] : i \in 1 .. Len(InitMedia)}
  /\ spends = {}
  /\ restarts = 0
  /\ items = Loaded(rows)
  /\ npCache = NoUid
  /\ queueLock = NoProc /\ shadowLock = NoProc
  /\ pc = [p \in Procs |-> "idle"]
  /\ tgt = [p \in Procs |-> NoUid] /\ uid = [p \in Procs |-> NoUid]
  /\ slot = [p \in Procs |-> 0] /\ todo = [p \in Procs |-> {}]
  /\ req = [p \in Procs |-> p]
  /\ ppc = "idle" /\ snap = <<>> /\ strays = {}

-----------------------------------------------------------------------------
May(fault) == fault \in Faults

Goto(p, label) == pc' = [pc EXCEPT ![p] = label]

\* Mutant of End: the lock is kept.
End_LockKept(p, label) == Goto(p, label) /\ UNCHANGED queueLock

\* Leaving `async with _queue_lock`, by return or by an exception.
End(p, label) ==
  /\ Goto(p, label)
  /\ queueLock' = IF queueLock = p THEN NoProc ELSE queueLock

\* On to the next call, the lock kept if it is held.
Stay(p, label) == Goto(p, label) /\ UNCHANGED queueLock

\* _now_playing_uid: fresh media, or the one of the last poll when the call
\* fails or reports nothing, looked up in the shadow.
NowPlayingUids ==
  LET fresh == IF current = NoUid THEN npCache ELSE media[current]
      seen  == {fresh} \cup (IF May("np_unavailable") THEN {npCache} ELSE {})
  IN  {IF m = NoUid THEN NoUid ELSE UidOfMedia(items, media, m) : m \in seen}

-----------------------------------------------------------------------------
(***************************************************************************)
(* The insert handlers.                                                    *)
(***************************************************************************)
Start(p) ==
  /\ pc[p] = "idle"
  /\ IF Kind[p] \in InsertKinds
     THEN queueLock = NoProc /\ queueLock' = p
     ELSE UNCHANGED queueLock
  /\ Goto(p, IF Kind[p] \in PayKinds THEN "spend"
             ELSE IF Kind[p] = "admin" THEN "anchor" ELSE "list")
  /\ UNCHANGED <<cytube, ledger, tables, shadow, locals, poller>>

Spend(p) ==
  /\ pc[p] = "spend"
  /\ \/ ledger' = [ledger EXCEPT ![p] = "charged"] /\ Stay(p, "anchor")
     \/ May("spend_refused") /\ End(p, "failed") /\ UNCHANGED ledger
     \/ /\ May("lost_answer") /\ End(p, "raised")
        /\ ledger' \in {ledger, [ledger EXCEPT ![p] = "charged"]}
  /\ UNCHANGED <<cytube, tables, shadow, locals, poller>>

\* After the last paid item of the shadow, else after the item now playing.
Anchors(p) ==
  IF Kind[p] \in {"queue", "admin"} /\ LastPayUid(items) # NoUid
  THEN {LastPayUid(items)}
  ELSE NowPlayingUids

Anchor(p) ==
  /\ pc[p] = "anchor"
  /\ \E t \in Anchors(p) :
       /\ tgt' = [tgt EXCEPT ![p] = t]
       /\ uid' = [uid EXCEPT ![p] = NoUid]
       /\ IF t # NoUid THEN Stay(p, "add")
          ELSE IF Kind[p] \in PayKinds THEN Stay(p, "undo")
          ELSE End(p, "failed")
  /\ UNCHANGED <<cytube, ledger, tables, shadow, slot, todo, req, poller>>

\* playlist_add(position="end"); an idle channel starts to play what it gets.
Appended(p) ==
  /\ playlist' = Append(playlist, nextUid)
  /\ current' = IF current = NoUid THEN nextUid ELSE current
  /\ media' = [u \in 1 .. nextUid |-> IF u = nextUid THEN MediaOf[p] ELSE media[u]]
  /\ nextUid' = nextUid + 1

Add(p) ==
  /\ pc[p] = "add"
  /\ \/ Appended(p) /\ uid' = [uid EXCEPT ![p] = nextUid] /\ Stay(p, "move")
     \/ /\ May("add_refused") /\ UNCHANGED <<cytube, uid>>
        /\ IF Kind[p] \in PayKinds THEN Stay(p, "undo") ELSE End(p, "failed")
     \/ /\ May("lost_answer") /\ End(p, "raised") /\ UNCHANGED uid
        /\ Appended(p) \/ UNCHANGED cytube
  /\ UNCHANGED <<ledger, tables, shadow, tgt, slot, todo, req, poller>>

Move(p) ==
  /\ pc[p] = "move"
  /\ \/ /\ playlist' = MovedAfter(playlist, uid[p], tgt[p])
        /\ Stay(p, IF Kind[p] \in PayKinds THEN "save" ELSE "insert")
     \/ /\ May("move_refused") /\ UNCHANGED playlist
        /\ Stay(p, IF Kind[p] \in PayKinds THEN "undo" ELSE "unadd")
     \/ /\ May("lost_answer") /\ End(p, "raised")
        /\ playlist' \in {playlist, MovedAfter(playlist, uid[p], tgt[p])}
  /\ UNCHANGED <<current, media, nextUid, ledger, tables, shadow, locals, poller>>

\* Mutant of Save: the spend is not recorded.
Save_Skipped(p) ==
  /\ pc[p] = "save"
  /\ Stay(p, "insert")
  /\ UNCHANGED <<cytube, ledger, tables, shadow, locals, poller>>

Save(p) ==
  /\ pc[p] = "save"
  /\ spends' = spends \cup {[req |-> p, uid |-> uid[p], refunded |-> FALSE]}
  /\ Stay(p, "insert")
  /\ UNCHANGED <<cytube, ledger, rows, restarts, shadow, locals, poller>>

PaidBy(p) == IF Kind[p] \in PayKinds THEN Owner[p] ELSE NoUser

\* QueueShadow.insert_at up to its database statement.
Insert(p) ==
  /\ pc[p] = "insert"
  /\ shadowLock = NoProc /\ shadowLock' = p
  /\ LET i == IndexAfter(items, tgt[p])
     IN  /\ slot' = [slot EXCEPT ![p] = i]
         /\ items' = ShadowInsert(items, uid[p], PaidBy(p), i)
  /\ Stay(p, "row")
  /\ UNCHANGED <<cytube, ledger, tables, npCache, tgt, uid, todo, req, poller>>

\* Mutant of Row: nothing is written.
Row_NotWritten(p) ==
  /\ pc[p] = "row"
  /\ shadowLock' = NoProc
  /\ End(p, "done")
  /\ UNCHANGED <<cytube, ledger, tables, items, npCache, locals, poller>>

\* INSERT OR REPLACE of the one new row, then the history row and the answer.
Row(p) ==
  /\ pc[p] = "row"
  /\ rows' = {r \in rows : r.uid # uid[p]}
               \cup {[uid |-> uid[p], pos |-> slot[p], by |-> PaidBy(p)]}
  /\ shadowLock' = NoProc
  /\ End(p, "done")
  /\ UNCHANGED <<cytube, ledger, spends, restarts, items, npCache, locals, poller>>

\* Mutant of Undo: the item is left on the playlist.
Undo_ItemLeft(p) ==
  /\ pc[p] = "undo"
  /\ \/ ledger' = [ledger EXCEPT ![p] = "refunded"]
     \/ May("refund_refused") /\ UNCHANGED ledger
  /\ End(p, "failed")
  /\ UNCHANGED <<cytube, tables, shadow, locals, poller>>

\* Compensation: the refund is attempted once and its failure is swallowed.
Undo(p) ==
  /\ pc[p] = "undo"
  /\ \/ ledger' = [ledger EXCEPT ![p] = "refunded"]
     \/ May("refund_refused") /\ UNCHANGED ledger
  /\ IF uid[p] = NoUid THEN End(p, "failed") ELSE Stay(p, "unadd")
  /\ UNCHANGED <<cytube, tables, shadow, locals, poller>>

\* What the channel does when u leaves the playlist.
Deleted(u) ==
  /\ playlist' = Without(playlist, u)
  /\ current' = IF current # u \/ ~On(playlist, u) THEN current
                ELSE IF playlist' = <<>> THEN NoUid ELSE Following(playlist, u)
  /\ UNCHANGED <<media, nextUid>>

Unadd(p) ==
  /\ pc[p] = "unadd"
  /\ Deleted(uid[p]) \/ (May("delete_refused") /\ UNCHANGED cytube)
  /\ End(p, "failed")
  /\ UNCHANGED <<ledger, tables, shadow, locals, poller>>

-----------------------------------------------------------------------------
(***************************************************************************)
(* The handlers that refund: DELETE /admin/queue/{uid} ("remove"),         *)
(* POST /admin/queue/clear, one cycle of the presence monitor that finds   *)
(* some owners gone past their grace, and the playnext_refund mode of      *)
(* POST /admin/queue/add ("override"), which goes on to insert.            *)
(***************************************************************************)
AfterLast(p) ==
  CASE Kind[p] = "clear"    -> "clear"
    [] Kind[p] = "override" -> "anchor"
    [] OTHER                -> "done"

\* Take the next listed item in position order, or leave the loop.
TakeNext(p, list) ==
  \/ /\ list = {}
     /\ Stay(p, AfterLast(p))
     /\ UNCHANGED <<uid, todo>>
  \/ \E e \in list :
       /\ \A f \in list : e.pos <= f.pos
       /\ uid' = [uid EXCEPT ![p] = e.uid]
       /\ todo' = [todo EXCEPT ![p] = list \ {e}]
       /\ Stay(p, "lookup")

PaidRows == {[uid |-> r.uid, pos |-> r.pos] : r \in {r \in rows : Paid(r)}}

\* Paid shadow items of the owners `gone`, the one now playing left out.
PaidItems(gone, np) ==
  {[uid |-> e.uid, pos |-> e.at] : e \in {e \in items : e.by \in gone /\ e.uid # np}}

List(p) ==
  /\ pc[p] = "list"
  /\ \/ Kind[p] = "remove" /\ \E u \in 1 .. nextUid - 1 : TakeNext(p, {[uid |-> u, pos |-> 0]})
     \/ Kind[p] = "clear" /\ TakeNext(p, PaidRows)
     \/ /\ Kind[p] = "override"
        /\ \E np \in NowPlayingUids : TakeNext(p, {e \in PaidRows : e.uid # np})
     \/ /\ Kind[p] = "presence"
        /\ \E np \in NowPlayingUids, gone \in SUBSET Users : TakeNext(p, PaidItems(gone, np))
  /\ UNCHANGED <<cytube, ledger, tables, shadow, tgt, slot, req, poller>>

\* refund_item returned False or, for the override, raised.
NotRefunded(p) ==
  IF Kind[p] \in {"remove", "override"}
  THEN Stay(p, "delete") /\ UNCHANGED <<uid, todo>>
  ELSE TakeNext(p, todo[p])

Lookup(p) ==
  /\ pc[p] = "lookup"
  /\ LET open == {s \in spends : s.uid = uid[p] /\ ~s.refunded}
     IN  \/ \E s \in open :
              /\ req' = [req EXCEPT ![p] = s.req]
              /\ Stay(p, "refund") /\ UNCHANGED <<uid, todo>>
         \/ open = {} /\ NotRefunded(p) /\ UNCHANGED req
  /\ UNCHANGED <<cytube, ledger, tables, shadow, tgt, slot, poller>>

\* Only the override catches an exception of refund_item.
Raise(p) ==
  /\ IF Kind[p] = "override" THEN Stay(p, "delete") ELSE End(p, "raised")
  /\ UNCHANGED <<uid, todo>>

\* The economy refunds a request once, whoever asks and however often.
Refund(p) ==
  /\ pc[p] = "refund"
  /\ LET returned == [ledger EXCEPT ![req[p]] = "refunded"]
     IN  \/ ledger' = returned /\ Stay(p, "mark") /\ UNCHANGED <<uid, todo>>
         \/ May("refund_refused") /\ UNCHANGED ledger /\ (NotRefunded(p) \/ Raise(p))
         \/ May("lost_answer") /\ ledger' \in {ledger, returned} /\ Raise(p)
  /\ UNCHANGED <<cytube, tables, shadow, tgt, slot, req, poller>>

\* Mutants of Mark: the row stays unrefunded; the item stays on the playlist.
Mark_Unmarked(p) ==
  /\ pc[p] = "mark"
  /\ IF Kind[p] = "clear" THEN TakeNext(p, todo[p])
     ELSE Stay(p, "delete") /\ UNCHANGED <<uid, todo>>
  /\ UNCHANGED <<cytube, ledger, tables, shadow, tgt, slot, req, poller>>

Mark_NoDelete(p) ==
  /\ pc[p] = "mark"
  /\ spends' = {IF s.req = req[p] THEN [s EXCEPT !.refunded = TRUE] ELSE s : s \in spends}
  /\ TakeNext(p, todo[p])
  /\ UNCHANGED <<cytube, ledger, rows, restarts, shadow, tgt, slot, req, poller>>

Mark(p) ==
  /\ pc[p] = "mark"
  /\ spends' = {IF s.req = req[p] THEN [s EXCEPT !.refunded = TRUE] ELSE s : s \in spends}
  /\ IF Kind[p] = "clear" THEN TakeNext(p, todo[p])
     ELSE Stay(p, "delete") /\ UNCHANGED <<uid, todo>>
  /\ UNCHANGED <<cytube, ledger, rows, restarts, shadow, tgt, slot, req, poller>>

Delete(p) ==
  /\ pc[p] = "delete"
  /\ \/ Deleted(uid[p]) /\ Stay(p, "forget") /\ UNCHANGED strays
     \/ /\ May("delete_refused") /\ UNCHANGED cytube
        /\ IF Kind[p] = "remove" THEN End(p, "raised") /\ UNCHANGED strays
           ELSE Stay(p, "forget") /\ strays' = strays \cup {uid[p]}
  /\ UNCHANGED <<ledger, tables, shadow, locals, ppc, snap>>

\* QueueShadow.remove up to its database statement, then the rest.
Forget(p) ==
  /\ pc[p] = "forget"
  /\ shadowLock = NoProc /\ shadowLock' = p
  /\ items' = ShadowRemove(items, uid[p])
  /\ Stay(p, "unrow")
  /\ UNCHANGED <<cytube, ledger, tables, npCache, locals, poller>>

Unrow(p) ==
  /\ pc[p] = "unrow"
  /\ rows' = {r \in rows : r.uid # uid[p]}
  /\ shadowLock' = NoProc
  /\ TakeNext(p, todo[p])
  /\ UNCHANGED <<cytube, ledger, spends, restarts, items, npCache, tgt, slot, req, poller>>

\* The playlist only: the shadow follows with the next poll.
Clear(p) ==
  /\ pc[p] = "clear"
  /\ \/ playlist' = <<>> /\ current' = NoUid /\ End(p, "done")
     \/ May("clear_refused") /\ UNCHANGED <<playlist, current>> /\ End(p, "raised")
  /\ UNCHANGED <<media, nextUid, ledger, tables, shadow, locals, poller>>

-----------------------------------------------------------------------------
(***************************************************************************)
(* The poll loop.  apply_poll_result holds the shadow lock throughout, but *)
(* the playlist it applies was read before the lock was taken.             *)
(***************************************************************************)
PollRead ==
  /\ ppc = "idle" /\ ppc' = "fetched"
  /\ snap' = playlist
  /\ UNCHANGED <<cytube, ledger, tables, shadow, queueLock, pc, locals, strays>>

PollError ==
  /\ May("poll_failed")
  /\ ppc = "fetched" /\ ppc' = "idle"
  /\ snap' = <<>>
  /\ UNCHANGED <<cytube, ledger, tables, shadow, queueLock, pc, locals, strays>>

\* get_now_playing, the lock, and the rows of vanished items.
PollPrune ==
  /\ ppc = "fetched" /\ ppc' = "upsert"
  /\ shadowLock = NoProc /\ shadowLock' = "poller"
  /\ npCache' = IF current = NoUid THEN NoUid ELSE media[current]
  /\ rows' = {r \in rows : Known(items, r.uid) => On(snap, r.uid)}
  /\ strays' = strays \cup {e.uid : e \in {e \in items : On(playlist, e.uid) /\ ~On(snap, e.uid)}}
  /\ UNCHANGED <<cytube, ledger, spends, restarts, items, queueLock, pc, locals, snap>>

PollUpsert ==
  /\ ppc = "upsert" /\ ppc' = "commit"
  /\ rows' = ReconciledRows(rows, items, snap)
  /\ UNCHANGED <<cytube, ledger, spends, restarts, shadow, queueLock, pc, locals, snap, strays>>

\* Mutant of PollCommit: the list is kept when the same uids were polled.
PollCommit_OrderKept ==
  /\ ppc = "commit" /\ ppc' = "idle"
  /\ items' = IF {e.uid : e \in items} = {snap[i] : i \in DOMAIN snap} THEN items
              ELSE Reconciled(items, snap)
  /\ snap' = <<>>
  /\ shadowLock' = NoProc
  /\ UNCHANGED <<cytube, ledger, tables, npCache, queueLock, pc, locals, strays>>

PollCommit ==
  /\ ppc = "commit" /\ ppc' = "idle"
  /\ items' = Reconciled(items, snap)
  /\ snap' = <<>>
  /\ shadowLock' = NoProc
  /\ UNCHANGED <<cytube, ledger, tables, npCache, queueLock, pc, locals, strays>>

-----------------------------------------------------------------------------
(***************************************************************************)
(* Playback, and the service stopping and starting again.                  *)
(***************************************************************************)
Permanent(u) == u <= Len(InitMedia)

\* The current item ends, or an admin jumps to u: a temporary item is gone
\* once it has played, and webqueue adds every item as a temporary one.
Play(u) ==
  /\ current # NoUid /\ On(playlist, u) /\ u # current
  /\ current' = u
  /\ playlist' = IF Permanent(current) THEN playlist ELSE Without(playlist, current)
  /\ UNCHANGED <<media, nextUid, ledger, tables, shadow, queueLock, pc, locals, poller>>

\* Memory and the calls in flight are lost; the shadow is loaded from its
\* table (load_from_db).
Restart ==
  /\ restarts < MaxRestarts /\ restarts' = restarts + 1
  /\ items' = Loaded(rows) /\ npCache' = NoUid
  /\ queueLock' = NoProc /\ shadowLock' = NoProc
  /\ pc' = [p \in Procs |-> IF pc[p] \in Ended \cup {"idle"} THEN pc[p] ELSE "raised"]
  /\ ppc' = "idle" /\ snap' = <<>>
  /\ UNCHANGED <<cytube, ledger, rows, spends, locals, strays>>

-----------------------------------------------------------------------------
InsertStep(p) ==
  Start(p) \/ Spend(p) \/ Anchor(p) \/ Add(p) \/ Move(p) \/ Save(p) \/ Insert(p) \/ Row(p)
    \/ Undo(p) \/ Unadd(p)

RefundStep(p) ==
  List(p) \/ Lookup(p) \/ Refund(p) \/ Mark(p) \/ Delete(p) \/ Forget(p) \/ Unrow(p) \/ Clear(p)

PollStep == PollRead \/ PollError \/ PollPrune \/ PollUpsert \/ PollCommit

Next ==
  \/ \E p \in Procs : InsertStep(p) \/ RefundStep(p)
  \/ PollStep
  \/ \E u \in 1 .. nextUid - 1 : Play(u)
  \/ Restart

Spec == Init /\ [][Next]_vars

-----------------------------------------------------------------------------
(***************************************************************************)
(* Fairness.  The event loop runs every task that is ready, api-gate calls *)
(* and statements end (in an answer or an exception), and asyncio.Lock     *)
(* serves its waiters in order, hence strong fairness where a lock is      *)
(* taken.  A call is made, at a time of the client's choice; nothing       *)
(* obliges an item to end or the service to be restarted.                  *)
(***************************************************************************)
Fairness ==
  /\ \A p \in Procs : /\ WF_vars(InsertStep(p) \/ RefundStep(p))
                      /\ SF_vars(Start(p)) /\ SF_vars(Insert(p)) /\ SF_vars(Forget(p))
  /\ WF_vars(PollRead) /\ SF_vars(PollPrune) /\ WF_vars(PollUpsert) /\ WF_vars(PollCommit)

FairSpec == Spec /\ Fairness

-----------------------------------------------------------------------------
(***************************************************************************)
(* Properties.                                                             *)
(***************************************************************************)
\* A paid mark, in memory or in the table, always has a spend row of the same
\* uid and user behind it: whoever removes the item finds what to refund.
Backed(e) == Paid(e) => \E s \in spends : s.uid = e.uid /\ Owner[s.req] = e.by
PaidBacked == \A e \in items \cup rows : Backed(e)

\* The types, and what every paid mark must have behind it.
PaidSafe == TypeOK /\ PaidBacked

\* While nobody is inside a shadow operation the table mirrors the shadow, and
\* a restart would find every paid mark that memory has.
MirrorDurable ==
  shadowLock = NoProc =>
    /\ {e.uid : e \in items} = {r.uid : r \in rows}
    /\ \A e \in items : Paid(e) => \E r \in rows : r.uid = e.uid /\ r.by = e.by

\* A spend row marked refunded was refunded by the economy, and a recorded
\* spend the economy refunded is marked, or a handler is about to mark it;
\* only a lost answer or a restart leaves it unmarked.
RefundRecorded ==
  \A s \in spends :
    /\ s.refunded => ledger[s.req] = "refunded"
    /\ ledger[s.req] = "refunded" /\ ~s.refunded =>
         \/ \E q \in Procs : pc[q] = "mark" /\ req[q] = s.req
         \/ restarts > 0 \/ May("lost_answer")

\* An error answer costs nothing and leaves nothing on the playlist, unless
\* the call that compensates is itself refused.
ErrorIsFree ==
  \A p \in Payers : pc[p] = "failed" =>
    /\ ledger[p] = "charged" => May("refund_refused")
    /\ uid[p] # NoUid /\ On(playlist, uid[p]) => May("delete_refused")

\* Nobody plays for free: a refunded item that is still on the playlist is one
\* that a handler still running is about to delete.
Removing(q, u) ==
  \/ Kind[q] = "clear" /\ pc[q] \notin Ended
  \/ pc[q] \in {"mark", "delete", "unadd"} /\ uid[q] = u

NoFreeRide ==
  \A s \in spends :
    s.refunded /\ On(playlist, s.uid) => \E q \in Procs : Removing(q, s.uid)

\* An item whose purchase was answered with success has the one row that says
\* so for as long as it is on the playlist, whatever polls, other calls, failures
\* and a restart come between.  Webqueue lets go of it in two ways only: a poll
\* applies a list read before the item was added, so that the next one takes it
\* for somebody else's, or a handler forgets it after a delete that was refused.
PaidMarkStays ==
  \A p \in Payers : pc[p] = "done" /\ On(playlist, uid[p]) /\ uid[p] \notin strays =>
    {r.by : r \in {r \in rows : r.uid = uid[p]}} = {Owner[p]}

\* The life of each request's money refines PaidSpend.
Money(p) ==
  IF ledger[p] = "charged" /\ \E s \in spends : s.req = p THEN "recorded" ELSE ledger[p]
Answer(p) ==
  CASE pc[p] = "done" -> "ok" [] pc[p] = "failed" -> "error"
    [] pc[p] = "raised" -> "unknown" [] OTHER -> "open"

Promise ==
  INSTANCE PaidSpend WITH
    Requests <- Payers, RefundMayFail <- May("refund_refused"),
    money <- [p \in Payers |-> Money(p)], answer <- [p \in Payers |-> Answer(p)]
MoneyKept == Promise!Spec

\* Every call is served and answered, although the calls compete for the queue
\* lock and polls compete with them for the shadow lock.
Answered == \A p \in Procs : <>(pc[p] \in Ended)

\* Once the calls and the playlist are at rest the shadow settles on the
\* playlist, whatever a stale poll did to it.
Mirrors ==
  /\ Cardinality(items) = Len(playlist)
  /\ \A e \in items : e.at < Len(playlist) /\ playlist[e.at + 1] = e.uid
ShadowConverges == <>[]Mirrors
=============================================================================
