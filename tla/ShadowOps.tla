------------------------------ MODULE ShadowOps ------------------------------
(***************************************************************************)
(* The list operations of QueueShadow (queue/shadow.py) and the placement  *)
(* helpers of queue/ordering.py, as operators.                             *)
(*                                                                         *)
(* The code keeps _items as a Python list and repeats each index in        *)
(* item["position"].  Here the list is the set of its entries, and an      *)
(* entry carries its index `at`, the stored position `pos`, its uid, and   *)
(* `by`: paid_by when is_pay holds, NoUser when it does not.  A uid may    *)
(* occur twice in the code's list, so it may in the set.                   *)
(***************************************************************************)
EXTENDS Integers, FiniteSets

CONSTANTS NoUser,  \* "is_pay is false"
          NoUid    \* Python's None where a playlist uid is expected

Paid(e) == e.by # NoUser

Placed(e, i) == [e EXCEPT !.at = i, !.pos = i]

\* self._items.insert(i, item), then every position is rewritten.
ShadowInsert(list, u, who, i) ==
  {Placed(e, IF e.at >= i THEN e.at + 1 ELSE e.at) : e \in list}
    \cup {[uid |-> u, at |-> i, pos |-> i, by |-> who]}

\* Every entry of the uid goes; the others close ranks.
ShadowRemove(list, u) ==
  LET kept == {e \in list : e.uid # u}
  IN  {Placed(e, Cardinality({f \in kept : f.at < e.at})) : e \in kept}

Known(list, u) == \E e \in list : e.uid = u

\* local_map is filled in list order, so the last entry of a uid wins.
LocalEntry(list, u) ==
  CHOOSE e \in list : e.uid = u /\ \A f \in list : f.uid = u => f.at <= e.at

\* Mutant of Reconciled: metadata is kept by position instead of by uid.
Reconciled_ByPosition(list, polled) ==
  {[uid |-> polled[i], at |-> i - 1, pos |-> i - 1,
    by |-> IF \E e \in list : e.at = i - 1
           THEN (CHOOSE e \in list : e.at = i - 1).by ELSE NoUser]
   : i \in DOMAIN polled}

\* The list a poll rebuilds: playlist order, metadata kept for known uids.
Reconciled(list, polled) ==
  {[uid |-> polled[i], at |-> i - 1, pos |-> i - 1,
    by |-> IF Known(list, polled[i]) THEN LocalEntry(list, polled[i]).by ELSE NoUser]
   : i \in DOMAIN polled}

\* Mutant of ReconciledRows: every polled item is upserted as an unpaid one.
ReconciledRows_AllFresh(rows, list, polled) ==
  {[uid |-> polled[i], pos |-> i - 1, by |-> NoUser] : i \in DOMAIN polled}

\* The mirror table after a poll: a position is written only when the one in
\* memory differs from the polled one; an unknown uid becomes an unpaid row.
ReconciledRows(rows, list, polled) ==
  LET fresh == {i \in DOMAIN polled : ~Known(list, polled[i])}
      moved == {i \in DOMAIN polled \ fresh : LocalEntry(list, polled[i]).pos # i - 1}
      At(r) == {i \in moved : polled[i] = r.uid}
  IN  {IF At(r) = {} THEN r ELSE [r EXCEPT !.pos = (CHOOSE i \in At(r) : TRUE) - 1] :
         r \in {r \in rows : \A i \in fresh : polled[i] # r.uid}}
        \cup {[uid |-> polled[i], pos |-> i - 1, by |-> NoUser] : i \in fresh}

\* SELECT ... ORDER BY position (uid is the table's integer key).
Loaded(rows) ==
  {[uid |-> r.uid, pos |-> r.pos, by |-> r.by,
    at |-> Cardinality({q \in rows : q.pos < r.pos \/ (q.pos = r.pos /\ q.uid < r.uid)})]
   : r \in rows}

LastPayUid(list) ==
  LET paid == {e \in list : Paid(e)}
  IN  IF paid = {} THEN NoUid
      ELSE (CHOOSE e \in paid : \A f \in paid : f.at <= e.at).uid

\* The first entry that satisfies a test is what the code's loops return.
First(list) == CHOOSE e \in list : \A f \in list : e.at <= f.at

\* Mutant of IndexAfter: -1 for a target that is not on the list.
IndexAfter_MinusOne(list, u) ==
  LET hits == {e \in list : e.uid = u} IN IF hits = {} THEN -1 ELSE First(hits).at + 1

IndexAfter(list, u) ==
  LET hits == {e \in list : e.uid = u}
  IN  IF hits = {} THEN Cardinality(list) ELSE First(hits).at + 1

\* changeMedia carries no uid: the uid is recovered by comparing the media.
UidOfMedia(list, media, m) ==
  LET hits == {e \in list : media[e.uid] = m}
  IN  IF hits = {} THEN NoUid ELSE First(hits).uid
=============================================================================
