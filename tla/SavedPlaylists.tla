--------------------------- MODULE SavedPlaylists ---------------------------
(***************************************************************************)
(* The items of one saved playlist (catalog/db/_playlists.py): replaced by *)
(* the editor and by the fetchurls job, appended to by the catalogue page  *)
(* and by the fetch job, and turned over by every completed play.  Each    *)
(* call is a row of statements on one shared connection, where anyone's    *)
(* commit commits everyone's half-done work, and ends in a commit.         *)
(***************************************************************************)
EXTENDS Integers, Sequences, SequencesExt, FiniteSets, FiniteSetsExt

CONSTANTS
  Medias,       \* what the lists hold
  Callers,      \* requests and jobs that may overlap
  MaxEdits,     \* bound: calls
  MaxRows       \* bound: items of a list

ASSUME PlaylistsAssumption == MaxEdits \in Nat /\ MaxRows \in Nat

VARIABLES
  entries,         \* the items as the connection sees them: [at, media], at is UNIQUE
  saved,         \* as last committed
  edit,         \* each caller's call and what it has left to write
  meant,        \* the list the completed calls make, one after the other
  safe,         \* no call overlapped another and no stranger committed one's half
  edits         \* calls begun

playlistVars == <<entries, saved, edit, meant, safe, edits>>

Entry == [at : Nat, media : Medias]
NoEdit == [pc |-> "idle", op |-> "none", given |-> <<>>, left |-> 0, todo |-> <<>>]
Lists == UNION {[1 .. n -> Medias] : n \in 0 .. 2}

PlaylistsType ==
  /\ \A t \in {entries, saved} : t \subseteq Entry /\ \A r, s \in t : r.at = s.at => r = s
  /\ meant \in Seq(Medias) /\ safe \in BOOLEAN /\ edits \in 0 .. MaxEdits
  /\ \A c \in Callers : /\ edit[c].todo \in Seq(Entry)
                          /\ edit[c].pc \in {"idle", "ids", "last", "rows", "items", "wipe", "insert"}

PlaylistsInit ==
  /\ entries = {} /\ saved = {} /\ edit = [c \in Callers |-> NoEdit]
  /\ meant = <<>> /\ safe = TRUE /\ edits = 0

\* get_saved_playlist_items: ORDER BY position
Ordered(t) == CHOOSE q \in [1 .. Cardinality(t) -> t] : \A i, j \in DOMAIN q : i < j => q[i].at < q[j].at
Listing(t) == [i \in DOMAIN Ordered(t) |-> Ordered(t)[i].media]
Numbered(ms, from) == [i \in DOMAIN ms |-> [at |-> from + i - 1, media |-> ms[i]]]
LastPos(t) == IF t = {} THEN -1 ELSE Max({r.at : r \in t})

Alone(c) == \A d \in Callers \ {c} : edit[d].pc = "idle"

\* rotate: the i-th goes to the end.
Sunk(ms, i) == SubSeq(ms, 1, i - 1) \o SubSeq(ms, i + 1, Len(ms)) \o <<ms[i]>>

\* append many: each once, and none that is there.
Fresh(ms, present) ==
  Listing({[at |-> i, media |-> ms[i]] : i \in {k \in DOMAIN ms : ms[k] \notin present /\ \A j \in 1 .. k - 1 : ms[j] # ms[k]}})
-----------------------------------------------------------------------------
\* A request or a job takes up the list.
BeginEdit(c) ==
  /\ edit[c].pc = "idle" /\ edits < MaxEdits /\ edits' = edits + 1
  /\ \E op \in {"replace", "append", "many", "rotate"}, ms \in Lists :
       /\ (op \in {"append", "rotate"} => Len(ms) = 1) /\ Cardinality(entries) + Len(ms) <= MaxRows
       /\ edit' = [edit EXCEPT ![c] =
            IF op = "replace" THEN [NoEdit EXCEPT !.pc = "wipe", !.op = op, !.given = ms, !.todo = Numbered(ms, 0)]
            ELSE [NoEdit EXCEPT !.op = op, !.given = ms,
                  !.pc = CASE op = "append" -> "last" [] op = "many" -> "ids" [] OTHER -> "rows"]]
  /\ safe' = (safe /\ Alone(c))
  /\ UNCHANGED <<entries, saved, meant>>

\* SELECT media_id: which are there already.
PresentIds(c) ==
  /\ edit[c].pc = "ids"
  /\ edit' = [edit EXCEPT ![c].pc = "last", ![c].given = Fresh(@, {r.media : r \in entries})]
  /\ UNCHANGED <<entries, saved, meant, safe, edits>>

\* SELECT MAX(position)
LastAt(c) ==
  /\ edit[c].pc = "last"
  /\ edit' = [edit EXCEPT ![c].pc = "insert", ![c].todo = Numbered(edit[c].given, LastPos(entries) + 1)]
  /\ UNCHANGED <<entries, saved, meant, safe, edits>>

\* The playlist is listed once for every item that is the one played.
Playlists(c) ==
  /\ edit[c].pc = "rows"
  /\ edit' = [edit EXCEPT ![c].pc = "items", ![c].left = Cardinality({r \in entries : r.media = edit[c].given[1]})]
  /\ UNCHANGED <<entries, saved, meant, safe, edits>>

\* Each time the items are read; at the bottom already, or gone, is skipped.
Items(c) ==
  LET e == edit[c] ms == Listing(entries) places == {i \in DOMAIN ms : ms[i] = e.given[1]} IN
  /\ e.pc = "items"
  /\ edit' = [edit EXCEPT ![c] =
       IF e.left = 0 THEN NoEdit
       ELSE IF places = {} \/ Len(ms) = Min(places) THEN [e EXCEPT !.left = e.left - 1]
       ELSE [e EXCEPT !.pc = "wipe", !.left = e.left - 1, !.todo = Numbered(Sunk(ms, Min(places)), 0)]]
  /\ UNCHANGED <<entries, saved, meant, safe, edits>>

Wipe(c) ==
  /\ edit[c].pc = "wipe" /\ edit' = [edit EXCEPT ![c].pc = "insert"] /\ entries' = {}
  /\ UNCHANGED <<saved, meant, safe, edits>>

\* A position that is taken ends the call; nothing is rolled back.
InsertItem(c) ==
  LET r == Head(edit[c].todo) IN
  /\ edit[c].pc = "insert" /\ edit[c].todo # <<>>
  /\ IF \E s \in entries : s.at = r.at
       THEN edit' = [edit EXCEPT ![c] = NoEdit] /\ entries' = entries
       ELSE edit' = [edit EXCEPT ![c].todo = Tail(@)] /\ entries' = entries \cup {r}
  /\ UNCHANGED <<saved, meant, safe, edits>>

\* The list as the caller meant it.
After(ms, e) ==
  CASE e.op = "replace" -> e.given
    [] e.op = "rotate" -> RemoveFirst(ms, e.given[1]) \o e.given
    [] OTHER -> ms \o e.given

\* The call is over; a rotation looks at its next row.
EditDone(e) == IF e.op = "rotate" THEN [e EXCEPT !.pc = "items"] ELSE NoEdit

\* Mutant: a list is committed item by item.
Commit_Early(c) ==
  /\ edit[c].pc = "insert" /\ saved' = entries
  /\ edit' = IF edit[c].todo = <<>> THEN [edit EXCEPT ![c] = EditDone(@)] ELSE edit
  /\ meant' = IF edit[c].todo = <<>> THEN After(meant, edit[c]) ELSE meant
  /\ UNCHANGED <<entries, safe, edits>>

\* Mutant: the call ends without a commit.
Commit_Forgotten(c) ==
  /\ edit[c].pc = "insert" /\ edit[c].todo = <<>>
  /\ edit' = [edit EXCEPT ![c] = EditDone(@)] /\ UNCHANGED <<entries, saved, meant, safe, edits>>

Commit(c) ==
  /\ edit[c].pc = "insert" /\ edit[c].todo = <<>>
  /\ saved' = entries /\ edit' = [edit EXCEPT ![c] = EditDone(@)] /\ meant' = After(meant, edit[c])
  /\ UNCHANGED <<entries, safe, edits>>

\* Any other writer of the queue database commits.
Stranger ==
  /\ saved # entries /\ saved' = entries /\ safe' = FALSE
  /\ UNCHANGED <<entries, edit, meant, edits>>

\* The process dies: what was not committed is gone.
Restart ==
  /\ entries' = saved /\ edit' = [c \in Callers |-> NoEdit]
  /\ UNCHANGED <<saved, meant, safe, edits>>

PlaylistsNext ==
  \/ \E c \in Callers : BeginEdit(c) \/ PresentIds(c) \/ LastAt(c) \/ Playlists(c) \/ Items(c) \/ Wipe(c) \/ InsertItem(c) \/ Commit(c)
  \/ Stranger \/ Restart

PlaylistsSpec == PlaylistsInit /\ [][PlaylistsNext]_playlistVars
-----------------------------------------------------------------------------
\* Nothing is lost from a list and nothing is in it twice that was not put
\* there twice: what is on disk is what the completed calls make one after the
\* other, through any crash, as long as they do not overlap.
ListMeant == safe => Listing(saved) = meant

\* And when nobody is at it, what the application sees is what is on disk.
ListSettled == (safe /\ \A c \in Callers : edit[c].pc = "idle") => entries = saved

\* A list is what its calls made of it, in memory and on disk.
ListsSafe == PlaylistsType /\ ListMeant /\ ListSettled
=============================================================================
