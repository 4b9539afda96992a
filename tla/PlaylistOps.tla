----------------------------- MODULE PlaylistOps -----------------------------
(***************************************************************************)
(* The CyTube playlist, reached only through api-gate.  It is not code of  *)
(* this repository: the operators say what the handlers in queue/,         *)
(* playlists/ and promos/ rely on when they call playlist_add(end),        *)
(* playlist_move(uid, after), playlist_delete(uid) and when an item ends.  *)
(* A playlist is a sequence of uids; a uid occurs at most once.            *)
(***************************************************************************)
EXTENDS Integers, Sequences, SequencesExt

On(list, u) == \E i \in DOMAIN list : list[i] = u

IndexOf(list, u) == CHOOSE i \in DOMAIN list : list[i] = u

Without(list, u) == IF On(list, u) THEN RemoveAt(list, IndexOf(list, u)) ELSE list

\* Move u to just behind t; nothing moves when either is not on the list.
MovedAfter(list, u, t) ==
  IF u # t /\ On(list, u) /\ On(list, t)
  THEN LET rest == Without(list, u)
       IN  InsertAt(rest, IndexOf(rest, t) + 1, u)
  ELSE list

\* The item played after u: the playlist loops.
Following(list, u) == list[(IndexOf(list, u) % Len(list)) + 1]
=============================================================================
