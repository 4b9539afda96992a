----------------------------- MODULE CatalogSync -----------------------------
(***************************************************************************)
(* The catalogue is a mirror of MediaCMS.  catalog/sync.py pages through   *)
(* the library, writes each item's row, tags and cover, and at the end     *)
(* deletes the rows it did not meet; routes/admin_catalog.py hides, shows, *)
(* edits and deletes items in both meanwhile, the mirror first or last.    *)
(* MediaCMS is external: a list with the newest first, read by position.   *)
(***************************************************************************)
EXTENDS Integers, Sequences, SequencesExt, FiniteSets

CONSTANTS
  Tokens,       \* friendly tokens, each used once
  FirstLists,   \* what MediaCMS has when all agree
  Reserved,     \* tokens in an immutable or a promo playlist
  PageSize,     \* items of a page (50)
  Least,        \* counted rows from which a shrunken listing is distrusted (100)
  MaxSyncs, MaxActs      \* bounds: syncs, acts of admins and of MediaCMS's users

ASSUME CatalogSyncAssumption ==
  /\ IsFiniteSet(Tokens) /\ \A l \in FirstLists : l \in Seq(Tokens) /\ IsInjective(l)
  /\ Reserved \subseteq Tokens /\ PageSize \in Nat \ {0} /\ Least \in Nat /\ MaxSyncs \in Nat \ {0} /\ MaxActs \in Nat

VARIABLES
  library,      \* MediaCMS's list of tokens
  entry,        \* MediaCMS's [title, hidden] of each token
  mirror,       \* catalogue rows: [title, hidden, at], at the sync that wrote synced_at
  sync,         \* the sync that runs
  admin,        \* the admin's request that runs
  acts,         \* acts so far
  promised,     \* tokens hidden for good: both writes done, no sync beside them
  agreed        \* a sync ended well and nothing has happened since it began

catalogVars == <<library, entry, mirror, sync, admin, acts, promised, agreed>>

Absent == [title |-> "none", hidden |-> FALSE, at |-> 0]
NoSync == [pc |-> "idle", no |-> 0, before |-> 0, page |-> 1, todo |-> <<>>, seen |-> 0, facets |-> <<>>,
           tags |-> "none", errors |-> FALSE, quiet |-> TRUE, met |-> {}, whole |-> TRUE]
NoAdmin == [pc |-> "idle", op |-> "none", token |-> "none", beside |-> FALSE]
Listed(t) == \E n \in DOMAIN library : library[n] = t
Unlisted(t) == RemoveAt(library, CHOOSE n \in DOMAIN library : library[n] = t)
Rows == {t \in Tokens : mirror[t].at # 0}
Item == Head(sync.todo).token

CatalogType ==
  /\ library \in Seq(Tokens) /\ IsInjective(library)
  /\ mirror \in [Tokens -> [title : {"none", "a", "b"}, hidden : BOOLEAN, at : 0 .. MaxSyncs]]
  /\ sync.pc \in {"idle", "facets", "list", "row", "facet", "tags", "end"} /\ sync.seen \in Nat
  /\ (sync.pc \in {"row", "facet", "tags"} => sync.todo # <<>>)
  /\ admin.pc \in {"idle", "read", "put", "cms", "local", "push"} /\ agreed \in BOOLEAN /\ promised \subseteq Tokens

CatalogInit ==
  /\ library \in FirstLists
  /\ entry = [t \in Tokens |-> [title |-> "a", hidden |-> FALSE]]
  /\ mirror = [t \in Tokens |-> IF Listed(t) THEN [title |-> "a", hidden |-> FALSE, at |-> 1] ELSE Absent]
  /\ sync = [NoSync EXCEPT !.no = 1] /\ admin = NoAdmin /\ acts = 0 /\ promised = {} /\ agreed = TRUE

\* Anything but the sync changing what is mirrored, or the mirror.
Disturbed == sync' = [sync EXCEPT !.quiet = FALSE] /\ agreed' = FALSE
Act == acts < MaxActs /\ acts' = acts + 1
-----------------------------------------------------------------------------
\* MediaCMS's own users.
Upload(t) ==
  /\ Act /\ ~Listed(t) /\ t \notin Rows /\ library' = <<t>> \o library /\ Disturbed
  /\ UNCHANGED <<entry, mirror, admin, promised>>
Withdraw(t) ==
  /\ Act /\ Listed(t) /\ library' = Unlisted(t) /\ promised' = promised \ {t}
  /\ sync' = [sync EXCEPT !.quiet = FALSE, !.whole = FALSE] /\ agreed' = FALSE
  /\ UNCHANGED <<entry, mirror, admin>>
Retitle(t) ==
  /\ Act /\ Listed(t) /\ entry' = [entry EXCEPT ![t].title = "b"] /\ Disturbed
  /\ UNCHANGED <<library, mirror, admin, promised>>
-----------------------------------------------------------------------------
\* browse_count(show_hidden=True): hidden rows are counted, reserved ones are not.
Counted == Rows \ Reserved

\* The log row, the count of the rows.
StartSync ==
  /\ sync.pc = "idle" /\ sync.no < MaxSyncs
  /\ sync' = [NoSync EXCEPT !.pc = "facets", !.no = sync.no + 1, !.before = Cardinality(Counted),
                            !.facets = sync.facets]
  /\ agreed' = FALSE /\ admin' = [admin EXCEPT !.beside = (admin.pc # "idle")]
  /\ UNCHANGED <<library, entry, mirror, acts, promised>>

\* Mutant: a pre-fetch that fails leaves the last sync's map.
Prefetch_KeepsOld ==
  /\ sync.pc = "facets"
  /\ sync' \in {[sync EXCEPT !.pc = "list", !.facets = f] :
                 f \in {sync.facets, [t \in {u \in Tokens : Listed(u)} |-> entry[t].hidden]}}
  /\ UNCHANGED <<library, entry, mirror, admin, acts, promised, agreed>>
\* The tags of all items in one go, or, when that fails, nothing.
Prefetch ==
  /\ sync.pc = "facets"
  /\ sync' \in {[sync EXCEPT !.pc = "list", !.facets = f] :
                 f \in {<<>>, [t \in {u \in Tokens : Listed(u)} |-> entry[t].hidden]}}
  /\ UNCHANGED <<library, entry, mirror, admin, acts, promised, agreed>>

\* A page by its number; after an empty or the last one, the end.  The token's
\* holder may be shown a part of the library only.
Shown(k) == LET from == (k - 1) * PageSize
                many == IF from + PageSize <= Len(library) THEN PageSize ELSE Len(library) - from
            IN [i \in 1 .. many |-> [token |-> library[from + i], title |-> entry[library[from + i]].title]]
List ==
  /\ sync.pc = "list"
  /\ \E cut \in {FALSE, TRUE} :
       LET page == Shown(sync.page) IN
       sync' = IF page = <<>> \/ cut
               THEN [sync EXCEPT !.pc = "end", !.whole = @ /\ (~cut \/ page = <<>>)]
               ELSE [sync EXCEPT !.pc = "row", !.todo = page, !.page = @ + 1]
  /\ UNCHANGED <<library, entry, mirror, admin, acts, promised, agreed>>

\* A page that fails ends the reading.
ListFails ==
  /\ sync.pc = "list" /\ sync' = [sync EXCEPT !.pc = "end", !.errors = TRUE]
  /\ UNCHANGED <<library, entry, mirror, admin, acts, promised, agreed>>

\* Mutant: the end of a page is not noticed.
NextItem_Past(s) == [s EXCEPT !.todo = Tail(@), !.tags = "none", !.pc = "row"]
\* After the facets, its next item or its next page.
NextItem(s) == [s EXCEPT !.todo = Tail(@), !.tags = "none", !.pc = IF Len(s.todo) > 1 THEN "row" ELSE "list"]

\* insert_catalog, update_catalog: what the page says of an item, and when.
Written == [mirror EXCEPT ![Item].title = Head(sync.todo).title, ![Item].at = sync.no]

\* _process_item: a row inserted or brought up to date, or an exception.
Process ==
  /\ sync.pc = "row"
  /\ \/ /\ mirror' = Written
        /\ sync' = [sync EXCEPT !.pc = "facet", !.seen = @ + 1, !.met = @ \cup {Item}]
     \/ sync' = NextItem([sync EXCEPT !.seen = @ + 1, !.errors = TRUE]) /\ UNCHANGED mirror
  /\ UNCHANGED <<library, entry, admin, acts, promised, agreed>>

\* The map's word, or else the item's own page, which may fail.
Facets ==
  /\ sync.pc = "facet"
  /\ sync' \in IF Item \in DOMAIN sync.facets
               THEN {[sync EXCEPT !.pc = "tags", !.tags = IF sync.facets[Item] THEN "hidden" ELSE "shown"]}
               ELSE {NextItem([sync EXCEPT !.quiet = FALSE])} \cup
                    IF Listed(Item) THEN {[sync EXCEPT !.pc = "tags", !.tags = IF entry[Item].hidden THEN "hidden" ELSE "shown"]}
                    ELSE {}
  /\ UNCHANGED <<library, entry, mirror, admin, acts, promised, agreed>>

\* Mutant: tags are added, none is taken away.
SetTags_Adds ==
  /\ sync.pc = "tags"
  /\ mirror' = [mirror EXCEPT ![Item].hidden = @ \/ sync.tags = "hidden"]
  /\ sync' = NextItem(sync) /\ UNCHANGED <<library, entry, admin, acts, promised, agreed>>
\* set_catalog_tags: the item's tags replaced, if its row is still there.
SetTags ==
  /\ sync.pc = "tags"
  /\ mirror' = IF Item \in Rows THEN [mirror EXCEPT ![Item].hidden = (sync.tags = "hidden")] ELSE mirror
  /\ sync' = NextItem(sync) /\ UNCHANGED <<library, entry, admin, acts, promised, agreed>>

\* Mutants: the errors are forgotten; the shrink is not looked at.
Trusted_Errors == sync.seen > 0 /\ ~(sync.before >= Least /\ sync.seen * 4 < sync.before * 3)
Trusted_Shrunk == ~sync.errors /\ sync.seen > 0
\* Whether the listing is good enough to delete by.
Trusted == ~sync.errors /\ sync.seen > 0 /\ ~(sync.before >= Least /\ sync.seen * 4 < sync.before * 3)
Stale == {t \in Rows : mirror[t].at < sync.no}

\* delete_stale_catalog_items, and the log row.
EndSync ==
  /\ sync.pc = "end"
  /\ mirror' = IF Trusted THEN [t \in Tokens |-> IF t \in Stale THEN Absent ELSE mirror[t]] ELSE mirror
  /\ promised' = IF Trusted THEN promised \ Stale ELSE promised
  /\ agreed' = (Trusted /\ sync.quiet /\ sync.whole)
  /\ sync' = [NoSync EXCEPT !.no = sync.no, !.facets = sync.facets]
  /\ UNCHANGED <<library, entry, admin, acts>>
-----------------------------------------------------------------------------
\* hide_item, unhide_item: the mirror's tag first.
Hide(t, op) ==
  /\ Act /\ admin.pc = "idle" /\ t \in Rows
  /\ mirror' = [mirror EXCEPT ![t].hidden = (op = "hide")]
  /\ admin' = [pc |-> "read", op |-> op, token |-> t, beside |-> sync.pc # "idle"]
  /\ promised' = promised \ {t} /\ Disturbed /\ UNCHANGED <<library, entry>>

AdminRests == admin' = NoAdmin
\* set_tag reads the item's tags; with nothing to change, or no answer, it ends.
ReadTags ==
  /\ admin.pc = "read"
  /\ \/ AdminRests /\ UNCHANGED promised
     \/ /\ Listed(admin.token) /\ entry[admin.token].hidden = (admin.op = "hide") /\ AdminRests
        /\ promised' = IF admin.op = "hide" /\ ~admin.beside THEN promised \cup {admin.token} ELSE promised
     \/ /\ Listed(admin.token) /\ entry[admin.token].hidden # (admin.op = "hide")
        /\ admin' = [admin EXCEPT !.pc = "put"] /\ UNCHANGED promised
  /\ UNCHANGED <<library, entry, mirror, acts, sync, agreed>>

\* The tags written back with one more or one less.
PutTags ==
  /\ admin.pc = "put" /\ AdminRests /\ Disturbed
  /\ \/ UNCHANGED <<entry, promised>>
     \/ /\ Listed(admin.token) /\ entry' = [entry EXCEPT ![admin.token].hidden = (admin.op = "hide")]
        /\ promised' = IF admin.op = "hide" /\ ~admin.beside THEN promised \cup {admin.token} ELSE promised
  /\ UNCHANGED <<library, mirror, acts>>

\* edit_item: the row, then, if asked to, MediaCMS.
Edit(t) ==
  /\ Act /\ admin.pc = "idle" /\ t \in Rows /\ mirror[t].title # "b"
  /\ mirror' = [mirror EXCEPT ![t].title = "b"] /\ Disturbed
  /\ admin' \in {NoAdmin, [pc |-> "push", op |-> "edit", token |-> t, beside |-> FALSE]}
  /\ UNCHANGED <<library, entry, promised>>
Push ==
  /\ admin.pc = "push" /\ AdminRests /\ Disturbed
  /\ entry' \in {entry} \cup IF Listed(admin.token) THEN {[entry EXCEPT ![admin.token].title = "b"]} ELSE {}
  /\ UNCHANGED <<library, mirror, acts, promised>>

\* delete_catalog_item: MediaCMS, whether it answers or not, then the row.
Delete(t) ==
  /\ Act /\ admin.pc = "idle" /\ t \in Rows /\ promised' = promised \ {t}
  /\ admin' = [pc |-> "local", op |-> "delete", token |-> t, beside |-> FALSE]
  /\ \/ Listed(t) /\ library' = Unlisted(t) /\ sync' = [sync EXCEPT !.quiet = FALSE, !.whole = FALSE]
     \/ UNCHANGED library /\ sync' = [sync EXCEPT !.quiet = FALSE]
  /\ agreed' = FALSE /\ UNCHANGED <<entry, mirror>>
DeleteRow ==
  /\ admin.pc = "local" /\ AdminRests /\ Disturbed
  /\ mirror' = [mirror EXCEPT ![admin.token] = Absent] /\ promised' = promised \ {admin.token}
  /\ UNCHANGED <<library, entry, acts>>

SyncStep == StartSync \/ Prefetch \/ List \/ ListFails \/ Process \/ Facets \/ SetTags \/ EndSync
AdminStep == ReadTags \/ PutTags \/ Push \/ DeleteRow
CatalogNext ==
  \/ SyncStep \/ AdminStep
  \/ \E t \in Tokens : Upload(t) \/ Withdraw(t) \/ Retitle(t) \/ Edit(t) \/ Delete(t)
                       \/ \E op \in {"hide", "unhide"} : Hide(t, op)
-----------------------------------------------------------------------------
\* An item hidden in the mirror and in MediaCMS, with no sync beside the two
\* writes, stays hidden through every later sync, whatever part of it fails
\* (hide_item, "the hide persists").
HideStays == \A t \in promised : t \in Rows => mirror[t].hidden

\* After a sync that ended well and beside which nothing happened, the mirror
\* has MediaCMS's items, with its titles and what it hides, and no others.
MirrorAgrees ==
  agreed => \A t \in Tokens :
    /\ t \in Rows <=> Listed(t)
    /\ t \in Rows => mirror[t].title = entry[t].title /\ mirror[t].hidden = entry[t].hidden

\* A sync deletes no row whose item is in MediaCMS when the whole library was
\* shown to it and none left the list while it read (sync, "Only prune after a
\* successful, non-empty complete pass").
PrunedRightly ==
  sync.pc = "end" /\ sync'.pc = "idle" /\ sync.whole => \A t \in Rows : Listed(t) /\ library' = library => mirror'[t].at # 0

\* However little of the library a sync was shown, the mirror it leaves has at
\* least three quarters as many rows as the sync counted when it began, as long
\* as no item was met twice and no row was taken away beside it (sync, "rejecting
\* a sudden, implausibly large shrink").  It counts no reserved row but meets
\* them: of 100 rows and 30 reserved ones beside them 75 may be left.
ShrinkBounded ==
  sync.pc = "end" /\ sync'.pc = "idle" /\ sync.before >= Least
     /\ sync.seen = Cardinality(sync.met) /\ sync.met \subseteq Rows /\ (\E r \in Rows : mirror'[r].at = 0)
   => 4 * Cardinality({t \in Tokens : mirror'[t].at # 0}) >= 3 * sync.before

\* What a sync that ended must have left.
MirrorSafe == CatalogType /\ HideStays /\ MirrorAgrees
=============================================================================
