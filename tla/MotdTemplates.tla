--------------------------- MODULE MotdTemplates ---------------------------
(***************************************************************************)
(* The master templates of the message of the day and the images they use: *)
(* catalog/db/_motd_templates.py and the handlers that call it, in         *)
(* routes/admin_motd_templates.py and routes/admin_media.py.  Admins work  *)
(* side by side, every statement of a handler is a step of its own, and    *)
(* the service may go down between two of them.                            *)
(*                                                                         *)
(* A body is what matters of it here: the image it shows, if any.  A file  *)
(* is named for its slug, its content is whose upload it is.               *)
(***************************************************************************)
EXTENDS Integers, FiniteSets, FiniteSetsExt

CONSTANTS
  Names,     \* of master templates
  Seed,      \* the one made on first use
  Slugs,     \* of images
  Editors,   \* admins
  System,    \* the start-up, which seeds
  NoOne,     \* no admin, no image
  MaxCalls,  \* bound: requests
  MaxCuts    \* bound: crashes

ASSUME MotdTemplatesAssumption ==
  /\ Seed \in Names /\ IsFiniteSet(Names) /\ NoOne \notin Slugs \cup Editors
  /\ System \notin Editors /\ System # NoOne /\ {MaxCalls, MaxCuts} \subseteq Nat

VARIABLES
  tpl,       \* table motd_templates
  revs,      \* table motd_template_revisions
  lastRev,   \* its autoincrement
  scheduled, \* templates with an active schedule
  asset,     \* table media_assets, by slug
  file,      \* of each slug: whose content its URL serves
  call,      \* the request of each admin
  calls, cuts,
  reigned,   \* revisions that have been current
  crowded,   \* two requests have overlapped
  cut        \* a crash has interrupted a request

tables == <<tpl, revs, lastRev, reigned>>
media == <<asset, file>>
ghosts == <<calls, cuts, crowded, cut>>
templateVars == <<tables, scheduled, media, call, ghosts>>

Users == Editors \cup {System}
Absent == [there |-> FALSE, cur |-> 0, dflt |-> FALSE, archived |-> FALSE]
Idle == [pc |-> "idle", t |-> Seed, was |-> 0, no |-> 0, rev |-> 0, uses |-> NoOne, slug |-> NoOne]
Made(t, dflt) == [tpl EXCEPT ![t] = [Absent EXCEPT !.there = TRUE, !.dflt = dflt]]
Revision(i, t, n, base, uses) == [id |-> i, of |-> t, no |-> n, base |-> base, uses |-> uses]
Live(t) == tpl[t].there /\ ~tpl[t].archived
RevsOf(t) == {r \in revs : r.of = t}
Current(t) == {r \in revs : r.id = tpl[t].cur}
Shows(uses) == uses \in {NoOne} \cup {s \in Slugs : asset[s].state = "live"}
Saving == {"check", "number", "insert", "move", "drop", "row", "first", "point"}
Labels == Saving \cup {"idle", "open", "clear", "set", "count", "archive", "plan", "claim",
                      "store", "refs", "trash", "bury"}

TemplatesType ==
  /\ tpl \in [Names -> [there : BOOLEAN, cur : 0 .. lastRev, dflt : BOOLEAN, archived : BOOLEAN]]
  /\ revs \subseteq [id : 1 .. lastRev, of : Names, no : Nat, base : 0 .. lastRev, uses : Slugs \cup {NoOne}]
  /\ scheduled \subseteq Names /\ reigned \subseteq 1 .. lastRev
  /\ asset \in [Slugs -> [state : {"free", "live", "deleted"}, by : Users \cup {NoOne}]]
  /\ file \in [Slugs -> Users \cup {NoOne}]
  /\ \A e \in Users : call[e].pc \in Labels
  /\ \A r, q \in revs : (r.id = q.id \/ (r.of = q.of /\ r.no = q.no)) => r = q
-----------------------------------------------------------------------------
\* First use, or a service that has run for a while.
TemplatesInit ==
  /\ \/ /\ tpl = [t \in Names |-> Absent] /\ revs = {} /\ lastRev = 0
        /\ asset = [s \in Slugs |-> [state |-> "free", by |-> NoOne]]
        /\ call = [e \in Users |-> IF e = System THEN [Idle EXCEPT !.pc = "row"] ELSE Idle]
     \/ \E t \in Names \ {Seed}, s \in Slugs : \E d \in {Seed, t} :
          /\ tpl = [n \in Names |-> IF n \notin {Seed, t} THEN Absent
                      ELSE [there |-> TRUE, cur |-> IF n = Seed THEN 1 ELSE 2, dflt |-> n = d,
                            archived |-> FALSE]]
          /\ revs = {Revision(1, Seed, 1, 0, NoOne), Revision(2, t, 1, 0, s)} /\ lastRev = 2
          /\ asset = [n \in Slugs |-> IF n = s THEN [state |-> "live", by |-> System]
                                               ELSE [state |-> "free", by |-> NoOne]]
          /\ call = [e \in Users |-> Idle]
  /\ file = [s \in Slugs |-> asset[s].by] /\ scheduled = {}
  /\ reigned = 1 .. lastRev /\ calls = 0 /\ cuts = 0 /\ crowded = FALSE /\ cut = FALSE

At(e, pc) == call[e].pc = pc
Busy(e) == call[e].pc \notin {"idle", "open"}
Goto(e, pc) == call' = [call EXCEPT ![e].pc = pc] /\ UNCHANGED ghosts
End(e) == call' = [call EXCEPT ![e] = Idle] /\ UNCHANGED ghosts
GotoIf(cond, e, pc) == IF cond THEN Goto(e, pc) ELSE End(e)

\* A request arrives; start-up takes none.
Serve(e, c) ==
  /\ ~Busy(System)
  /\ call' = [call EXCEPT ![e] = c]
  /\ crowded' = (crowded \/ \E d \in Users \ {e} : Busy(d))
  /\ UNCHANGED <<cuts, cut>>
Begin(e, c) == At(e, "idle") /\ calls < MaxCalls /\ calls' = calls + 1 /\ Serve(e, c)
-----------------------------------------------------------------------------
\* An admin opens a template in the editor.
Open(e, t) ==
  /\ Live(t) /\ tpl[t].cur # 0
  /\ Begin(e, [Idle EXCEPT !.pc = "open", !.t = t, !.was = tpl[t].cur])
  /\ UNCHANGED <<tables, scheduled, media>>

\* save_template: what is refused before the body is validated.
Save(e, uses) ==
  /\ At(e, "open") /\ calls' = calls
  /\ LET c == call[e] IN
     Serve(e, IF Live(c.t) /\ tpl[c.t].cur = c.was
              THEN [c EXCEPT !.pc = "check", !.uses = uses] ELSE Idle)
  /\ UNCHANGED <<tables, scheduled, media>>

Restore(e, r) ==
  /\ Live(r.of)
  /\ Begin(e, [Idle EXCEPT !.pc = "check", !.t = r.of, !.was = tpl[r.of].cur, !.uses = r.uses])
  /\ UNCHANGED <<tables, scheduled, media>>

\* The render of _validate, then the comparison in save_motd_template_revision.
Check(e) ==
  /\ At(e, "check")
  /\ GotoIf(Shows(call[e].uses) /\ tpl[call[e].t].cur = call[e].was, e, "number")
  /\ UNCHANGED <<tables, scheduled, media>>

Number(e) ==
  /\ At(e, "number")
  /\ call' = [call EXCEPT ![e].pc = "insert", ![e].no = Max({r.no : r \in RevsOf(call[e].t)} \cup {0}) + 1]
  /\ UNCHANGED <<tables, scheduled, media, ghosts>>

\* _insert_revision, under UNIQUE (template_id, revision_no).
Insert(e) ==
  LET c == call[e] IN
  /\ At(e, "insert")
  /\ \/ /\ \E r \in RevsOf(c.t) : r.no = c.no
        /\ End(e) /\ UNCHANGED <<revs, lastRev>>
     \/ /\ \A r \in RevsOf(c.t) : r.no # c.no
        /\ lastRev' = lastRev + 1
        /\ revs' = revs \cup {Revision(lastRev + 1, c.t, c.no, c.was, c.uses)}
        /\ call' = [call EXCEPT ![e].pc = "move", ![e].rev = lastRev + 1]
        /\ UNCHANGED ghosts
  /\ UNCHANGED <<tpl, reigned, scheduled, media>>

Reign(t, i) == tpl' = [tpl EXCEPT ![t].cur = i] /\ reigned' = reigned \cup {i}

\* Mutant: the pointer moves whatever it is now.
Move_Blind(e) ==
  /\ At(e, "move") /\ Reign(call[e].t, call[e].rev) /\ End(e)
  /\ UNCHANGED <<revs, lastRev, scheduled, media>>

\* UPDATE ... WHERE current_revision_id = the one that was opened, which no
\* template without a revision satisfies.
Move(e) ==
  LET c == call[e]
      mine == tpl[c.t].cur = c.was /\ c.was # 0 IN
  /\ At(e, "move")
  /\ IF mine THEN Reign(c.t, c.rev) /\ End(e) ELSE Goto(e, "drop") /\ UNCHANGED <<tpl, reigned>>
  /\ UNCHANGED <<revs, lastRev, scheduled, media>>

\* Mutant: the row of a save that lost stays.
Drop_Kept(e) == At(e, "drop") /\ End(e) /\ UNCHANGED <<tables, scheduled, media>>

Drop(e) ==
  /\ At(e, "drop") /\ End(e)
  /\ revs' = {r \in revs : r.id # call[e].rev}
  /\ UNCHANGED <<tpl, lastRev, reigned, scheduled, media>>

Create(e, t, uses) ==
  /\ ~tpl[t].there /\ Shows(uses)
  /\ Begin(e, [Idle EXCEPT !.pc = "row", !.t = t, !.uses = uses])
  /\ UNCHANGED <<tables, scheduled, media>>

\* create_motd_template: the row, its first revision, the pointer.  The
\* start-up makes the seed, the default, when there is no template at all.
PutRow(e) ==
  LET free == IF e = System THEN \A t \in Names : ~tpl[t].there ELSE ~tpl[call[e].t].there IN
  /\ At(e, "row") /\ GotoIf(free, e, "first")
  /\ tpl' = IF free THEN Made(call[e].t, e = System) ELSE tpl
  /\ UNCHANGED <<revs, lastRev, reigned, scheduled, media>>

First(e) ==
  /\ At(e, "first") /\ lastRev' = lastRev + 1
  /\ revs' = revs \cup {Revision(lastRev + 1, call[e].t, 1, 0, call[e].uses)}
  /\ call' = [call EXCEPT ![e].pc = "point", ![e].rev = lastRev + 1]
  /\ UNCHANGED <<tpl, reigned, scheduled, media, ghosts>>

Point(e) ==
  /\ At(e, "point") /\ End(e) /\ Reign(call[e].t, call[e].rev)
  /\ UNCHANGED <<revs, lastRev, scheduled, media>>
-----------------------------------------------------------------------------
\* update_template_meta: the two statements of set_default_motd_template.
SetDefault(e, t) ==
  /\ Live(t) /\ ~tpl[t].dflt /\ Begin(e, [Idle EXCEPT !.pc = "clear", !.t = t])
  /\ UNCHANGED <<tables, scheduled, media>>

Clear(e) ==
  /\ At(e, "clear") /\ Goto(e, "set")
  /\ tpl' = [t \in Names |-> [tpl[t] EXCEPT !.dflt = FALSE]]
  /\ UNCHANGED <<revs, lastRev, reigned, scheduled, media>>

\* A unique index allows one default.
Set(e) ==
  /\ At(e, "set") /\ End(e)
  /\ tpl' = IF \E t \in Names \ {call[e].t} : tpl[t].dflt THEN tpl
            ELSE [tpl EXCEPT ![call[e].t].dflt = TRUE]
  /\ UNCHANGED <<revs, lastRev, reigned, scheduled, media>>

\* Mutant: the default may be archived.
Archive_Default(e, t) ==
  /\ Live(t) /\ Begin(e, [Idle EXCEPT !.pc = "count", !.t = t])
  /\ UNCHANGED <<tables, scheduled, media>>

Archive(e, t) ==
  /\ Live(t) /\ ~tpl[t].dflt /\ Begin(e, [Idle EXCEPT !.pc = "count", !.t = t])
  /\ UNCHANGED <<tables, scheduled, media>>

Count(e) ==
  /\ At(e, "count") /\ GotoIf(call[e].t \notin scheduled, e, "archive")
  /\ UNCHANGED <<tables, scheduled, media>>

DoArchive(e) ==
  /\ At(e, "archive") /\ End(e)
  /\ tpl' = [tpl EXCEPT ![call[e].t].archived = TRUE]
  /\ UNCHANGED <<revs, lastRev, reigned, scheduled, media>>

\* create_schedule, and delete_schedule.
Plan(e, t) ==
  /\ Live(t) /\ Begin(e, [Idle EXCEPT !.pc = "plan", !.t = t])
  /\ UNCHANGED <<tables, scheduled, media>>

DoPlan(e) ==
  /\ At(e, "plan") /\ End(e) /\ scheduled' = scheduled \cup {call[e].t}
  /\ UNCHANGED <<tables, media>>

Unplan(e, t) ==
  /\ t \in scheduled /\ Begin(e, Idle) /\ scheduled' = scheduled \ {t}
  /\ UNCHANGED <<tables, media>>
-----------------------------------------------------------------------------
\* upload_asset: a slug nobody ever had, its row, its file.
Upload(e, s) ==
  /\ asset[s].state = "free" /\ Begin(e, [Idle EXCEPT !.pc = "claim", !.slug = s])
  /\ UNCHANGED <<tables, scheduled, media>>

\* Mutant: the row is written whoever has the slug.
Claim_Again(e) ==
  /\ At(e, "claim") /\ Goto(e, "store")
  /\ asset' = [asset EXCEPT ![call[e].slug] = [state |-> "live", by |-> e]]
  /\ UNCHANGED <<tables, scheduled, file>>

Claim(e) ==
  LET free == asset[call[e].slug].state = "free" IN
  /\ At(e, "claim") /\ GotoIf(free, e, "store")
  /\ asset' = IF free THEN [asset EXCEPT ![call[e].slug] = [state |-> "live", by |-> e]] ELSE asset
  /\ UNCHANGED <<tables, scheduled, file>>

\* The write may fail; the slug is then spent.
Store(e) ==
  /\ At(e, "store") /\ End(e)
  /\ \/ file' = [file EXCEPT ![call[e].slug] = e] /\ asset' = asset
     \/ file' = file /\ asset' = [asset EXCEPT ![call[e].slug].state = "deleted"]
  /\ UNCHANGED <<tables, scheduled>>

Delete(e, s) ==
  /\ asset[s].state = "live" /\ Begin(e, [Idle EXCEPT !.pc = "refs", !.slug = s])
  /\ UNCHANGED <<tables, scheduled, media>>

\* Mutant: only the default is searched.
Refs_Masters(e) ==
  /\ At(e, "refs")
  /\ GotoIf(\A t \in Names : Live(t) /\ tpl[t].dflt => \A r \in Current(t) : r.uses # call[e].slug, e, "trash")
  /\ UNCHANGED <<tables, scheduled, media>>

Refs(e) ==
  /\ At(e, "refs")
  /\ GotoIf(\A t \in Names : Live(t) => \A r \in Current(t) : r.uses # call[e].slug, e, "trash")
  /\ UNCHANGED <<tables, scheduled, media>>

Trash(e) ==
  /\ At(e, "trash") /\ Goto(e, "bury") /\ file' = [file EXCEPT ![call[e].slug] = NoOne]
  /\ UNCHANGED <<tables, scheduled, asset>>

Bury(e) ==
  /\ At(e, "bury") /\ End(e) /\ asset' = [asset EXCEPT ![call[e].slug].state = "deleted"]
  /\ UNCHANGED <<tables, scheduled, file>>

\* The service dies and starts again: it seeds if there is nothing.
Crash ==
  /\ cuts < MaxCuts /\ cuts' = cuts + 1
  /\ cut' = (cut \/ \E e \in Users : Busy(e))
  /\ call' = [e \in Users |-> IF e = System THEN [Idle EXCEPT !.pc = "row"]
                              ELSE IF Busy(e) THEN Idle ELSE call[e]]
  /\ UNCHANGED <<tables, scheduled, media, calls, crowded>>
-----------------------------------------------------------------------------
Starts(e) ==
  \/ \E t \in Names : Open(e, t) \/ SetDefault(e, t) \/ Archive(e, t) \/ Plan(e, t) \/ Unplan(e, t)
  \/ \E t \in Names, u \in Slugs \cup {NoOne} : Create(e, t, u)
  \/ \E u \in Slugs \cup {NoOne} : Save(e, u)
  \/ \E r \in revs : Restore(e, r)
  \/ \E s \in Slugs : Upload(e, s) \/ Delete(e, s)

Steps(e) ==
  \/ Check(e) \/ Number(e) \/ Insert(e) \/ Move(e) \/ Drop(e) \/ PutRow(e) \/ First(e) \/ Point(e)
  \/ Clear(e) \/ Set(e) \/ Count(e) \/ DoArchive(e) \/ DoPlan(e)
  \/ Claim(e) \/ Store(e) \/ Refs(e) \/ Trash(e) \/ Bury(e)

TemplatesNext == (\E e \in Editors : Starts(e)) \/ (\E e \in Users : Steps(e)) \/ Crash

TemplatesSpec == TemplatesInit /\ [][TemplatesNext]_templateVars
-----------------------------------------------------------------------------
\* No edit is lost: two revisions that were both made from the same one have
\* not both been current, whatever saves and restores overlap.
NoLostEdit ==
  \A r, q \in revs : {r.id, q.id} \subseteq reigned /\ r.of = q.of /\ r.base = q.base => r = q

\* The history is the truth: what was ever shown is still there, and when no
\* save is under way nothing newer than the current revision is listed, a
\* crash in the middle of a save apart.
RevisionsTrue ==
  /\ reigned \subseteq {r.id : r \in revs}
  /\ \A t \in Names : (\A e \in Users : At(e, "open") \/ call[e].t # t \/ call[e].pc \notin Saving) /\ ~cut
       => \A r \in RevsOf(t), q \in Current(t) : r.no <= q.no

\* There is one default and it can be shown, when one admin works at a time
\* and no crash has cut a request short.
DefaultKept ==
  ~crowded /\ ~cut /\ (\A e \in Users : call[e].pc \notin {"set", "row", "first", "point"})
    => \E t \in Names : /\ Live(t) /\ Current(t) # {}
                        /\ \A n \in Names : tpl[n].dflt <=> n = t

\* A URL serves what its owner uploaded, or nothing, and never someone
\* else's image, whatever uploads, deletes and crashes overlap.
UrlStable ==
  /\ \A s \in Slugs : file[s] \in {asset[s].by, NoOne}
  /\ \A s \in Slugs, e \in Editors : At(e, "store") /\ call[e].slug = s => asset[s].by = e

\* What a template that can be shown refers to is there, under the same
\* conditions as DefaultKept.
MediaKept ==
  ~crowded /\ ~cut => \A t \in Names : Live(t) => \A r \in Current(t) :
    r.uses # NoOne => asset[r.uses].state = "live" /\ file[r.uses] # NoOne

\* No save, upload or clean-up takes away what another still needs.
TemplatesSafe ==
  /\ TemplatesType /\ NoLostEdit /\ RevisionsTrue
  /\ DefaultKept /\ UrlStable /\ MediaKept
=============================================================================
