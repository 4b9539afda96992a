----------------------------- MODULE Visibility -----------------------------
(***************************************************************************)
(* Which titles a viewer is shown: the exclusions of catalog/db/_catalog.py*)
(* in one statement of the single database, and the same put together by   *)
(* the facade (catalog/db/__init__.py) from reads of two databases with    *)
(* other requests between them.  Filters, order and pages are left out.    *)
(*                                                                         *)
(* why[t] is what stands against t: "gone" from the catalogue, in a list   *)
(* of an "event" or a pool of "promo"s, "curated" away by a hidden tag or  *)
(* category, in a weekend's "blackout", "played" of late.                  *)
(***************************************************************************)
EXTENDS Integers, FiniteSets

CONSTANTS
  Tokens,       \* titles
  Shapes,       \* how a list may name its title: "url", "token"
  Layouts,      \* "single", "parted"
  MaxTurns      \* bound: changes beside one request

ASSUME VisibilityAssumption == Shapes \subseteq {"url", "token"} /\ Layouts \subseteq {"single", "parted"} /\ MaxTurns \in Nat

VARIABLES
  layout,       \* of the databases
  shape,        \* how the lists name each title
  why,
  look,         \* the request: what it asks, its next read, the lists' names, the tokens to leave out
  shown,        \* its answer
  lasting,      \* what has stood against each title since it began
  ever,         \* what has stood against it at any time since
  turns

visibilityVars == <<layout, shape, why, look, shown, lasting, ever, turns>>

Reasons == {"gone", "event", "promo", "curated", "blackout", "played"}
Asks == {"titles", "item"}                 \* browse, search and their counts; one title's page
Viewers == {"user", "admin", "unhidden"}   \* an admin, and one who has hidden titles shown
NoLook == [op |-> "none", by |-> "user", pc |-> "idle", listed |-> {}, out |-> {}]

VisibilityType ==
  /\ layout \in Layouts /\ shape \in [Tokens -> Shapes] /\ why \in [Tokens -> SUBSET Reasons]
  /\ look.pc \in {"idle", "one", "played", "lists", "resolve", "blackouts", "rows", "row", "listed", "black", "done"}
  /\ look.listed \subseteq [t : Tokens, as : Shapes] /\ look.out \subseteq Tokens /\ shown \subseteq Tokens
  /\ \A t \in Tokens : lasting[t] \subseteq ever[t] /\ (look.pc # "idle" => lasting[t] \subseteq why[t])

VisibilityInit ==
  /\ layout \in Layouts /\ shape \in [Tokens -> Shapes] /\ why \in [Tokens -> SUBSET Reasons]
  /\ look = NoLook /\ shown = {} /\ turns = 0 /\ lasting = why /\ ever = why

\* What counts for whom: admins are shown what played, and those with
\* show_hidden all but the lists' titles; a title's own page knows lists and
\* blackouts.
Counting(op, by) ==
  IF op = "item" THEN {"gone", "event", "promo", "blackout"}
  ELSE CASE by = "user" -> Reasons
         [] by = "admin" -> Reasons \ {"played"}
         [] OTHER -> {"gone", "event", "promo"}

Those(w, t) == w[t] \cap Counting(look.op, look.by)
Holding(reasons) == {t \in Tokens : why[t] \cap reasons # {}}
LookAt(label) == look' = [look EXCEPT !.pc = label]
Still == UNCHANGED <<layout, shape, why, lasting, ever, turns>>
-----------------------------------------------------------------------------
Look ==
  /\ look.pc \in {"idle", "done"} /\ shown' = {} /\ lasting' = why /\ ever' = why /\ turns' = 0
  /\ \E op \in Asks, by \in Viewers :
       /\ (op = "item" => by = "user")
       /\ look' = [NoLook EXCEPT !.op = op, !.by = by,
            !.pc = IF layout = "single" THEN "one" ELSE IF op = "item" THEN "row"
                   ELSE IF by = "user" THEN "played" ELSE "lists"]
  /\ UNCHANGED <<layout, shape, why>>

\* The single database: one statement with all the exclusions.
SingleStatement ==
  /\ look.pc = "one" /\ LookAt("done") /\ Still
  /\ shown' = {t \in Tokens : Those(why, t) = {}}

\* get_active_hidden_media_ids
Played ==
  /\ look.pc = "played" /\ look' = [look EXCEPT !.pc = "lists", !.out = Holding({"played"})]
  /\ Still /\ UNCHANGED shown

\* get_reserved_media_ids: as the lists name them.
ListsRead ==
  /\ look.pc = "lists" /\ Still /\ UNCHANGED shown
  /\ look' = [look EXCEPT !.pc = "resolve", !.listed = {[t |-> t, as |-> shape[t]] : t \in Holding({"event", "promo"})}]

\* Mutant: a URL is taken for a token.
Resolved_AsNamed(names) == {n.t : n \in {n \in names : n.as = "token"}}

\* resolve_friendly_tokens: those the catalogue has, by token or URL.
Resolved(names) == {n.t : n \in names} \ Holding({"gone"})
Resolving ==
  /\ look.pc = "resolve" /\ Still /\ UNCHANGED shown
  /\ look' = [look EXCEPT !.pc = IF look.by = "unhidden" THEN "rows" ELSE "blackouts", !.out = @ \cup Resolved(look.listed)]

\* get_active_blackout_tokens
BlackoutRows ==
  /\ look.pc = "blackouts" /\ look' = [look EXCEPT !.pc = "rows", !.out = @ \cup Holding({"blackout"})]
  /\ Still /\ UNCHANGED shown

\* The catalogue's own statement, without the tokens gathered.
TitleRows ==
  /\ look.pc = "rows" /\ LookAt("done") /\ Still
  /\ shown' = {t \in Tokens \ look.out : Those(why, t) \cap {"gone", "curated"} = {}}

\* get_item: the row, then the lists by token and URL, then the blackouts.
ItemRow ==
  /\ look.pc = "row" /\ LookAt("listed") /\ Still
  /\ shown' = Tokens \ Holding({"gone"})

\* is_media_restricted
ItemListed == look.pc = "listed" /\ LookAt("black") /\ shown' = shown \ Holding({"event", "promo"}) /\ Still
ItemBlack == look.pc = "black" /\ LookAt("done") /\ shown' = shown \ Holding({"blackout"}) /\ Still
-----------------------------------------------------------------------------
\* Others: a sync, an editor of the lists or tags, the blackout job, the clock.
Turn ==
  /\ turns < MaxTurns /\ turns' = turns + 1 /\ look.pc \notin {"idle", "done"}
  /\ \E t \in Tokens, r \in Reasons \ {"played"} :
       why' = [why EXCEPT ![t] = IF r \in @ THEN @ \ {r} ELSE @ \cup {r}]
  /\ lasting' = [t \in Tokens |-> lasting[t] \cap why'[t]] /\ ever' = [t \in Tokens |-> ever[t] \cup why'[t]]
  /\ UNCHANGED <<layout, shape, look, shown>>

\* record_play_completion: the single database spares a promo that a pool has
\* by its token, and a curated title; the queue's own database spares none.
Spared(t) == layout = "single" /\ ("curated" \in why[t] \/ ("promo" \in why[t] /\ shape[t] = "token"))
Ended ==
  /\ turns < MaxTurns /\ turns' = turns + 1 /\ look.pc \notin {"idle", "done"}
  /\ \E t \in Tokens : why' = [why EXCEPT ![t] = IF Spared(t) THEN @ ELSE @ \cup {"played"}]
  /\ lasting' = [t \in Tokens |-> lasting[t] \cap why'[t]] /\ ever' = [t \in Tokens |-> ever[t] \cup why'[t]]
  /\ UNCHANGED <<layout, shape, look, shown>>

VisibilityNext ==
  Look \/ SingleStatement \/ Played \/ ListsRead \/ Resolving \/ BlackoutRows \/ TitleRows \/ ItemRow \/ ItemListed \/ ItemBlack \/ Turn \/ Ended
VisibilitySpec == VisibilityInit /\ [][VisibilityNext]_visibilityVars
-----------------------------------------------------------------------------
\* Whichever the layout and whatever changes beside it, a request does not
\* show a title something has stood against all the while, and shows every
\* title nothing ever stood against; but for a title that came to the
\* catalogue meanwhile, which the lists' names may not have led to.
ShownRightly ==
  look.pc = "done" => \A t \in Tokens :
    /\ (Those(lasting, t) # {} /\ ("gone" \in ever[t] => "gone" \in lasting[t]) => t \notin shown)
    /\ (Those(ever, t) = {} => t \in shown)

VisibilitySafe == VisibilityType /\ ShownRightly
=============================================================================
