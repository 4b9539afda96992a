------------------------------ MODULE AdminProofs ------------------------------
(***************************************************************************)
(* Theorems about what admins and jobs work at: the blackouts, what a      *)
(* viewer is shown, the master templates with their images, and the timers *)
(* of scheduled playlists; for any titles, weekends, layouts, templates    *)
(* and schedules, any admins, any times and any number of changes.         *)
(***************************************************************************)
EXTENDS Schedules, MotdTemplates, Visibility, Blackouts, FiniteFacts

-----------------------------------------------------------------------------
(***************************************************************************)
(* The inductive invariant.  HeldOver is not inductive: a row that is gone *)
(* or over says nothing of what was promised, and a job may still write    *)
(* an end it found days ago.  Agreed says that row and promise are the same  *)
(* or both over, which a later end makes the same again.                   *)
(***************************************************************************)
Ends == {0} \cup {f + BlackoutDays : f \in Fridays}

BlackoutsShape ==
  /\ day \in 0 .. LastDay /\ scans \in 0 .. MaxScans
  /\ listed \in [Fridays -> SUBSET Airing]
  /\ until \in [Airing -> Ends] /\ promised \in [Airing -> Ends]
  /\ scan \in [on : BOOLEAN, found : [Airing -> Ends], todo : SUBSET Airing]

Agreed == \A t \in Airing : until[t] = promised[t] \/ (until[t] <= day /\ promised[t] <= day)

BlackoutsInv == BlackoutsShape /\ Agreed

LEMMA EndsFinite == Ends \subseteq Nat /\ IsFiniteSet(Ends)
<1>. DEFINE f == [x \in Fridays |-> x + BlackoutDays]
            later == {f[x] : x \in Fridays}
<1>1. IsFiniteSet(later)
  <2>1. f = [x \in Fridays |-> f[x]] /\ IsFiniteSet(Fridays)
    BY BlackoutsAssumption
  <2>. HIDE DEF f
  <2>. QED  BY <2>1, FiniteImage
<1>2. Ends = {0} \cup later
  BY DEF Ends
<1>3. IsFiniteSet({0})
  BY FS_Singleton
<1>4. IsFiniteSet(Ends)
  <2>. HIDE DEF later
  <2>. QED  BY <1>1, <1>2, <1>3, FS_Union
<1>. QED  BY <1>4, BlackoutsAssumption DEF Ends

\* The latest end among the sheets that have a title is one of theirs.
LEMMA FoundType == Found \in [Airing -> Ends]
<1>. SUFFICES ASSUME NEW t \in Airing
              PROVE Max({0} \cup {f + BlackoutDays : f \in {f \in Upcoming : t \in listed[f]}}) \in Ends
  BY DEF Found
<1>. DEFINE S == {0} \cup {f + BlackoutDays : f \in {f \in Upcoming : t \in listed[f]}}
<1>1. S \in SUBSET Ends /\ S # {}
  BY DEF Ends, Upcoming
<1>2. PICK x \in S : \A y \in S : x >= y
  <2>. HIDE DEF S
  <2>. QED  BY <1>1, EndsFinite, FS_Subset, NatMax
<1>3. Max(S) \in S
  <2>. HIDE DEF S
  <2>. QED  BY <1>2 DEF Max
<1>. QED  BY <1>1, <1>3

-----------------------------------------------------------------------------
LEMMA InitBlackoutsInv == BlackoutsInit => BlackoutsInv
  BY BlackoutsAssumption DEF BlackoutsInit, BlackoutsInv, BlackoutsShape, Agreed, Ends, NoScan

LEMMA BlackoutsShapeStep == BlackoutsShape /\ [BlackoutsNext]_blackoutVars => BlackoutsShape'
<1>. SUFFICES ASSUME BlackoutsShape, [BlackoutsNext]_blackoutVars PROVE BlackoutsShape'
  OBVIOUS
<1>. USE BlackoutsAssumption
<1>1. CASE ScanBook
  <2>1. scan' \in [on : BOOLEAN, found : [Airing -> Ends], todo : SUBSET Airing]
    BY <1>1, FoundType DEF ScanBook
  <2>. QED  BY <1>1, <2>1 DEF ScanBook, BlackoutsShape
<1>2. CASE Hide
  <2>1. PICK t \in scan.todo :
          /\ Upsert(t) /\ scan' = [scan EXCEPT !.todo = @ \ {t}]
          /\ promised' = [promised EXCEPT ![t] = IF scan.found[t] > @ THEN scan.found[t] ELSE @]
    BY <1>2 DEF Hide
  <2>2. t \in Airing /\ scan.found[t] \in Ends
    BY DEF BlackoutsShape
  <2>3. until' \in [Airing -> Ends] /\ promised' \in [Airing -> Ends]
    BY <2>1, <2>2 DEF Upsert, BlackoutsShape
  <2>4. scan' \in [on : BOOLEAN, found : [Airing -> Ends], todo : SUBSET Airing]
    BY <2>1 DEF BlackoutsShape
  <2>. QED  BY <1>2, <2>3, <2>4 DEF Hide, BlackoutsShape
<1>3. CASE Prune
  BY <1>3 DEF Prune, BlackoutsShape, NoScan, Ends
<1>4. CASE ScanDies
  BY <1>4 DEF ScanDies, BlackoutsShape, NoScan, Ends
<1>5. CASE Pencil
  BY <1>5 DEF Pencil, BlackoutsShape
<1>6. CASE Midnight
  BY <1>6 DEF Midnight, BlackoutsShape
<1>7. CASE UNCHANGED blackoutVars
  BY <1>7 DEF blackoutVars, BlackoutsShape
<1>. QED  BY <1>1, <1>2, <1>3, <1>4, <1>5, <1>6, <1>7 DEF BlackoutsNext

LEMMA BlackoutsNumbers ==
  BlackoutsShape => \A t \in Airing : until[t] \in Nat /\ promised[t] \in Nat /\ scan.found[t] \in Nat /\ day \in Nat
<1>. SUFFICES ASSUME BlackoutsShape, NEW t \in Airing
              PROVE until[t] \in Nat /\ promised[t] \in Nat /\ scan.found[t] \in Nat /\ day \in Nat
  OBVIOUS
<1>1. until[t] \in Ends /\ promised[t] \in Ends /\ scan.found[t] \in Ends
  BY DEF BlackoutsShape
<1>2. day \in Nat
  BY BlackoutsAssumption DEF BlackoutsShape
<1>. QED  BY <1>1, <1>2, EndsFinite

LEMMA AgreedStep == BlackoutsInv /\ [BlackoutsNext]_blackoutVars => Agreed'
<1>. SUFFICES ASSUME BlackoutsInv, [BlackoutsNext]_blackoutVars, NEW t \in Airing
              PROVE until'[t] = promised'[t] \/ (until'[t] <= day' /\ promised'[t] <= day')
  BY DEF Agreed
<1>1. until[t] = promised[t] \/ (until[t] <= day /\ promised[t] <= day)
  BY DEF BlackoutsInv, Agreed
<1>2. until[t] \in Nat /\ promised[t] \in Nat /\ scan.found[t] \in Nat /\ day \in Nat
  BY BlackoutsNumbers DEF BlackoutsInv
<1>3. CASE Hide
  <2>1. PICK u \in scan.todo :
          /\ Upsert(u)
          /\ promised' = [promised EXCEPT ![u] = IF scan.found[u] > @ THEN scan.found[u] ELSE @]
    BY <1>3 DEF Hide
  <2>2. day' = day
    BY <1>3 DEF Hide
  <2>3. CASE u # t
    BY <1>1, <2>1, <2>2, <2>3 DEF Upsert, BlackoutsInv, BlackoutsShape
  <2>4. CASE u = t
    <3>1. /\ until'[t] = IF scan.found[t] > until[t] THEN scan.found[t] ELSE until[t]
          /\ promised'[t] = IF scan.found[t] > promised[t] THEN scan.found[t] ELSE promised[t]
      BY <2>1, <2>4 DEF Upsert, BlackoutsInv, BlackoutsShape
    <3>. QED  BY <1>1, <1>2, <2>2, <3>1
  <2>. QED  BY <2>3, <2>4
<1>4. CASE Prune
  <2>1. until'[t] = (IF until[t] <= day THEN 0 ELSE until[t]) /\ promised' = promised /\ day' = day
    BY <1>4 DEF Prune, Pruned
  <2>. QED  BY <1>1, <1>2, <2>1
<1>5. CASE Midnight
  BY <1>1, <1>2, <1>5 DEF Midnight
<1>6. CASE ScanBook \/ ScanDies \/ Pencil \/ UNCHANGED blackoutVars
  BY <1>1, <1>6 DEF ScanBook, ScanDies, Pencil, blackoutVars
<1>. QED  BY <1>3, <1>4, <1>5, <1>6 DEF BlackoutsNext

-----------------------------------------------------------------------------
\* A title is hidden exactly as long as the latest weekend a job wrote down for
\* it asks, whatever later scans, prunes and cut-short jobs do
\* (_blackouts.py:10).
THEOREM BlackoutsSafeCorrect == BlackoutsSpec => []BlackoutsSafe
<1>1. BlackoutsInv /\ [BlackoutsNext]_blackoutVars => BlackoutsInv'
  BY BlackoutsShapeStep, AgreedStep DEF BlackoutsInv
<1>2. BlackoutsInv => BlackoutsSafe
  <2>. SUFFICES ASSUME BlackoutsInv PROVE BlackoutsType /\ HeldOver
    BY DEF BlackoutsSafe
  <2>1. BlackoutsType
    BY DEF BlackoutsInv, BlackoutsShape, BlackoutsType, Ends
  <2>2. HeldOver
    <3>1. \A t \in Airing : until[t] \in Nat /\ promised[t] \in Nat /\ day \in Nat
      BY BlackoutsNumbers DEF BlackoutsInv
    <3>. QED  BY <3>1 DEF BlackoutsInv, Agreed, HeldOver
  <2>. QED  BY <2>1, <2>2
<1>. QED  BY <1>1, <1>2, InitBlackoutsInv, PTL DEF BlackoutsSpec

-----------------------------------------------------------------------------
(***************************************************************************)
(* The inductive invariant.  What stands against a title at any moment of  *)
(* a request is between what has all the while and what ever has           *)
(* (Between), so a read that gathers names gathers at least the former's   *)
(* and at most the latter's.  Rightly gathered stays rightly gathered:     *)
(* the one only shrinks, the other only grows.                             *)
(***************************************************************************)
LookLabels == {"idle", "one", "played", "lists", "resolve", "blackouts", "rows", "row", "listed", "black", "done"}

VisibilityShape ==
  /\ layout \in Layouts /\ shape \in [Tokens -> Shapes] /\ why \in [Tokens -> SUBSET Reasons]
  /\ lasting \in [Tokens -> SUBSET Reasons] /\ ever \in [Tokens -> SUBSET Reasons]
  /\ look \in [op : Asks \cup {"none"}, by : Viewers, pc : LookLabels,
               listed : SUBSET [t : Tokens, as : Shapes], out : SUBSET Tokens]
  /\ shown \subseteq Tokens

Between == \A t \in Tokens : lasting[t] \subseteq why[t] /\ why[t] \subseteq ever[t]

LookRoute ==
  /\ look.pc \in {"played", "lists", "resolve", "blackouts", "rows"} => look.op = "titles"
  /\ look.pc = "played" => look.by = "user"
  /\ look.pc = "blackouts" => look.by # "unhidden"
  /\ look.pc \in {"row", "listed", "black"} => look.op = "item"

Curated == {"event", "promo"}

\* Nothing is gathered that nothing ever stood against.
Grounded ==
  /\ look.pc \in {"lists", "resolve", "blackouts", "rows"} => \A t \in look.out : Those(ever, t) # {}
  /\ look.pc = "resolve" => \A n \in look.listed : ever[n.t] \cap Curated # {}
  /\ look.pc \in {"listed", "black"} => \A t \in Tokens \ shown : Those(ever, t) # {}

\* What stands all the while has been gathered once its read is over.
Gathered ==
  \A t \in Tokens :
    /\ look.pc \in {"lists", "resolve", "blackouts", "rows"} /\ look.by = "user" /\ "played" \in lasting[t] => t \in look.out
    /\ look.pc = "resolve" /\ lasting[t] \cap Curated # {} => \E n \in look.listed : n.t = t
    /\ look.pc \in {"blackouts", "rows"} /\ lasting[t] \cap Curated # {} => t \in look.out \/ "gone" \in ever[t]
    /\ look.pc = "rows" /\ look.by # "unhidden" /\ "blackout" \in lasting[t] => t \in look.out
    /\ look.pc \in {"listed", "black"} /\ "gone" \in lasting[t] => t \notin shown
    /\ look.pc = "black" /\ lasting[t] \cap Curated # {} => t \notin shown

VisibilityInv == VisibilityShape /\ Between /\ LookRoute /\ Grounded /\ Gathered /\ ShownRightly

\* What counts for whom.
LEMMA Counts ==
  /\ look.op = "item" => Counting(look.op, look.by) = {"gone", "event", "promo", "blackout"}
  /\ look.op = "titles" /\ look.by = "user" => Counting(look.op, look.by) = Reasons
  /\ look.op = "titles" /\ look.by = "admin" => Counting(look.op, look.by) = Reasons \ {"played"}
  /\ look.op = "titles" /\ look.by = "unhidden" => Counting(look.op, look.by) = {"gone", "event", "promo"}
<1>1. CASE look.op = "item" BY <1>1 DEF Counting
<1>2. CASE look.op = "titles" /\ look.by = "user" BY <1>2 DEF Counting
<1>3. CASE look.op = "titles" /\ look.by = "admin" BY <1>3 DEF Counting
<1>4. CASE look.op = "titles" /\ look.by = "unhidden" BY <1>4 DEF Counting
<1> QED BY <1>1, <1>2, <1>3, <1>4

LEMMA VInitially == VisibilityInit => VisibilityInv
<1> SUFFICES ASSUME VisibilityInit PROVE VisibilityInv OBVIOUS
<1>1. look.pc = "idle" BY DEF VisibilityInit, NoLook
<1>2. VisibilityShape BY DEF VisibilityInit, NoLook, VisibilityShape, Asks, Viewers, LookLabels
<1>3. Between BY DEF VisibilityInit, Between
<1>4. LookRoute /\ Grounded /\ Gathered /\ ShownRightly BY <1>1 DEF LookRoute, Grounded, Gathered, ShownRightly
<1> QED BY <1>2, <1>3, <1>4 DEF VisibilityInv

LEMMA LookStep == VisibilityInv /\ Look => VisibilityInv'
<1> SUFFICES ASSUME VisibilityInv, Look PROVE VisibilityInv' OBVIOUS
<1>1. PICK op \in Asks, by \in Viewers :
        /\ (op = "item" => by = "user")
        /\ look' = [NoLook EXCEPT !.op = op, !.by = by,
             !.pc = IF layout = "single" THEN "one" ELSE IF op = "item" THEN "row"
                    ELSE IF by = "user" THEN "played" ELSE "lists"]
  BY DEF Look
<1> DEFINE pc == IF layout = "single" THEN "one" ELSE IF op = "item" THEN "row"
                 ELSE IF by = "user" THEN "played" ELSE "lists"
<1>2. look' = [op |-> op, by |-> by, pc |-> pc, listed |-> {}, out |-> {}] BY <1>1 DEF NoLook
<1>3. /\ layout' = layout /\ shape' = shape /\ why' = why /\ lasting' = why /\ ever' = why /\ shown' = {}
  BY DEF Look
<1>4. /\ look'.op = op /\ look'.by = by /\ look'.pc = pc /\ look'.listed = {} /\ look'.out = {}
      /\ pc \in {"one", "row", "played", "lists"}
  BY <1>2
<1>5. VisibilityShape' BY <1>2, <1>3, <1>4 DEF VisibilityInv, VisibilityShape, LookLabels
<1>6. Between' BY <1>3 DEF Between
<1>7. LookRoute' BY <1>4 DEF LookRoute, Asks, Viewers
<1>8. Grounded' BY <1>4 DEF Grounded
<1>9. Gathered'
  <2>1. pc = "lists" => by # "user" OBVIOUS
  <2> QED BY <1>4, <2>1 DEF Gathered
<1>10. ShownRightly' BY <1>4 DEF ShownRightly
<1> QED BY <1>5, <1>6, <1>7, <1>8, <1>9, <1>10 DEF VisibilityInv

\* Others may do what they like.
LEMMA TurnStep == VisibilityInv /\ (Turn \/ Ended) => VisibilityInv'
<1> SUFFICES ASSUME VisibilityInv, Turn \/ Ended PROVE VisibilityInv' OBVIOUS
<1>1. /\ layout' = layout /\ shape' = shape /\ look' = look /\ shown' = shown /\ look.pc # "done"
      /\ lasting' = [t \in Tokens |-> lasting[t] \cap why'[t]] /\ ever' = [t \in Tokens |-> ever[t] \cup why'[t]]
  BY DEF Turn, Ended
<1>2. why' \in [Tokens -> SUBSET Reasons]
  <2>1. CASE Turn
    <3>1. PICK t \in Tokens, r \in Reasons \ {"played"} :
            why' = [why EXCEPT ![t] = IF r \in @ THEN @ \ {r} ELSE @ \cup {r}]
      BY <2>1 DEF Turn
    <3> QED BY <3>1 DEF VisibilityInv, VisibilityShape
  <2>2. CASE Ended
    <3>1. PICK t \in Tokens : why' = [why EXCEPT ![t] = IF Spared(t) THEN @ ELSE @ \cup {"played"}]
      BY <2>2 DEF Ended
    <3>2. "played" \in Reasons BY DEF Reasons
    <3> QED BY <3>1, <3>2 DEF VisibilityInv, VisibilityShape
  <2> QED BY <2>1, <2>2
<1>3. \A t \in Tokens : lasting'[t] \subseteq lasting[t] /\ ever[t] \subseteq ever'[t]
                       /\ lasting'[t] \subseteq why'[t] /\ why'[t] \subseteq ever'[t]
  BY <1>1
<1>4. VisibilityShape' BY <1>1, <1>2 DEF VisibilityInv, VisibilityShape
<1>5. Between' BY <1>3 DEF Between
<1>6. LookRoute' BY <1>1 DEF VisibilityInv, LookRoute
<1>7. Grounded'
  <2>1. look.out \subseteq Tokens /\ \A n \in look.listed : n.t \in Tokens BY DEF VisibilityInv, VisibilityShape
  <2>2. \A t \in Tokens : Those(ever, t) # {} => Those(ever, t)' # {} BY <1>1, <1>3 DEF Those
  <2>3. \A t \in Tokens : ever[t] \cap Curated # {} => ever'[t] \cap Curated # {} BY <1>3
  <2> QED BY <1>1, <2>1, <2>2, <2>3 DEF VisibilityInv, Grounded
<1>8. Gathered'
  <2>1. \A t \in Tokens : lasting'[t] \cap Curated # {} => lasting[t] \cap Curated # {} BY <1>3
  <2> QED BY <1>1, <1>3, <2>1 DEF VisibilityInv, Gathered
<1>9. ShownRightly' BY <1>1 DEF ShownRightly
<1> QED BY <1>4, <1>5, <1>6, <1>7, <1>8, <1>9 DEF VisibilityInv
-----------------------------------------------------------------------------
(* The reads of a request.                                                 *)
LEMMA GatherSteps == VisibilityInv /\ (Played \/ ListsRead \/ Resolving \/ BlackoutRows) => VisibilityInv'
<1> SUFFICES ASSUME VisibilityInv, Played \/ ListsRead \/ Resolving \/ BlackoutRows PROVE VisibilityInv' OBVIOUS
<1>1. /\ layout' = layout /\ shape' = shape /\ why' = why /\ lasting' = lasting /\ ever' = ever /\ shown' = shown
      /\ look.pc \in {"played", "lists", "resolve", "blackouts"}
      /\ look'.op = look.op /\ look'.by = look.by
  BY DEF Played, ListsRead, Resolving, BlackoutRows, Still, VisibilityInv, VisibilityShape
<1>2. look.op = "titles" /\ look.by \in Viewers BY <1>1 DEF VisibilityInv, LookRoute, VisibilityShape
<1>3. {"gone", "event", "promo"} \subseteq Counting(look.op, look.by)
  BY <1>2, Counts DEF Viewers, Reasons
<1>4. look.by # "unhidden" => "blackout" \in Counting(look.op, look.by)
  BY <1>2, Counts DEF Viewers, Reasons
<1>5. look.by = "user" => "played" \in Counting(look.op, look.by)
  BY <1>2, Counts DEF Reasons
<1>6. \A t \in Tokens : Those(ever, t)' = Those(ever, t) BY <1>1 DEF Those
<1>7. Between' BY <1>1 DEF VisibilityInv, Between
<1>8. CASE Played
  <2>1. /\ look' = [look EXCEPT !.pc = "lists", !.out = Holding({"played"})] /\ look.pc = "played"
    BY <1>8 DEF Played
  <2>2. look'.pc = "lists" /\ look'.out = Holding({"played"}) /\ look.by = "user"
    BY <2>1 DEF VisibilityInv, VisibilityShape, LookRoute
  <2>3. VisibilityShape' BY <1>1, <2>1 DEF VisibilityInv, VisibilityShape, LookLabels, Holding
  <2>4. LookRoute' BY <1>1, <1>2, <2>2 DEF LookRoute
  <2>5. \A t \in Holding({"played"}) : Those(ever, t) # {}
    BY <1>5, <2>2 DEF Holding, VisibilityInv, Between, Those
  <2>6. Grounded'
    <3>1. Holding({"played"}) \subseteq Tokens BY DEF Holding
    <3> QED BY <1>6, <2>2, <2>5, <3>1 DEF Grounded
  <2>7. Gathered' BY <1>1, <2>2 DEF Gathered, Holding, VisibilityInv, Between
  <2>8. ShownRightly' BY <2>2 DEF ShownRightly
  <2> QED BY <1>7, <2>3, <2>4, <2>6, <2>7, <2>8 DEF VisibilityInv
<1>9. CASE ListsRead
  <2> DEFINE names == {[t |-> t, as |-> shape[t]] : t \in Holding({"event", "promo"})}
  <2>1. look' = [look EXCEPT !.pc = "resolve", !.listed = names] /\ look.pc = "lists"
    BY <1>9 DEF ListsRead
  <2>2. look'.pc = "resolve" /\ look'.listed = names /\ look'.out = look.out
    BY <2>1 DEF VisibilityInv, VisibilityShape
  <2>3. names \subseteq [t : Tokens, as : Shapes] BY DEF VisibilityInv, VisibilityShape, Holding
  <2>4. VisibilityShape' BY <1>1, <2>1, <2>3 DEF VisibilityInv, VisibilityShape, LookLabels
  <2>5. LookRoute' BY <1>1, <1>2, <2>2 DEF LookRoute
  <2>6. \A n \in names : n.t \in Tokens /\ ever[n.t] \cap Curated # {}
    BY DEF Holding, VisibilityInv, Between, Curated
  <2>7. \A t \in Tokens : lasting[t] \cap Curated # {} => \E n \in names : n.t = t
    <3> SUFFICES ASSUME NEW t \in Tokens, lasting[t] \cap Curated # {} PROVE \E n \in names : n.t = t
      OBVIOUS
    <3>1. t \in Holding({"event", "promo"}) BY DEF Holding, VisibilityInv, Between, Curated
    <3>2. [t |-> t, as |-> shape[t]] \in names BY <3>1
    <3> QED BY <3>2
  <2> HIDE DEF names
  <2>8. Grounded'
    <3>1. look.out \subseteq Tokens BY DEF VisibilityInv, VisibilityShape
    <3> QED BY <1>1, <1>6, <2>1, <2>2, <2>6, <3>1 DEF Grounded, VisibilityInv
  <2>9. Gathered' BY <1>1, <2>1, <2>2, <2>7 DEF Gathered, VisibilityInv
  <2>10. ShownRightly' BY <2>2 DEF ShownRightly
  <2> QED BY <1>7, <2>4, <2>5, <2>8, <2>9, <2>10 DEF VisibilityInv
<1>10. CASE Resolving
  <2> DEFINE next == IF look.by = "unhidden" THEN "rows" ELSE "blackouts"
  <2>1. look' = [look EXCEPT !.pc = next, !.out = look.out \cup Resolved(look.listed)] /\ look.pc = "resolve"
    BY <1>10 DEF Resolving
  <2>2. look'.pc = next /\ look'.out = look.out \cup Resolved(look.listed) /\ next \in {"rows", "blackouts"}
    BY <2>1 DEF VisibilityInv, VisibilityShape
  <2>3. Resolved(look.listed) \subseteq Tokens BY DEF VisibilityInv, VisibilityShape, Resolved
  <2>4. VisibilityShape' BY <1>1, <2>1, <2>3 DEF VisibilityInv, VisibilityShape, LookLabels
  <2>5. LookRoute' BY <1>1, <1>2, <2>2 DEF LookRoute
  <2>6. \A t \in Resolved(look.listed) : Those(ever, t) # {}
    <3>1. \A t \in Resolved(look.listed) : ever[t] \cap Curated # {} BY <2>1 DEF VisibilityInv, Grounded, Resolved
    <3> QED BY <1>3, <3>1 DEF Those, Curated
  <2>7. Grounded'
    <3>1. look.out \subseteq Tokens BY DEF VisibilityInv, VisibilityShape
    <3>2. \A t \in look.out : Those(ever, t) # {} BY <2>1 DEF VisibilityInv, Grounded
    <3>3. look'.pc \in {"rows", "blackouts"} BY <2>2
    <3> QED BY <1>6, <2>2, <2>3, <2>6, <3>1, <3>2, <3>3 DEF Grounded
  <2>8. \A t \in Tokens : lasting[t] \cap Curated # {} => t \in look'.out \/ "gone" \in ever[t]
    <3> SUFFICES ASSUME NEW t \in Tokens, lasting[t] \cap Curated # {} PROVE t \in look'.out \/ "gone" \in ever[t]
      OBVIOUS
    <3>1. PICK n \in look.listed : n.t = t BY <2>1 DEF VisibilityInv, Gathered
    <3>2. t \in Holding({"gone"}) => "gone" \in ever[t] BY DEF Holding, VisibilityInv, Between
    <3> QED BY <2>2, <3>1, <3>2 DEF Resolved
  <2>9. Gathered' BY <1>1, <2>1, <2>2, <2>8 DEF Gathered, VisibilityInv
  <2>10. ShownRightly' BY <2>2 DEF ShownRightly
  <2> QED BY <1>7, <2>4, <2>5, <2>7, <2>9, <2>10 DEF VisibilityInv
<1>11. CASE BlackoutRows
  <2>1. look' = [look EXCEPT !.pc = "rows", !.out = look.out \cup Holding({"blackout"})] /\ look.pc = "blackouts"
    BY <1>11 DEF BlackoutRows
  <2>2. look'.pc = "rows" /\ look'.out = look.out \cup Holding({"blackout"}) /\ look.by # "unhidden"
    BY <2>1 DEF VisibilityInv, VisibilityShape, LookRoute
  <2>3. Holding({"blackout"}) \subseteq Tokens BY DEF Holding
  <2>4. VisibilityShape' BY <1>1, <2>1, <2>3 DEF VisibilityInv, VisibilityShape, LookLabels
  <2>5. LookRoute' BY <1>1, <1>2, <2>2 DEF LookRoute
  <2>6. \A t \in Holding({"blackout"}) : Those(ever, t) # {}
    BY <1>4, <2>2 DEF Holding, VisibilityInv, Between, Those
  <2>7. Grounded'
    <3>1. look.out \subseteq Tokens BY DEF VisibilityInv, VisibilityShape
    <3>2. \A t \in look.out : Those(ever, t) # {} BY <2>1 DEF VisibilityInv, Grounded
    <3> QED BY <1>6, <2>2, <2>3, <2>6, <3>1, <3>2 DEF Grounded
  <2>8. \A t \in Tokens : "blackout" \in lasting[t] => t \in look'.out
    BY <2>2 DEF Holding, VisibilityInv, Between
  <2>9. Gathered' BY <1>1, <2>1, <2>2, <2>8 DEF Gathered, VisibilityInv
  <2>10. ShownRightly' BY <2>2 DEF ShownRightly
  <2> QED BY <1>7, <2>4, <2>5, <2>7, <2>9, <2>10 DEF VisibilityInv
<1> QED BY <1>8, <1>9, <1>10, <1>11

\* The answers.
LEMMA AnswerSteps == VisibilityInv /\ (SingleStatement \/ TitleRows \/ ItemRow \/ ItemListed \/ ItemBlack) => VisibilityInv'
<1> SUFFICES ASSUME VisibilityInv, SingleStatement \/ TitleRows \/ ItemRow \/ ItemListed \/ ItemBlack PROVE VisibilityInv' OBVIOUS
<1>1. /\ layout' = layout /\ shape' = shape /\ why' = why /\ lasting' = lasting /\ ever' = ever
      /\ look.pc \in {"one", "rows", "row", "listed", "black"}
      /\ look' = [look EXCEPT !.pc = look'.pc] /\ look'.pc \in {"listed", "black", "done"}
  BY DEF SingleStatement, TitleRows, ItemRow, ItemListed, ItemBlack, LookAt, Still, VisibilityInv, VisibilityShape
<1>2. look'.op = look.op /\ look'.by = look.by /\ look'.out = look.out BY <1>1 DEF VisibilityInv, VisibilityShape
<1>3. shown' \subseteq Tokens
  BY DEF SingleStatement, TitleRows, ItemRow, ItemListed, ItemBlack, VisibilityInv, VisibilityShape
<1>4. VisibilityShape'
  <2>1. look' \in [op : Asks \cup {"none"}, by : Viewers, pc : LookLabels,
                  listed : SUBSET [t : Tokens, as : Shapes], out : SUBSET Tokens]
    BY <1>1 DEF VisibilityInv, VisibilityShape, LookLabels
  <2> QED BY <1>1, <1>3, <2>1 DEF VisibilityInv, VisibilityShape
<1>5. Between' BY <1>1 DEF VisibilityInv, Between
<1>6. \A t \in Tokens : Those(ever, t)' = Those(ever, t) /\ Those(lasting, t)' = Those(lasting, t)
  BY <1>1, <1>2 DEF Those
<1>7. \A t \in Tokens : lasting[t] \subseteq why[t] /\ why[t] \subseteq ever[t]
                       /\ Those(lasting, t) \subseteq Those(why, t) /\ Those(why, t) \subseteq Those(ever, t)
  BY DEF VisibilityInv, Between, Those
<1>8. CASE SingleStatement
  <2>1. look'.pc = "done" /\ shown' = {t \in Tokens : Those(why, t) = {}} BY <1>8 DEF SingleStatement, LookAt, VisibilityInv, VisibilityShape
  <2>2. LookRoute' /\ Grounded' /\ Gathered' BY <2>1 DEF LookRoute, Grounded, Gathered
  <2>3. ShownRightly' BY <1>6, <1>7, <2>1 DEF ShownRightly
  <2> QED BY <1>4, <1>5, <2>2, <2>3 DEF VisibilityInv
<1>9. CASE TitleRows
  <2>1. /\ look.pc = "rows" /\ look'.pc = "done" /\ look.op = "titles" /\ look.by \in Viewers
        /\ shown' = {t \in Tokens \ look.out : Those(why, t) \cap {"gone", "curated"} = {}}
    BY <1>9 DEF TitleRows, LookAt, VisibilityInv, VisibilityShape, LookRoute
  <2>2. LookRoute' /\ Grounded' /\ Gathered' BY <2>1 DEF LookRoute, Grounded, Gathered
  <2>3. ASSUME NEW t \in Tokens, Those(lasting, t) # {}, "gone" \in ever[t] => "gone" \in lasting[t]
        PROVE  t \notin shown'
    <3>1. PICK r \in Those(lasting, t) : TRUE BY <2>3
    <3>2. r \in lasting[t] /\ r \in Counting(look.op, look.by) /\ r \in Those(why, t) BY <3>1, <1>7 DEF Those
    <3>3. r \in Reasons BY <3>2 DEF VisibilityInv, VisibilityShape
    <3>4. CASE r \in {"gone", "curated"} BY <3>2, <3>4, <2>1
    <3>5. CASE r \in Curated
      <4>1. t \in look.out \/ "gone" \in lasting[t] BY <2>1, <2>3, <3>2, <3>5 DEF VisibilityInv, Gathered
      <4>2. "gone" \in Counting(look.op, look.by) BY <2>1, Counts DEF Viewers, Reasons
      <4>3. "gone" \in lasting[t] => "gone" \in Those(why, t) BY <1>7, <4>2 DEF Those
      <4> QED BY <2>1, <4>1, <4>3
    <3>6. CASE r = "blackout"
      <4>1. look.by # "unhidden" BY <2>1, <3>2, <3>6, Counts
      <4> QED BY <2>1, <3>2, <3>6, <4>1 DEF VisibilityInv, Gathered
    <3>7. CASE r = "played"
      <4>1. look.by = "user" BY <2>1, <3>2, <3>7, Counts DEF Viewers
      <4> QED BY <2>1, <3>2, <3>7, <4>1 DEF VisibilityInv, Gathered
    <3> QED BY <3>3, <3>4, <3>5, <3>6, <3>7 DEF Reasons, Curated
  <2>4. ASSUME NEW t \in Tokens, Those(ever, t) = {} PROVE t \in shown'
    <3>1. t \notin look.out BY <2>1, <2>4 DEF VisibilityInv, Grounded
    <3>2. Those(why, t) = {} BY <1>7, <2>4
    <3> QED BY <2>1, <3>1, <3>2
  <2>5. ShownRightly' BY <1>1, <1>6, <2>3, <2>4 DEF ShownRightly
  <2> QED BY <1>4, <1>5, <2>2, <2>5 DEF VisibilityInv
<1>10. CASE ItemRow
  <2>1. look.pc = "row" /\ look'.pc = "listed" /\ look.op = "item" /\ shown' = Tokens \ Holding({"gone"})
    BY <1>10 DEF ItemRow, LookAt, VisibilityInv, VisibilityShape, LookRoute
  <2>2. LookRoute' /\ ShownRightly' BY <1>2, <2>1 DEF LookRoute, ShownRightly
  <2>3. \A t \in Tokens \ shown' : "gone" \in Those(ever, t) BY <1>7, <2>1, Counts DEF Those, Holding
  <2>4. Grounded' BY <1>6, <2>1, <2>3 DEF Grounded
  <2>5. \A t \in Tokens : "gone" \in lasting[t] => t \notin shown' BY <1>7, <2>1 DEF Holding
  <2>6. Gathered' BY <1>1, <2>1, <2>5 DEF Gathered
  <2> QED BY <1>4, <1>5, <2>2, <2>4, <2>6 DEF VisibilityInv
<1>11. CASE ItemListed
  <2>1. look.pc = "listed" /\ look'.pc = "black" /\ look.op = "item" /\ shown' = shown \ Holding({"event", "promo"})
    BY <1>11 DEF ItemListed, LookAt, VisibilityInv, VisibilityShape, LookRoute
  <2>2. LookRoute' /\ ShownRightly' BY <1>2, <2>1 DEF LookRoute, ShownRightly
  <2>3. \A t \in Tokens : t \in Holding({"event", "promo"}) => Those(ever, t) # {}
    BY <1>7, <2>1, Counts DEF Those, Holding
  <2>4. Grounded'
    <3>1. \A t \in Tokens \ shown : Those(ever, t) # {} BY <2>1 DEF VisibilityInv, Grounded
    <3> QED BY <1>6, <2>1, <2>3, <3>1 DEF Grounded
  <2>5. \A t \in Tokens : lasting[t] \cap Curated # {} => t \notin shown' BY <1>7, <2>1 DEF Holding, Curated
  <2>6. \A t \in Tokens : "gone" \in lasting[t] => t \notin shown' BY <2>1 DEF VisibilityInv, Gathered
  <2>7. Gathered' BY <1>1, <2>1, <2>5, <2>6 DEF Gathered
  <2> QED BY <1>4, <1>5, <2>2, <2>4, <2>7 DEF VisibilityInv
<1>12. CASE ItemBlack
  <2>1. look.pc = "black" /\ look'.pc = "done" /\ look.op = "item" /\ shown' = shown \ Holding({"blackout"})
    BY <1>12 DEF ItemBlack, LookAt, VisibilityInv, VisibilityShape, LookRoute
  <2>2. LookRoute' /\ Grounded' /\ Gathered' BY <2>1 DEF LookRoute, Grounded, Gathered
  <2>3. \A t \in Tokens : "blackout" \in lasting[t] => t \notin shown' BY <1>7, <2>1 DEF Holding
  <2>4. \A t \in Tokens : t \in Holding({"blackout"}) => Those(ever, t) # {}
    BY <1>7, <2>1, Counts DEF Those, Holding
  <2>5. \A t \in Tokens : Those(lasting, t) # {} => t \notin shown'
    <3>1. \A t \in Tokens : lasting[t] \cap Curated # {} \/ "gone" \in lasting[t] => t \notin shown
      BY <2>1 DEF VisibilityInv, Gathered
    <3> QED BY <2>1, <2>3, <3>1, Counts DEF Those, Curated
  <2>6. \A t \in Tokens : Those(ever, t) = {} => t \in shown' BY <2>1, <2>4 DEF VisibilityInv, Grounded
  <2>7. ShownRightly' BY <1>1, <1>6, <2>5, <2>6 DEF ShownRightly
  <2> QED BY <1>4, <1>5, <2>2, <2>7 DEF VisibilityInv
<1> QED BY <1>8, <1>9, <1>10, <1>11, <1>12

LEMMA VStep == VisibilityInv /\ [VisibilityNext]_visibilityVars => VisibilityInv'
<1> SUFFICES ASSUME VisibilityInv, [VisibilityNext]_visibilityVars PROVE VisibilityInv' OBVIOUS
<1>1. CASE UNCHANGED visibilityVars
  BY <1>1 DEF visibilityVars, VisibilityInv, VisibilityShape, Between, LookRoute, Grounded, Gathered, ShownRightly, Those
<1>2. CASE VisibilityNext
  BY <1>2, LookStep, TurnStep, GatherSteps, AnswerSteps DEF VisibilityNext
<1> QED BY <1>1, <1>2

(* However the databases lie and whatever changes beside it, a request     *)
(* does not show a title something stands against all the while, and shows *)
(* every title nothing ever stood against.                                 *)
THEOREM VisibilitySafeCorrect == VisibilitySpec => []VisibilitySafe
<1>1. VisibilityInv => VisibilitySafe
  BY DEF VisibilityInv, VisibilityShape, Between, LookLabels, VisibilitySafe, VisibilityType
<1> QED BY <1>1, VInitially, VStep, PTL DEF VisibilitySpec
-----------------------------------------------------------------------------
(***************************************************************************)
(* The templates.  The inductive invariant has three parts.                *)
(*                                                                         *)
(* Books: the pointer of a template only moves to newer revisions, so one  *)
(* that was current has its base behind the pointer, and the row a request *)
(* has inserted and not yet put to use is its own.                         *)
(*                                                                         *)
(* Shelves: a slug's file is its owner's or nobody's, whoever stores.      *)
(*                                                                         *)
(* Orderly: while requests come one at a time and none is cut short, there *)
(* is a default except where a request is about to make one, and what a    *)
(* request needs has not been taken from it since it looked.               *)
(***************************************************************************)
Handing == {"move", "drop", "point"}
Making == {"first", "point"}
Basing == {"open", "check", "number", "insert", "move", "drop"}
Shelving == {"claim", "store", "refs", "trash", "bury"}

TplRow == [there : BOOLEAN, cur : Nat, dflt : BOOLEAN, archived : BOOLEAN]
RevRow == [id : Nat, of : Names, no : Nat, base : Nat, uses : Slugs \cup {NoOne}]
CallRow == [pc : Labels, t : Names, was : Nat, no : Nat, rev : Nat,
            uses : Slugs \cup {NoOne}, slug : Slugs \cup {NoOne}]

TemplatesShape ==
  /\ tpl \in [Names -> TplRow] /\ revs \subseteq RevRow /\ IsFiniteSet(revs)
  /\ lastRev \in Nat /\ scheduled \subseteq Names /\ reigned \subseteq 1 .. lastRev
  /\ asset \in [Slugs -> [state : {"free", "live", "deleted"}, by : Users \cup {NoOne}]]
  /\ file \in [Slugs -> Users \cup {NoOne}]
  /\ call \in [Users -> CallRow] /\ crowded \in BOOLEAN /\ cut \in BOOLEAN
  /\ call[System].pc \in {"idle", "row", "first", "point"}
  /\ call[System].t = Seed /\ call[System].uses = NoOne

Ranged == \A r \in revs : r.id \in 1 .. lastRev /\ r.base < r.id
Unique == \A r, q \in revs : (r.id = q.id \/ (r.of = q.of /\ r.no = q.no)) => r = q

RevisionOf(i, t) == \E r \in revs : r.id = i /\ r.of = t

Pointers ==
  /\ \A t \in Names : ~tpl[t].there => RevsOf(t) = {} /\ tpl[t].cur = 0 /\ ~tpl[t].dflt
  /\ \A t \in Names : tpl[t].cur # 0 => tpl[t].cur \in reigned /\ RevisionOf(tpl[t].cur, t)
  /\ reigned \subseteq {r.id : r \in revs}
  /\ \A r \in revs : r.id \in reigned => r.id <= tpl[r.of].cur
  /\ \A r, q \in revs : r.id \in reigned /\ r.of = q.of /\ q.id = tpl[q.of].cur => r.no <= q.no

\* What the request of one admin knows.
Caller(e) ==
  LET c == call[e] IN
  /\ c.pc \in Basing /\ c.was # 0 => c.was \in reigned /\ RevisionOf(c.was, c.t)
  /\ c.pc = "insert" => \A r \in revs : r.id = c.was => r.no < c.no
  /\ c.pc = "move" => \A r, q \in revs : r.id = c.was /\ q.id = c.rev => r.no < q.no
  /\ c.pc \in Handing => /\ c.rev \notin reigned
                         /\ \E r \in revs : /\ r.id = c.rev /\ r.of = c.t
                                            /\ r.base = c.was /\ r.uses = c.uses
  /\ c.pc \in Basing \cup Making \cup {"clear", "set"} => tpl[c.t].there
  /\ c.pc \in Making => tpl[c.t].cur = 0
  /\ c.pc = "first" => RevsOf(c.t) = {}
  /\ c.pc \in Making \cup {"row"} => c.was = 0

Requests == \A e \in Users : Caller(e)

Apart ==
  \A d, e \in Users : d # e =>
    /\ call[d].pc \in Handing /\ call[e].pc \in Handing => call[d].rev # call[e].rev
    /\ call[d].pc \in Making /\ call[e].pc \in Making => call[d].t # call[e].t
    /\ call[d].pc = "first" /\ call[e].pc \in Basing => call[d].t # call[e].t

\* What no crash has cut short is somebody's business.
Accounted ==
  ~cut =>
    /\ \A r \in revs : r.id \in reigned \/ \E e \in Users : call[e].pc \in Handing /\ call[e].rev = r.id
    /\ \A t \in Names : tpl[t].there /\ tpl[t].cur = 0 =>
                          \E e \in Users : call[e].pc \in Making /\ call[e].t = t

Books == Ranged /\ Unique /\ Pointers /\ Requests /\ Apart /\ Accounted /\ NoLostEdit

Shelves ==
  /\ \A s \in Slugs : file[s] \in {asset[s].by, NoOne} /\ (asset[s].state = "free" => asset[s].by = NoOne)
  /\ \A e \in Users : /\ call[e].pc \in Shelving => call[e].slug \in Slugs
                      /\ call[e].pc = "store" => asset[call[e].slug].by = e

Solo == ~crowded => \A d, e \in Users : d # e => ~(Busy(d) /\ Busy(e))

\* A revision that shows an image, and an image nothing shows.
Pictured(uses) == uses # NoOne => asset[uses].state = "live" /\ file[uses] # NoOne
Unshown(s) == \A t \in Names : Live(t) => \A r \in Current(t) : r.uses # s

Ready(t) == Live(t) /\ tpl[t].cur # 0
Chosen == \E t \in Names : Ready(t) /\ \A n \in Names : tpl[n].dflt <=> n = t

Settling ==
  \/ Chosen
  \/ \E e \in Users : At(e, "set") /\ Ready(call[e].t) /\ \A n \in Names : ~tpl[n].dflt
  \/ At(System, "row") /\ \A n \in Names : ~tpl[n].there
  \/ call[System].pc \in Making /\ Live(Seed) /\ \A n \in Names : tpl[n].dflt <=> n = Seed

Heeded(e) ==
  LET c == call[e] IN
  /\ c.pc = "clear" => Ready(c.t)
  /\ c.pc \in {"count", "archive"} => ~tpl[c.t].dflt
  /\ c.pc \in {"number", "insert", "move", "row", "first", "point"} => Pictured(c.uses)
  /\ c.pc \in {"store", "trash", "bury"} => Unshown(c.slug)

Hung == \A t \in Names : Live(t) => \A r \in Current(t) : Pictured(r.uses)
Filled == \A s \in Slugs : asset[s].state = "live" /\ file[s] = NoOne =>
                             \E e \in Users : call[e].pc \in {"store", "bury"} /\ call[e].slug = s

Orderly == Solo /\ (~crowded /\ ~cut => Settling /\ Hung /\ Filled /\ \A e \in Users : Heeded(e))

TemplatesInv == TemplatesShape /\ Books /\ Shelves /\ Orderly

LEMMA Places ==
  /\ Labels = {"check", "number", "insert", "move", "drop", "row", "first", "point",
               "idle", "open", "clear", "set", "count", "archive", "plan", "claim",
               "store", "refs", "trash", "bury"}
  /\ Idle \in CallRow /\ Editors \subseteq Users /\ System \in Users \ Editors
<1>1. Labels = {"check", "number", "insert", "move", "drop", "row", "first", "point",
               "idle", "open", "clear", "set", "count", "archive", "plan", "claim",
               "store", "refs", "trash", "bury"}
  BY DEF Labels, Saving
<1>. QED  BY <1>1, MotdTemplatesAssumption DEF Idle, CallRow, Users

(* The three ways the request of an admin changes.                         *)
Others(e) == \A d \in Users \ {e} : call'[d] = call[d]

LEMMA Going ==
  ASSUME TemplatesShape, NEW e \in Users, NEW pc \in Labels, Goto(e, pc)
  PROVE  /\ call' \in [Users -> CallRow] /\ Others(e) /\ UNCHANGED ghosts
         /\ call'[e].pc = pc /\ call'[e].t = call[e].t /\ call'[e].was = call[e].was
         /\ call'[e].no = call[e].no /\ call'[e].rev = call[e].rev
         /\ call'[e].uses = call[e].uses /\ call'[e].slug = call[e].slug
BY SMTT(30) DEF TemplatesShape, Goto, Others, CallRow

LEMMA Ending ==
  ASSUME TemplatesShape, NEW e \in Users, End(e)
  PROVE  call' \in [Users -> CallRow] /\ Others(e) /\ UNCHANGED ghosts /\ call'[e] = Idle
BY Places DEF TemplatesShape, End, Others

LEMMA Serving ==
  ASSUME TemplatesShape, NEW e \in Users, NEW c \in CallRow, Serve(e, c)
  PROVE  /\ call' \in [Users -> CallRow] /\ Others(e) /\ call'[e] = c
         /\ cut' = cut /\ crowded' \in BOOLEAN
         /\ ~crowded' => ~crowded /\ \A d \in Users \ {e} : ~Busy(d)
         /\ ~Busy(System)
BY DEF TemplatesShape, Serve, Others

Looking(e) == Check(e) \/ Number(e) \/ Count(e) \/ DoPlan(e) \/ Refs(e)
Shelved(e) == Claim(e) \/ Store(e) \/ Trash(e) \/ Bury(e)
Defaulting(e) == Clear(e) \/ Set(e) \/ DoArchive(e)
Revising(e) == Insert(e) \/ Move(e) \/ Drop(e)
Founding(e) == PutRow(e) \/ First(e) \/ Point(e)

LEMMA Kinds ==
  TemplatesNext =>
    \/ Crash
    \/ \E e \in Editors : Starts(e)
    \/ \E e \in Users : Looking(e) \/ Shelved(e) \/ Defaulting(e) \/ Revising(e) \/ Founding(e)
BY DEF TemplatesNext, Steps, Looking, Shelved, Defaulting, Revising, Founding

LEMMA Checking ==
  ASSUME NEW t \in Names, NEW was \in Nat, NEW uses \in Slugs \cup {NoOne}
  PROVE  LET c == [Idle EXCEPT !.pc = "check", !.t = t, !.was = was, !.uses = uses]
         IN  c \in CallRow /\ c.pc = "check"
BY Places DEF CallRow, Idle

\* What a request starts with.
LEMMA Asked ==
  ASSUME TemplatesShape, NEW e \in Editors, Starts(e)
  PROVE  /\ UNCHANGED <<tables, media>> /\ scheduled' \subseteq Names
         /\ call[e].pc \in {"idle", "open"}
         /\ call'[e].pc \in {"idle", "open", "check", "row", "clear", "count", "plan", "claim", "refs"}
         /\ \E c \in CallRow : Serve(e, c)
<1>. DEFINE Fine == /\ UNCHANGED <<tables, media>> /\ scheduled' \subseteq Names
                    /\ call[e].pc \in {"idle", "open"}
                    /\ call'[e].pc \in {"idle", "open", "check", "row", "clear", "count", "plan", "claim", "refs"}
                    /\ \E c \in CallRow : Serve(e, c)
<1>0. \A c : Serve(e, c) => call'[e] = c
  BY Places DEF Serve, TemplatesShape
<1>1. ASSUME NEW c \in CallRow, Begin(e, c) PROVE At(e, "idle") /\ Serve(e, c)
  BY <1>1 DEF Begin
<1>2. ASSUME NEW t \in Names, Open(e, t) PROVE Fine
  <2>. DEFINE c == [Idle EXCEPT !.pc = "open", !.t = t, !.was = tpl[t].cur]
  <2>1. c \in CallRow /\ c.pc = "open"
    BY Places, ZenonT(30) DEF TemplatesShape, TplRow, CallRow, Idle
  <2>. QED  BY <1>0, <1>1, <1>2, <2>1 DEF Open, At, TemplatesShape
<1>3. ASSUME NEW t \in Names, SetDefault(e, t) \/ Archive(e, t) \/ Plan(e, t) PROVE Fine
  <2>1. PICK pc \in {"clear", "count", "plan"} :
          Begin(e, [Idle EXCEPT !.pc = pc, !.t = t]) /\ UNCHANGED <<tables, scheduled, media>>
    BY <1>3 DEF SetDefault, Archive, Plan
  <2>2. [Idle EXCEPT !.pc = pc, !.t = t] \in CallRow /\ [Idle EXCEPT !.pc = pc, !.t = t].pc = pc
    BY Places DEF CallRow, Idle
  <2>. QED  BY <1>0, <1>1, <2>1, <2>2 DEF At, TemplatesShape
<1>4. ASSUME NEW t \in Names, Unplan(e, t) PROVE Fine
  BY <1>0, <1>1, <1>4, Places DEF Unplan, At, TemplatesShape, Idle, CallRow
<1>5. ASSUME NEW t \in Names, NEW u \in Slugs \cup {NoOne}, Create(e, t, u) PROVE Fine
  <2>. DEFINE c == [Idle EXCEPT !.pc = "row", !.t = t, !.uses = u]
  <2>1. c \in CallRow /\ c.pc = "row"
    BY Places DEF CallRow, Idle
  <2>. QED  BY <1>0, <1>1, <1>5, <2>1 DEF Create, At, TemplatesShape
<1>6. ASSUME NEW u \in Slugs \cup {NoOne}, Save(e, u) PROVE Fine
  <2>. DEFINE c == [call[e] EXCEPT !.pc = "check", !.uses = u]
  <2>1. c \in CallRow /\ c.pc = "check" /\ Idle \in CallRow /\ Idle.pc = "idle"
    BY Places, ZenonT(30) DEF TemplatesShape, CallRow, Idle
  <2>2. Serve(e, c) \/ Serve(e, Idle)
    BY <1>6 DEF Save
  <2>. QED  BY <1>0, <1>6, <2>1, <2>2 DEF Save, At, TemplatesShape
<1>7. ASSUME NEW r \in revs, Restore(e, r) PROVE Fine
  <2>. DEFINE c == [Idle EXCEPT !.pc = "check", !.t = r.of, !.was = tpl[r.of].cur, !.uses = r.uses]
  <2>1. r.of \in Names /\ r.uses \in Slugs \cup {NoOne}
    BY DEF TemplatesShape, RevRow
  <2>2. tpl[r.of].cur \in Nat
    BY <2>1 DEF TemplatesShape, TplRow
  <2>3. c \in CallRow /\ c.pc = "check"
    BY <2>1, <2>2, Checking
  <2>. QED  BY <1>0, <1>1, <1>7, <2>3 DEF Restore, At, TemplatesShape
<1>8. ASSUME NEW s \in Slugs, Upload(e, s) \/ Delete(e, s) PROVE Fine
  <2>1. PICK pc \in {"claim", "refs"} :
          Begin(e, [Idle EXCEPT !.pc = pc, !.slug = s]) /\ UNCHANGED <<tables, scheduled, media>>
    BY <1>8 DEF Upload, Delete
  <2>2. [Idle EXCEPT !.pc = pc, !.slug = s] \in CallRow /\ [Idle EXCEPT !.pc = pc, !.slug = s].pc = pc
    BY Places DEF CallRow, Idle
  <2>. QED  BY <1>0, <1>1, <2>1, <2>2 DEF At, TemplatesShape
<1>. QED  BY <1>2, <1>3, <1>4, <1>5, <1>6, <1>7, <1>8 DEF Starts

\* The greatest number of a template's revisions so far is a number.
LEMMA Highest ==
  ASSUME TemplatesShape, NEW t \in Names
  PROVE  LET top == Max({r.no : r \in RevsOf(t)} \cup {0})
         IN  top \in Nat /\ \A r \in RevsOf(t) : r.no <= top
<1>. DEFINE f == [r \in RevsOf(t) |-> r.no]
            nos == {f[r] : r \in RevsOf(t)}
            S == nos \cup {0}
<1>1. RevsOf(t) \subseteq revs /\ IsFiniteSet(RevsOf(t))
  BY FS_Subset DEF TemplatesShape, RevsOf
<1>2. \A r \in RevsOf(t) : r.no \in Nat
  BY <1>1 DEF TemplatesShape, RevRow
<1>3. IsFiniteSet(nos)
  <2>1. f = [r \in RevsOf(t) |-> f[r]]
    OBVIOUS
  <2>. HIDE DEF f
  <2>. QED  BY <1>1, <2>1, FiniteImage
<1>4. IsFiniteSet(S)
  <2>. HIDE DEF nos
  <2>. QED  BY <1>3, FS_Singleton, FS_Union
<1>5. S \subseteq Nat /\ S # {}
  BY <1>2
<1>6. PICK x \in S : \A y \in S : x >= y
  <2>. HIDE DEF S
  <2>. QED  BY <1>4, <1>5, NatMax
<1>7. Max(S) \in S /\ \A y \in S : Max(S) >= y
  <2>. HIDE DEF S
  <2>. QED  BY <1>6 DEF Max
<1>8. S = {r.no : r \in RevsOf(t)} \cup {0}
  OBVIOUS
<1>9. Max(S) \in Nat /\ \A r \in RevsOf(t) : r.no <= Max(S)
  <2>1. \A r \in RevsOf(t) : r.no \in S
    BY <1>8
  <2>. HIDE DEF S
  <2>. QED  BY <1>2, <1>5, <1>7, <2>1
<1>. QED  BY <1>8, <1>9

LEMMA NumberedCall ==
  ASSUME TemplatesShape, NEW e \in Users, Number(e)
  PROVE  /\ call' \in [Users -> CallRow] /\ Others(e) /\ UNCHANGED ghosts
         /\ call'[e].pc = "insert" /\ call'[e].t = call[e].t /\ call'[e].was = call[e].was
         /\ call'[e].uses = call[e].uses /\ call'[e].slug = call[e].slug
         /\ \A r \in RevsOf(call[e].t) : r.no < call'[e].no
<1>. DEFINE top == Max({r.no : r \in RevsOf(call[e].t)} \cup {0})
<1>1. call[e].t \in Names
  BY DEF TemplatesShape, CallRow
<1>2. top \in Nat /\ \A r \in RevsOf(call[e].t) : r.no <= top
  BY <1>1, Highest
<1>3. call' = [call EXCEPT ![e].pc = "insert", ![e].no = top + 1]
  BY DEF Number
<1>4. \A r \in RevsOf(call[e].t) : r.no \in Nat
  BY DEF TemplatesShape, RevsOf, RevRow
<1>. HIDE DEF top
<1>5. /\ call' \in [Users -> CallRow] /\ call'[e].pc = "insert" /\ call'[e].no = top + 1
      /\ call'[e].t = call[e].t /\ call'[e].was = call[e].was
      /\ call'[e].uses = call[e].uses /\ call'[e].slug = call[e].slug
  <2>. DEFINE c == [call[e] EXCEPT !.pc = "insert", !.no = top + 1]
  <2>1. "insert" \in Labels /\ top + 1 \in Nat /\ call[e] \in CallRow
    BY <1>2, Places DEF TemplatesShape
  <2>2. /\ c \in CallRow /\ c.pc = "insert" /\ c.no = top + 1 /\ c.t = call[e].t /\ c.was = call[e].was
        /\ c.uses = call[e].uses /\ c.slug = call[e].slug
    BY <2>1 DEF CallRow
  <2>3. call' = [call EXCEPT ![e] = c]
    BY <1>3
  <2>. HIDE DEF c
  <2>. QED  BY <2>2, <2>3 DEF TemplatesShape
<1>6. Others(e)
  BY <1>3 DEF Others, TemplatesShape
<1>7. \A r \in RevsOf(call[e].t) : r.no < call'[e].no
  <2>. SUFFICES ASSUME NEW r \in RevsOf(call[e].t) PROVE r.no < call'[e].no
    OBVIOUS
  <2>1. r.no \in Nat /\ r.no <= top /\ call'[e].no = top + 1
    BY <1>2, <1>4, <1>5
  <2>. QED  BY <1>2, <2>1
<1>. QED  BY <1>5, <1>6, <1>7 DEF Number

\* A look at the tables leaves them as they are.
LEMMA Looked ==
  ASSUME TemplatesShape, NEW e \in Users, Looking(e)
  PROVE  /\ UNCHANGED <<tables, media, ghosts>> /\ scheduled' \subseteq Names
         /\ call' \in [Users -> CallRow] /\ Others(e)
         /\ call[e].pc \in {"check", "number", "count", "plan", "refs"}
         /\ call'[e].pc \in {"idle", "number", "insert", "archive", "trash"}
<1>1. CASE Number(e)
  <2>1. UNCHANGED <<tables, media, ghosts>> /\ scheduled' = scheduled /\ call[e].pc = "number"
    BY <1>1 DEF Number, At
  <2>. QED  BY <1>1, <2>1, NumberedCall DEF TemplatesShape
<1>2. CASE Check(e) \/ Count(e) \/ Refs(e)
  <2>1. PICK pc \in {"number", "archive", "trash"} : Goto(e, pc) \/ End(e)
    BY <1>2 DEF Check, Count, Refs, GotoIf
  <2>2. pc \in Labels
    BY Places
  <2>3. CASE Goto(e, pc)
    BY <1>2, <2>2, <2>3, Going DEF Check, Count, Refs, At, TemplatesShape
  <2>4. CASE End(e)
    <3>1. UNCHANGED <<tables, media>> /\ scheduled' = scheduled /\ call[e].pc \in {"check", "count", "refs"}
      BY <1>2 DEF Check, Count, Refs, At
    <3>2. Idle.pc = "idle"
      BY DEF Idle
    <3>. QED  BY <2>4, <3>1, <3>2, Ending DEF TemplatesShape
  <2>. QED  BY <2>1, <2>3, <2>4
<1>3. CASE DoPlan(e)
  BY <1>3, Ending DEF DoPlan, At, TemplatesShape, Idle, CallRow
<1>. QED  BY <1>1, <1>2, <1>3 DEF Looking

\* The steps that write an image's row or file.
LEMMA ShelvedCall ==
  ASSUME TemplatesShape, NEW e \in Users, Shelved(e)
  PROVE  /\ UNCHANGED <<tables, scheduled, ghosts>>
         /\ call' \in [Users -> CallRow] /\ Others(e)
         /\ call[e].pc \in {"claim", "store", "trash", "bury"}
         /\ call'[e].pc \in {"idle", "store", "bury"}
         /\ call'[e].pc # "idle" => call'[e].slug = call[e].slug
<1>1. CASE Claim(e) \/ Trash(e)
  <2>1. PICK pc \in {"store", "bury"} : Goto(e, pc) \/ End(e)
    BY <1>1 DEF Claim, Trash, GotoIf
  <2>2. pc \in Labels
    BY Places
  <2>3. CASE Goto(e, pc)
    BY <1>1, <2>2, <2>3, Going DEF Claim, Trash, At
  <2>4. CASE End(e)
    BY <1>1, <2>4, Ending DEF Claim, Trash, At, Idle
  <2>. QED  BY <2>1, <2>3, <2>4
<1>2. CASE Store(e) \/ Bury(e)
  BY <1>2, Ending DEF Store, Bury, At, Idle
<1>. QED  BY <1>1, <1>2 DEF Shelved

LEMMA DefaultedCall ==
  ASSUME TemplatesShape, NEW e \in Users, Defaulting(e)
  PROVE  /\ UNCHANGED <<revs, lastRev, reigned, scheduled, media, ghosts>>
         /\ call' \in [Users -> CallRow] /\ Others(e)
         /\ call[e].pc \in {"clear", "set", "archive"} /\ call'[e].pc \in {"set", "idle"}
         /\ call'[e].pc = "set" => call[e].pc = "clear" /\ call'[e].t = call[e].t
<1>1. CASE Clear(e)
  BY <1>1, Places, Going DEF Clear, At
<1>2. CASE Set(e) \/ DoArchive(e)
  BY <1>2, Ending DEF Set, DoArchive, At, Idle
<1>. QED  BY <1>1, <1>2 DEF Defaulting

\* A new row gets the next number of the table.
LEMMA InsertedCall ==
  ASSUME TemplatesShape, NEW e \in Users, Insert(e)
  PROVE  /\ UNCHANGED <<tpl, reigned, scheduled, media, ghosts>>
         /\ call' \in [Users -> CallRow] /\ Others(e) /\ call[e].pc = "insert"
         /\ \/ call'[e] = Idle /\ UNCHANGED <<revs, lastRev>>
            \/ /\ \A r \in RevsOf(call[e].t) : r.no # call[e].no
               /\ lastRev' = lastRev + 1
               /\ revs' = revs \cup {Revision(lastRev + 1, call[e].t, call[e].no, call[e].was, call[e].uses)}
               /\ call'[e].pc = "move" /\ call'[e].rev = lastRev + 1 /\ call'[e].t = call[e].t
               /\ call'[e].was = call[e].was /\ call'[e].no = call[e].no /\ call'[e].uses = call[e].uses
<1>1. /\ UNCHANGED <<tpl, reigned, scheduled, media, ghosts>> /\ call[e].pc = "insert"
  BY DEF Insert, End, At
<1>2. CASE End(e) /\ UNCHANGED <<revs, lastRev>>
  BY <1>1, <1>2, Ending
<1>3. CASE /\ \A r \in RevsOf(call[e].t) : r.no # call[e].no
           /\ lastRev' = lastRev + 1
           /\ revs' = revs \cup {Revision(lastRev + 1, call[e].t, call[e].no, call[e].was, call[e].uses)}
           /\ call' = [call EXCEPT ![e].pc = "move", ![e].rev = lastRev + 1]
  <2>. DEFINE c == [call[e] EXCEPT !.pc = "move", !.rev = lastRev + 1]
  <2>1. "move" \in Labels /\ lastRev + 1 \in Nat /\ call[e] \in CallRow
    BY Places DEF TemplatesShape
  <2>2. /\ c \in CallRow /\ c.pc = "move" /\ c.rev = lastRev + 1 /\ c.t = call[e].t /\ c.was = call[e].was
        /\ c.no = call[e].no /\ c.uses = call[e].uses
    BY <2>1 DEF CallRow
  <2>3. call' = [call EXCEPT ![e] = c]
    BY <1>3
  <2>. HIDE DEF c
  <2>4. call' \in [Users -> CallRow] /\ Others(e) /\ call'[e] = c
    BY <2>2, <2>3 DEF TemplatesShape, Others
  <2>. QED  BY <1>1, <1>3, <2>2, <2>4
<1>. QED  BY <1>2, <1>3 DEF Insert

LEMMA FirstCall ==
  ASSUME TemplatesShape, NEW e \in Users, First(e)
  PROVE  /\ UNCHANGED <<tpl, reigned, scheduled, media, ghosts>>
         /\ call' \in [Users -> CallRow] /\ Others(e) /\ call[e].pc = "first"
         /\ lastRev' = lastRev + 1
         /\ revs' = revs \cup {Revision(lastRev + 1, call[e].t, 1, 0, call[e].uses)}
         /\ call'[e].pc = "point" /\ call'[e].rev = lastRev + 1 /\ call'[e].t = call[e].t
         /\ call'[e].was = call[e].was /\ call'[e].uses = call[e].uses
<1>. DEFINE c == [call[e] EXCEPT !.pc = "point", !.rev = lastRev + 1]
<1>1. "point" \in Labels /\ lastRev + 1 \in Nat /\ call[e] \in CallRow
  BY Places DEF TemplatesShape
<1>2. /\ c \in CallRow /\ c.pc = "point" /\ c.rev = lastRev + 1 /\ c.t = call[e].t /\ c.was = call[e].was
      /\ c.uses = call[e].uses
  BY <1>1 DEF CallRow
<1>3. call' = [call EXCEPT ![e] = c]
  BY DEF First
<1>. HIDE DEF c
<1>4. call' \in [Users -> CallRow] /\ Others(e) /\ call'[e] = c
  BY <1>2, <1>3 DEF TemplatesShape, Others
<1>. QED  BY <1>2, <1>4 DEF First, At

\* The pointer moves, the row goes, or the template is made.
LEMMA MovedCall ==
  ASSUME TemplatesShape, NEW e \in Users, Move(e)
  PROVE  /\ UNCHANGED <<revs, lastRev, scheduled, media, ghosts>>
         /\ call' \in [Users -> CallRow] /\ Others(e) /\ call[e].pc = "move"
         /\ \/ /\ tpl[call[e].t].cur = call[e].was /\ call[e].was # 0
               /\ Reign(call[e].t, call[e].rev) /\ call'[e] = Idle
            \/ /\ UNCHANGED <<tpl, reigned>>
               /\ call'[e].pc = "drop" /\ call'[e].rev = call[e].rev /\ call'[e].t = call[e].t
               /\ call'[e].was = call[e].was /\ call'[e].uses = call[e].uses
<1>1. UNCHANGED <<revs, lastRev, scheduled, media>> /\ call[e].pc = "move" /\ "drop" \in Labels
  BY Places DEF Move, At
<1>2. CASE tpl[call[e].t].cur = call[e].was /\ call[e].was # 0
  BY <1>1, <1>2, Ending DEF Move
<1>3. CASE ~(tpl[call[e].t].cur = call[e].was /\ call[e].was # 0)
  BY <1>1, <1>3, Going DEF Move
<1>. QED  BY <1>2, <1>3

LEMMA DroppedCall ==
  ASSUME TemplatesShape, NEW e \in Users, Drop(e)
  PROVE  /\ UNCHANGED <<tpl, lastRev, reigned, scheduled, media, ghosts>>
         /\ call' \in [Users -> CallRow] /\ Others(e) /\ call[e].pc = "drop" /\ call'[e] = Idle
         /\ revs' = {r \in revs : r.id # call[e].rev}
BY Ending DEF Drop, At

Vacant(e) == IF e = System THEN \A t \in Names : ~tpl[t].there ELSE ~tpl[call[e].t].there

LEMMA PutCall ==
  ASSUME TemplatesShape, NEW e \in Users, PutRow(e)
  PROVE  /\ UNCHANGED <<revs, lastRev, reigned, scheduled, media, ghosts>>
         /\ call' \in [Users -> CallRow] /\ Others(e) /\ call[e].pc = "row"
         /\ \/ tpl' = tpl /\ call'[e] = Idle /\ ~Vacant(e)
            \/ /\ Vacant(e) /\ tpl' = Made(call[e].t, e = System)
               /\ call'[e].pc = "first" /\ call'[e].t = call[e].t
               /\ call'[e].was = call[e].was /\ call'[e].uses = call[e].uses
<1>1. UNCHANGED <<revs, lastRev, reigned, scheduled, media>> /\ call[e].pc = "row" /\ "first" \in Labels
  BY Places DEF PutRow, At
<1>2. CASE Vacant(e)
  <2>1. Goto(e, "first") /\ tpl' = Made(call[e].t, e = System)
    BY <1>2 DEF PutRow, Vacant, GotoIf
  <2>. QED  BY <1>1, <1>2, <2>1, Going
<1>3. CASE ~Vacant(e)
  <2>1. End(e) /\ tpl' = tpl
    BY <1>3 DEF PutRow, Vacant, GotoIf
  <2>. QED  BY <1>1, <1>3, <2>1, Ending
<1>. QED  BY <1>2, <1>3

LEMMA PointCall ==
  ASSUME TemplatesShape, NEW e \in Users, Point(e)
  PROVE  /\ UNCHANGED <<revs, lastRev, scheduled, media, ghosts>>
         /\ call' \in [Users -> CallRow] /\ Others(e) /\ call[e].pc = "point" /\ call'[e] = Idle
         /\ Reign(call[e].t, call[e].rev)
BY Ending DEF Point, At

\* The service dies.
LEMMA CrashCall ==
  ASSUME TemplatesShape, Crash
  PROVE  /\ UNCHANGED <<tables, scheduled, media, crowded>>
         /\ call' \in [Users -> CallRow]
         /\ call'[System] = [Idle EXCEPT !.pc = "row"]
         /\ \A e \in Editors : call'[e] = IF Busy(e) THEN Idle ELSE call[e]
         /\ cut' \in BOOLEAN /\ (~cut' => ~cut /\ \A e \in Users : ~Busy(e))
<1>1. [Idle EXCEPT !.pc = "row"] \in CallRow
  BY Places DEF Idle, CallRow
<1>. QED  BY <1>1, Places DEF Crash, TemplatesShape

\* What makes the start-up's own request.
Systemic(c) == c.pc \in {"idle", "row", "first", "point"} /\ c.t = Seed /\ c.uses = NoOne

LEMMA Reigning ==
  ASSUME TemplatesShape, NEW t \in Names, NEW i \in Nat, Reign(t, i)
  PROVE  /\ tpl' \in [Names -> TplRow] /\ tpl'[t].cur = i /\ reigned' = reigned \cup {i}
         /\ tpl'[t].there = tpl[t].there /\ tpl'[t].dflt = tpl[t].dflt /\ tpl'[t].archived = tpl[t].archived
         /\ \A n \in Names \ {t} : tpl'[n] = tpl[n]
BY DEF TemplatesShape, Reign, TplRow

LEMMA MadeRow ==
  ASSUME TemplatesShape, NEW t \in Names, NEW d \in BOOLEAN, tpl' = Made(t, d)
  PROVE  /\ tpl' \in [Names -> TplRow] /\ tpl'[t].cur = 0 /\ tpl'[t].there
         /\ tpl'[t].dflt = d /\ ~tpl'[t].archived
         /\ \A n \in Names \ {t} : tpl'[n] = tpl[n]
BY DEF TemplatesShape, Made, TplRow, Absent

LEMMA RowType ==
  ASSUME TemplatesShape, NEW t \in Names, NEW n \in Nat, NEW b \in Nat, NEW u \in Slugs \cup {NoOne}
  PROVE  Revision(lastRev + 1, t, n, b, u) \in RevRow
<1>1. PICK i \in Nat : i = lastRev + 1
  BY DEF TemplatesShape
<1>2. Revision(i, t, n, b, u) \in RevRow
  BY DEF Revision, RevRow
<1>. QED  BY <1>1, <1>2

LEMMA NewRow ==
  ASSUME TemplatesShape, NEW r \in RevRow
  PROVE  /\ IsFiniteSet(revs \cup {r}) /\ revs \cup {r} \subseteq RevRow
         /\ lastRev + 1 \in Nat /\ 1 .. lastRev \subseteq 1 .. lastRev + 1
<1>1. IsFiniteSet(revs \cup {r})
  BY FS_AddElement DEF TemplatesShape
<1>2. lastRev + 1 \in Nat /\ 1 .. lastRev \subseteq 1 .. lastRev + 1
  BY DEF TemplatesShape
<1>. QED  BY <1>1, <1>2 DEF TemplatesShape

LEMMA SystemCall ==
  ASSUME TemplatesInv, NEW e \in Users, e = System,
         Looking(e) \/ Shelved(e) \/ Defaulting(e) \/ Revising(e) \/ Founding(e)
  PROVE  Founding(e) /\ Systemic(call'[e])
<1>1. TemplatesShape /\ call[e].pc \in {"row", "first", "point", "idle"}
  BY DEF TemplatesInv, TemplatesShape
<1>2. Founding(e)
  BY <1>1 DEF Looking, Shelved, Defaulting, Revising, Check, Number, Count, DoPlan, Refs, Claim,
              Store, Trash, Bury, Clear, Set, DoArchive, Insert, Move, Drop, At
<1>3. Systemic(Idle)
  BY DEF Systemic, Idle
<1>. QED  BY <1>1, <1>2, <1>3, PutCall, FirstCall, PointCall DEF Systemic, TemplatesShape, Founding

\* A row in hand is a row of the table.
LEMMA InHand ==
  ASSUME TemplatesInv, NEW e \in Users, call[e].pc \in Handing
  PROVE  /\ call[e].rev \in 1 .. lastRev /\ call[e].rev \notin reigned
         /\ call[e].t \in Names /\ call[e].was \in Nat
         /\ \E r \in revs : /\ r.id = call[e].rev /\ r.of = call[e].t
                            /\ r.base = call[e].was /\ r.uses = call[e].uses
BY DEF TemplatesInv, Books, Requests, Caller, Ranged, TemplatesShape, CallRow

LEMMA TemplatesShapeStep == TemplatesInv /\ [TemplatesNext]_templateVars => TemplatesShape'
<1>. SUFFICES ASSUME TemplatesInv, [TemplatesNext]_templateVars PROVE TemplatesShape'
  OBVIOUS
<1>0. TemplatesShape /\ Systemic(call[System])
  BY DEF TemplatesInv, TemplatesShape, Systemic
<1>a. ASSUME NEW e \in Users, Looking(e) \/ Shelved(e) \/ Defaulting(e) \/ Revising(e) \/ Founding(e), Others(e)
      PROVE  Systemic(call'[System])
  BY <1>a, <1>0, SystemCall, Places DEF Others
<1>1. CASE UNCHANGED templateVars
  BY <1>0, <1>1 DEF templateVars, tables, media, ghosts, TemplatesShape
<1>2. CASE Crash
  <2>1. Systemic([Idle EXCEPT !.pc = "row"])
    BY DEF Systemic, Idle
  <2>. QED  BY <1>0, <1>2, <2>1, CrashCall DEF tables, media, TemplatesShape, Systemic
<1>3. ASSUME NEW e \in Editors, Starts(e) PROVE TemplatesShape'
  <2>1. PICK c \in CallRow : Serve(e, c)
    BY <1>0, <1>3, Asked
  <2>2. call' \in [Users -> CallRow] /\ call'[System] = call[System] /\ crowded' \in BOOLEAN /\ cut' = cut
    BY <1>0, <2>1, Serving, Places DEF Others
  <2>. QED  BY <1>0, <1>3, <2>2, Asked DEF tables, media, TemplatesShape
<1>4. ASSUME NEW e \in Users, Looking(e) PROVE TemplatesShape'
  BY <1>0, <1>a, <1>4, Looked DEF tables, media, ghosts, TemplatesShape, Systemic
<1>5. ASSUME NEW e \in Users, Shelved(e) PROVE TemplatesShape'
  <2>1. asset' \in [Slugs -> [state : {"free", "live", "deleted"}, by : Users \cup {NoOne}]]
    BY <1>0, <1>5 DEF Shelved, Claim, Store, Trash, Bury, TemplatesShape
  <2>2. file' \in [Slugs -> Users \cup {NoOne}]
    BY <1>0, <1>5 DEF Shelved, Claim, Store, Trash, Bury, TemplatesShape
  <2>. QED  BY <1>0, <1>a, <1>5, <2>1, <2>2, ShelvedCall DEF tables, ghosts, TemplatesShape, Systemic
<1>6. ASSUME NEW e \in Users, Defaulting(e) PROVE TemplatesShape'
  <2>1. tpl' \in [Names -> TplRow]
    <3>1. call[e].t \in Names
      BY <1>0 DEF TemplatesShape, CallRow
    <3>2. CASE Clear(e)
      BY <1>0, <3>2, ZenonT(30) DEF Clear, TemplatesShape, TplRow
    <3>3. CASE Set(e)
      <4>1. tpl' = tpl \/ tpl' = [tpl EXCEPT ![call[e].t].dflt = TRUE]
        BY <3>3 DEF Set
      <4>2. CASE tpl' = [tpl EXCEPT ![call[e].t].dflt = TRUE]
        BY <1>0, <3>1, <4>2, ZenonT(30) DEF TemplatesShape, TplRow
      <4>. QED  BY <1>0, <4>1, <4>2 DEF TemplatesShape
    <3>4. CASE DoArchive(e)
      BY <1>0, <3>1, <3>4, ZenonT(30) DEF DoArchive, TemplatesShape, TplRow
    <3>. QED  BY <1>6, <3>2, <3>3, <3>4 DEF Defaulting
  <2>. QED  BY <1>0, <1>a, <1>6, <2>1, DefaultedCall DEF media, ghosts, TemplatesShape, Systemic
<1>7. ASSUME NEW e \in Users, Revising(e) PROVE TemplatesShape'
  <2>0. call[e] \in CallRow
    BY <1>0 DEF TemplatesShape
  <2>1. CASE Insert(e)
    <3>1. CASE UNCHANGED <<revs, lastRev>>
      BY <1>0, <1>a, <1>7, <2>1, <3>1, InsertedCall DEF media, ghosts, TemplatesShape, Systemic
    <3>2. CASE /\ lastRev' = lastRev + 1
               /\ revs' = revs \cup {Revision(lastRev + 1, call[e].t, call[e].no, call[e].was, call[e].uses)}
      <4>0. call[e].t \in Names /\ call[e].no \in Nat /\ call[e].was \in Nat /\ call[e].uses \in Slugs \cup {NoOne}
        BY <2>0 DEF CallRow
      <4>1. revs' \subseteq RevRow /\ IsFiniteSet(revs') /\ lastRev' \in Nat /\ reigned \subseteq 1 .. lastRev'
        <5>1. PICK r \in RevRow : r = Revision(lastRev + 1, call[e].t, call[e].no, call[e].was, call[e].uses)
          BY <1>0, <4>0, RowType
        <5>2. revs' = revs \cup {r} /\ lastRev' = lastRev + 1
          BY <3>2, <5>1
        <5>3. /\ IsFiniteSet(revs \cup {r}) /\ revs \cup {r} \subseteq RevRow
              /\ lastRev + 1 \in Nat /\ 1 .. lastRev \subseteq 1 .. lastRev + 1
          BY <1>0, NewRow
        <5>. QED  BY <1>0, <5>2, <5>3 DEF TemplatesShape
      <4>. QED  BY <1>0, <1>a, <1>7, <2>1, <3>2, <4>1, InsertedCall DEF media, ghosts, TemplatesShape, Systemic
    <3>. QED  BY <1>0, <2>1, <3>1, <3>2, InsertedCall
  <2>2. CASE Move(e)
    <3>1. tpl' \in [Names -> TplRow] /\ reigned' \subseteq 1 .. lastRev
      <4>1. call[e].rev \in 1 .. lastRev /\ call[e].t \in Names
        BY <2>2, InHand DEF Move, At, Handing
      <4>2. Reign(call[e].t, call[e].rev) \/ UNCHANGED <<tpl, reigned>>
        BY <1>0, <2>2, MovedCall
      <4>3. call[e].rev \in Nat
        BY <4>1
      <4>4. ASSUME Reign(call[e].t, call[e].rev) PROVE tpl' \in [Names -> TplRow] /\ reigned' = reigned \cup {call[e].rev}
        BY <1>0, <4>1, <4>3, <4>4, Reigning
      <4>. QED  BY <1>0, <4>1, <4>2, <4>4 DEF TemplatesShape
    <3>. QED  BY <1>0, <1>a, <1>7, <2>2, <3>1, MovedCall DEF media, ghosts, TemplatesShape, Systemic
  <2>3. CASE Drop(e)
    <3>1. revs' \subseteq revs /\ IsFiniteSet(revs')
      BY <1>0, <2>3, DroppedCall, FS_Subset DEF TemplatesShape
    <3>. QED  BY <1>0, <1>a, <1>7, <2>3, <3>1, DroppedCall DEF media, ghosts, TemplatesShape, Systemic
  <2>. QED  BY <1>7, <2>1, <2>2, <2>3 DEF Revising
<1>8. ASSUME NEW e \in Users, Founding(e) PROVE TemplatesShape'
  <2>0. call[e] \in CallRow
    BY <1>0 DEF TemplatesShape
  <2>1. CASE PutRow(e)
    <3>1. tpl' \in [Names -> TplRow]
      BY <1>0, <2>0, <2>1, PutCall, MadeRow DEF TemplatesShape, CallRow
    <3>. QED  BY <1>0, <1>a, <1>8, <2>1, <3>1, PutCall DEF media, ghosts, TemplatesShape, Systemic
  <2>2. CASE First(e)
    <3>0. call[e].t \in Names /\ call[e].uses \in Slugs \cup {NoOne}
      BY <2>0 DEF CallRow
    <3>1. revs' \subseteq RevRow /\ IsFiniteSet(revs') /\ lastRev' \in Nat /\ reigned \subseteq 1 .. lastRev'
      <4>1. /\ revs' = revs \cup {Revision(lastRev + 1, call[e].t, 1, 0, call[e].uses)} /\ lastRev' = lastRev + 1
            /\ 1 \in Nat /\ 0 \in Nat
        BY <1>0, <2>2, FirstCall
      <4>2. PICK r \in RevRow : r = Revision(lastRev + 1, call[e].t, 1, 0, call[e].uses)
        BY <1>0, <3>0, <4>1, RowType
      <4>3. revs' = revs \cup {r}
        BY <4>1, <4>2
      <4>4. /\ IsFiniteSet(revs \cup {r}) /\ revs \cup {r} \subseteq RevRow
            /\ lastRev + 1 \in Nat /\ 1 .. lastRev \subseteq 1 .. lastRev + 1
        BY <1>0, NewRow
      <4>. QED  BY <1>0, <4>1, <4>3, <4>4 DEF TemplatesShape
    <3>. QED  BY <1>0, <1>a, <1>8, <2>2, <3>1, FirstCall DEF media, ghosts, TemplatesShape, Systemic
  <2>3. CASE Point(e)
    <3>1. tpl' \in [Names -> TplRow] /\ reigned' \subseteq 1 .. lastRev
      <4>1. call[e].rev \in 1 .. lastRev /\ call[e].t \in Names
        BY <2>3, InHand DEF Point, At, Handing
      <4>2. Reign(call[e].t, call[e].rev) \/ UNCHANGED <<tpl, reigned>>
        BY <1>0, <2>3, PointCall
      <4>3. call[e].rev \in Nat
        BY <4>1
      <4>4. ASSUME Reign(call[e].t, call[e].rev) PROVE tpl' \in [Names -> TplRow] /\ reigned' = reigned \cup {call[e].rev}
        BY <1>0, <4>1, <4>3, <4>4, Reigning
      <4>. QED  BY <1>0, <4>1, <4>2, <4>4 DEF TemplatesShape
    <3>. QED  BY <1>0, <1>a, <1>8, <2>3, <3>1, PointCall DEF media, ghosts, TemplatesShape, Systemic
  <2>. QED  BY <1>8, <2>1, <2>2, <2>3 DEF Founding
<1>. QED  BY <1>1, <1>2, <1>3, <1>4, <1>5, <1>6, <1>7, <1>8, Kinds
-----------------------------------------------------------------------------
(* The books.                                                              *)
LEMMA Facts ==
  ASSUME TemplatesInv
  PROVE  /\ TemplatesShape /\ Ranged /\ Unique /\ Pointers /\ Requests /\ Apart /\ Accounted /\ NoLostEdit
         /\ \A e \in Users : Caller(e) /\ call[e] \in CallRow /\ call[e].t \in Names
         /\ \A r \in revs : r.id \in Nat /\ r.id # 0 /\ r.base \in Nat /\ r.no \in Nat /\ r.of \in Names
         /\ \A t \in Names : tpl[t].cur \in Nat
<1>1. TemplatesShape /\ Ranged /\ Unique /\ Pointers /\ Requests /\ Apart /\ Accounted /\ NoLostEdit
  BY DEF TemplatesInv, Books
<1>2. \A r \in revs : r.id \in Nat /\ r.id # 0 /\ r.base \in Nat /\ r.no \in Nat /\ r.of \in Names
  BY <1>1 DEF TemplatesShape, RevRow, Ranged
<1>. QED  BY <1>1, <1>2 DEF TemplatesShape, Requests, CallRow, TplRow

\* What one admin knows stays true while the tables that matter do.
LEMMA CallerStill ==
  ASSUME NEW d, call'[d] = call[d], UNCHANGED <<revs, lastRev, reigned>>, call[d].t \in Names,
         \A n \in Names : tpl'[n].there = tpl[n].there /\ tpl'[n].cur = tpl[n].cur, Caller(d)
  PROVE  Caller(d)'
BY DEF Caller, RevisionOf, RevsOf

\* A step that leaves revisions and pointers alone, and has none in hand.
LEMMA BooksStill ==
  ASSUME TemplatesInv, NEW e \in Users, UNCHANGED <<revs, lastRev, reigned>>, Others(e), cut' = cut,
         \A n \in Names : /\ tpl'[n].there = tpl[n].there /\ tpl'[n].cur = tpl[n].cur
                          /\ ~tpl[n].there => ~tpl'[n].dflt,
         call[e].pc \notin Handing \cup Making, call'[e].pc \notin Handing \cup Making, Caller(e)',
         call'[e].pc \in Basing => \/ call[e].pc \in Basing /\ call'[e].t = call[e].t
                                   \/ \A d \in Users : call[d].pc = "first" => call[d].t # call'[e].t
  PROVE  Books'
<1>0. /\ TemplatesShape /\ Ranged /\ Unique /\ Pointers /\ Requests /\ Apart /\ Accounted /\ NoLostEdit
      /\ \A d \in Users : Caller(d) /\ call[d].t \in Names
      /\ \A r \in revs : r.of \in Names
  BY Facts
<1>1. Ranged' /\ Unique' /\ NoLostEdit'
  BY <1>0 DEF Ranged, Unique, NoLostEdit
<1>2. Pointers'
  BY <1>0 DEF Pointers, RevisionOf, RevsOf
<1>3. Requests'
  <2>1. ASSUME NEW d \in Users \ {e} PROVE Caller(d)'
    BY <1>0, CallerStill DEF Others
  <2>. QED  BY <2>1 DEF Requests
<1>4. Apart'
  <2>1. \A d \in Users : call[d].pc = "first" => d # e
    BY DEF Making
  <2>2. call'[e].pc # "first"
    BY DEF Making
  <2>. QED  BY <1>0, <2>1, <2>2 DEF Apart, Others
<1>5. Accounted'
  <2>1. \A d \in Users : call[d].pc \in Handing \cup Making => call'[d] = call[d]
    BY DEF Others
  <2>. QED  BY <1>0, <2>1 DEF Accounted
<1>. QED  BY <1>1, <1>2, <1>3, <1>4, <1>5 DEF Books

\* What the request of an admin begins with.
LEMMA AskedFor ==
  ASSUME TemplatesShape, NEW e \in Editors, Starts(e)
  PROVE  \E c \in CallRow :
           /\ Serve(e, c) /\ call'[e] = c
           /\ \/ c.pc \in {"idle", "plan"}
              \/ c.pc = "open" /\ Live(c.t) /\ c.was = tpl[c.t].cur /\ c.was # 0
              \/ c.pc = "clear" /\ Live(c.t)
              \/ c.pc = "count" /\ ~tpl[c.t].dflt
              \/ c.pc = "row" /\ c.was = 0 /\ Shows(c.uses)
              \/ c.pc = "check" /\ call[e].pc = "open" /\ c.t = call[e].t /\ c.was = call[e].was
              \/ c.pc = "check" /\ Live(c.t) /\ c.was = tpl[c.t].cur /\ RevsOf(c.t) # {}
              \/ c.pc \in {"claim", "refs"} /\ c.slug \in Slugs
<1>. PICK c \in CallRow : Serve(e, c)
  BY Asked
<1>0. TemplatesShape /\ e \in Users /\ call'[e] = c
  BY Places, Serving
<1>1. ASSUME NEW t \in Names, Open(e, t) PROVE c.pc = "open" /\ c.t = t /\ c.was = tpl[t].cur /\ Live(t) /\ c.was # 0
  <2>1. call' = [call EXCEPT ![e] = [Idle EXCEPT !.pc = "open", !.t = t, !.was = tpl[t].cur]]
    BY <1>1 DEF Open, Begin, Serve
  <2>2. c = [Idle EXCEPT !.pc = "open", !.t = t, !.was = tpl[t].cur]
    BY <1>0, <2>1 DEF TemplatesShape
  <2>. QED  BY <1>1, <2>2 DEF Open, Idle
<1>2. ASSUME NEW t \in Names, SetDefault(e, t) PROVE c.pc = "clear" /\ c.t = t /\ Live(t)
  <2>1. call' = [call EXCEPT ![e] = [Idle EXCEPT !.pc = "clear", !.t = t]]
    BY <1>2 DEF SetDefault, Begin, Serve
  <2>2. c = [Idle EXCEPT !.pc = "clear", !.t = t]
    BY <1>0, <2>1 DEF TemplatesShape
  <2>. QED  BY <1>2, <2>2 DEF SetDefault, Idle
<1>3. ASSUME NEW t \in Names, Archive(e, t) \/ Plan(e, t) PROVE c.pc = "plan" \/ (c.pc = "count" /\ ~tpl[c.t].dflt)
  <2>1. PICK pc \in {"count", "plan"} :
          /\ call' = [call EXCEPT ![e] = [Idle EXCEPT !.pc = pc, !.t = t]]
          /\ pc = "count" => ~tpl[t].dflt
    BY <1>3 DEF Archive, Plan, Begin, Serve
  <2>2. c = [Idle EXCEPT !.pc = pc, !.t = t]
    BY <1>0, <2>1 DEF TemplatesShape
  <2>. QED  BY <2>1, <2>2 DEF Idle
<1>4. ASSUME NEW t \in Names, Unplan(e, t) PROVE c.pc = "idle"
  BY <1>0, <1>4 DEF Unplan, Begin, Serve, TemplatesShape, Idle
<1>5. ASSUME NEW t \in Names, NEW u \in Slugs \cup {NoOne}, Create(e, t, u) PROVE c.pc = "row" /\ c.was = 0 /\ Shows(c.uses)
  <2>1. call' = [call EXCEPT ![e] = [Idle EXCEPT !.pc = "row", !.t = t, !.uses = u]]
    BY <1>5 DEF Create, Begin, Serve
  <2>2. c = [Idle EXCEPT !.pc = "row", !.t = t, !.uses = u]
    BY <1>0, <2>1 DEF TemplatesShape
  <2>. QED  BY <1>5, <2>2 DEF Create, Idle
<1>6. ASSUME NEW u \in Slugs \cup {NoOne}, Save(e, u)
      PROVE  c.pc = "idle" \/ (call[e].pc = "open" /\ c.pc = "check" /\ c.t = call[e].t /\ c.was = call[e].was)
  <2>1. \/ call' = [call EXCEPT ![e] = [call[e] EXCEPT !.pc = "check", !.uses = u]]
        \/ call' = [call EXCEPT ![e] = Idle]
    BY <1>6 DEF Save, Serve
  <2>2. c = [call[e] EXCEPT !.pc = "check", !.uses = u] \/ c = Idle
    BY <1>0, <2>1 DEF TemplatesShape
  <2>3. call[e] \in CallRow /\ call[e].pc = "open"
    BY <1>0, <1>6 DEF TemplatesShape, Save, At
  <2>4. CASE c = [call[e] EXCEPT !.pc = "check", !.uses = u]
    BY <2>3, <2>4 DEF CallRow
  <2>5. CASE c = Idle
    BY <2>5 DEF Idle
  <2>. QED  BY <2>2, <2>4, <2>5
<1>7. ASSUME NEW r \in revs, Restore(e, r)
      PROVE  c.pc = "check" /\ Live(c.t) /\ c.was = tpl[c.t].cur /\ RevsOf(c.t) # {}
  <2>1. call' = [call EXCEPT ![e] = [Idle EXCEPT !.pc = "check", !.t = r.of, !.was = tpl[r.of].cur, !.uses = r.uses]]
    BY <1>7 DEF Restore, Begin, Serve
  <2>2. c = [Idle EXCEPT !.pc = "check", !.t = r.of, !.was = tpl[r.of].cur, !.uses = r.uses]
    BY <1>0, <2>1 DEF TemplatesShape
  <2>. QED  BY <1>7, <2>2 DEF Restore, Idle, RevsOf
<1>8. ASSUME NEW s \in Slugs, Upload(e, s) \/ Delete(e, s) PROVE c.pc \in {"claim", "refs"} /\ c.slug \in Slugs
  <2>1. PICK pc \in {"claim", "refs"} : call' = [call EXCEPT ![e] = [Idle EXCEPT !.pc = pc, !.slug = s]]
    BY <1>8 DEF Upload, Delete, Begin, Serve
  <2>2. c = [Idle EXCEPT !.pc = pc, !.slug = s]
    BY <1>0, <2>1 DEF TemplatesShape
  <2>. QED  BY <2>2 DEF Idle
<1>. QED  BY <1>0, <1>1, <1>2, <1>3, <1>4, <1>5, <1>6, <1>7, <1>8 DEF Starts

LEMMA AskingBooks == ASSUME TemplatesInv, NEW e \in Editors, Starts(e) PROVE Books'
<1>0. /\ TemplatesShape /\ Pointers
      /\ \A d \in Users : Caller(d) /\ call[d].t \in Names
  BY Facts
<1>1. PICK c \in CallRow :
        /\ Serve(e, c) /\ call'[e] = c
        /\ \/ c.pc \in {"idle", "plan"}
           \/ c.pc = "open" /\ Live(c.t) /\ c.was = tpl[c.t].cur /\ c.was # 0
           \/ c.pc = "clear" /\ Live(c.t)
           \/ c.pc = "count" /\ ~tpl[c.t].dflt
           \/ c.pc = "row" /\ c.was = 0 /\ Shows(c.uses)
           \/ c.pc = "check" /\ call[e].pc = "open" /\ c.t = call[e].t /\ c.was = call[e].was
           \/ c.pc = "check" /\ Live(c.t) /\ c.was = tpl[c.t].cur /\ RevsOf(c.t) # {}
           \/ c.pc \in {"claim", "refs"} /\ c.slug \in Slugs
  BY <1>0, AskedFor
<1>2. /\ e \in Users /\ UNCHANGED <<tpl, revs, lastRev, reigned>> /\ Others(e) /\ cut' = cut
      /\ call[e].pc \in {"idle", "open"} /\ c.t \in Names
      /\ c.pc \notin Handing \cup Making \cup {"insert", "move", "set"}
  BY <1>0, <1>1, Asked, Serving, Places DEF tables, CallRow, Handing, Making
<1>3. \A d \in Users : call[d].pc = "first" => tpl[call[d].t].cur = 0 /\ RevsOf(call[d].t) = {}
  BY <1>0 DEF Caller, Making
<1>4. /\ c.pc \in Basing \cup {"clear"} => tpl[c.t].there
      /\ c.pc \in Basing /\ c.was # 0 => c.was \in reigned /\ RevisionOf(c.was, c.t)
      /\ c.pc = "row" => c.was = 0
      /\ c.pc \in Basing => \/ call[e].pc \in Basing /\ c.t = call[e].t
                            \/ \A d \in Users : call[d].pc = "first" => call[d].t # c.t
  <2>1. Caller(e)
    BY <1>0, <1>2
  <2>2. CASE c.pc = "check" /\ call[e].pc = "open" /\ c.t = call[e].t /\ c.was = call[e].was
    BY <2>1, <2>2 DEF Caller, Basing
  <2>3. CASE c.pc \in {"open", "check"} /\ Live(c.t) /\ c.was = tpl[c.t].cur /\ (c.was # 0 \/ RevsOf(c.t) # {})
    BY <1>0, <1>2, <1>3, <2>3 DEF Pointers, Live, Basing
  <2>. QED  BY <1>1, <2>2, <2>3 DEF Live, Basing
<1>5. Caller(e)'
  BY <1>1, <1>2, <1>4 DEF Caller, RevisionOf, Handing, Making
<1>6. call[e].pc \notin Handing \cup Making
  BY <1>2 DEF Handing, Making
<1>7. \A n \in Names : ~tpl[n].there => ~tpl[n].dflt
  BY <1>0 DEF Pointers
<1>. QED  BY <1>1, <1>2, <1>4, <1>5, <1>6, <1>7, BooksStill

LEMMA LookingBooks == ASSUME TemplatesInv, NEW e \in Users, Looking(e) PROVE Books'
<1>0. /\ TemplatesShape /\ Ranged /\ Unique /\ Pointers /\ Caller(e) /\ call[e].t \in Names
      /\ \A r \in revs : r.id # 0
  BY Facts
<1>1. /\ UNCHANGED <<tpl, revs, lastRev, reigned>> /\ Others(e) /\ cut' = cut
      /\ call[e].pc \in {"check", "number", "count", "plan", "refs"}
      /\ call'[e].pc \in {"idle", "number", "insert", "archive", "trash"}
  BY <1>0, Looked DEF tables, ghosts
<1>2. /\ call'[e].pc \in Basing => call[e].pc \in Basing /\ call'[e].t = call[e].t
      /\ Caller(e)'
  <2>1. CASE Check(e)
    <3>1. Goto(e, "number") \/ End(e)
      BY <2>1 DEF Check, GotoIf
    <3>2. call[e].pc = "check" /\ "number" \in Labels
      BY <2>1, Places DEF Check, At
    <3>3. CASE Goto(e, "number")
      <4>1. call'[e].pc = "number" /\ call'[e].t = call[e].t /\ call'[e].was = call[e].was
        BY <1>0, <3>2, <3>3, Going
      <4>. QED  BY <1>0, <1>1, <3>2, <4>1 DEF Caller, RevisionOf, Basing, Handing, Making
    <3>4. CASE End(e)
      <4>1. call'[e].pc = "idle"
        BY <1>0, <3>4, Ending DEF Idle
      <4>. QED  BY <4>1 DEF Caller, Basing, Handing, Making
    <3>. QED  BY <3>1, <3>3, <3>4
  <2>2. CASE Number(e)
    <3>1. /\ call[e].pc = "number" /\ call'[e].pc = "insert" /\ call'[e].t = call[e].t /\ call'[e].was = call[e].was
          /\ \A r \in RevsOf(call[e].t) : r.no < call'[e].no
      BY <1>0, <2>2, NumberedCall DEF Number, At
    <3>2. \A r \in revs : r.id = call[e].was => r.of = call[e].t
      BY <1>0, <3>1 DEF Caller, Basing, RevisionOf, Unique
    <3>3. \A r \in revs : r.id = call[e].was => r.no < call'[e].no
      BY <3>1, <3>2 DEF RevsOf
    <3>. QED  BY <1>0, <1>1, <3>1, <3>3 DEF Caller, RevisionOf, Basing, Handing, Making
  <2>3. CASE Count(e) \/ DoPlan(e) \/ Refs(e)
    <3>1. call'[e].pc \in {"idle", "archive", "trash"}
      <4>1. \A pc : Goto(e, pc) => call'[e].pc = pc
        BY <1>0 DEF Goto, TemplatesShape, CallRow
      <4>2. End(e) => call'[e].pc = "idle"
        BY <1>0, Ending DEF Idle
      <4>. QED  BY <2>3, <4>1, <4>2 DEF Count, DoPlan, Refs, GotoIf
    <3>. QED  BY <3>1 DEF Caller, Basing, Handing, Making
  <2>. QED  BY <2>1, <2>2, <2>3 DEF Looking
<1>3. call[e].pc \notin Handing \cup Making /\ call'[e].pc \notin Handing \cup Making
  BY <1>1 DEF Handing, Making
<1>4. \A n \in Names : ~tpl[n].there => ~tpl[n].dflt
  BY <1>0 DEF Pointers
<1>. QED  BY <1>1, <1>2, <1>3, <1>4, BooksStill

LEMMA ShelvedBooks == ASSUME TemplatesInv, NEW e \in Users, Shelved(e) PROVE Books'
<1>1. /\ UNCHANGED <<tpl, revs, lastRev, reigned>> /\ Others(e) /\ cut' = cut
      /\ call[e].pc \in {"claim", "store", "trash", "bury"}
      /\ call'[e].pc \in {"idle", "store", "bury"}
  BY Facts, ShelvedCall DEF tables, ghosts
<1>2. Caller(e)' /\ call'[e].pc \notin Basing
  BY <1>1 DEF Caller, Basing, Handing, Making
<1>3. call[e].pc \notin Handing \cup Making /\ call'[e].pc \notin Handing \cup Making
  BY <1>1 DEF Handing, Making
<1>4. \A n \in Names : ~tpl[n].there => ~tpl[n].dflt
  BY Facts DEF Pointers
<1>. QED  BY <1>1, <1>2, <1>3, <1>4, BooksStill

LEMMA DefaultedBooks == ASSUME TemplatesInv, NEW e \in Users, Defaulting(e) PROVE Books'
<1>0. /\ TemplatesShape /\ Pointers /\ Caller(e) /\ call[e].t \in Names
  BY Facts
<1>1. /\ UNCHANGED <<revs, lastRev, reigned>> /\ Others(e) /\ cut' = cut
      /\ call[e].pc \in {"clear", "set", "archive"} /\ call'[e].pc \in {"set", "idle"}
      /\ call'[e].pc = "set" => call[e].pc = "clear" /\ call'[e].t = call[e].t
  BY <1>0, DefaultedCall DEF ghosts
<1>2. \A n \in Names : ~tpl[n].there => ~tpl[n].dflt
  BY <1>0 DEF Pointers
<1>3. \A n \in Names : /\ tpl'[n].there = tpl[n].there /\ tpl'[n].cur = tpl[n].cur
                       /\ ~tpl[n].there => ~tpl'[n].dflt
  <2>1. CASE Clear(e)
    BY <1>0, <2>1 DEF Clear, TemplatesShape, TplRow
  <2>2. CASE Set(e)
    <3>1. call[e].pc = "set"
      BY <2>2 DEF Set, At
    <3>2. tpl[call[e].t].there
      BY <1>0, <3>1 DEF Caller
    <3>3. tpl' = tpl \/ tpl' = [tpl EXCEPT ![call[e].t].dflt = TRUE]
      BY <2>2 DEF Set
    <3>4. CASE tpl' = [tpl EXCEPT ![call[e].t].dflt = TRUE]
      BY <1>0, <1>2, <3>2, <3>4 DEF TemplatesShape, TplRow
    <3>. QED  BY <1>2, <3>3, <3>4
  <2>3. CASE DoArchive(e)
    BY <1>0, <1>2, <2>3 DEF DoArchive, TemplatesShape, TplRow
  <2>. QED  BY <2>1, <2>2, <2>3 DEF Defaulting
<1>4. Caller(e)' /\ call'[e].pc \notin Basing
  BY <1>0, <1>1, <1>3 DEF Caller, Basing, Handing, Making
<1>5. call[e].pc \notin Handing \cup Making /\ call'[e].pc \notin Handing \cup Making
  BY <1>1 DEF Handing, Making
<1>. QED  BY <1>1, <1>3, <1>4, <1>5, BooksStill

\* A row is added: what holds of the table, and of the other admins.
LEMMA Grown ==
  ASSUME TemplatesInv, NEW e \in Users, NEW new \in RevRow, revs' = revs \cup {new}, lastRev' = lastRev + 1,
         UNCHANGED <<tpl, reigned>>, Others(e),
         new.id = lastRev + 1, tpl[new.of].there, \A r \in RevsOf(new.of) : r.no # new.no,
         new.base = 0 \/ new.base \in reigned,
         \A d \in Users \ {e} : call[d].pc = "first" => call[d].t # new.of
  PROVE  /\ Ranged' /\ Unique' /\ Pointers' /\ NoLostEdit'
         /\ \A d \in Users \ {e} : Caller(d)'
<1>0. /\ TemplatesShape /\ Ranged /\ Unique /\ Pointers /\ NoLostEdit
      /\ \A d \in Users : Caller(d) /\ call[d].t \in Names
      /\ \A r \in revs : r.id \in Nat /\ r.id # 0 /\ r.base \in Nat /\ r.of \in Names
  BY Facts
<1>1. /\ lastRev \in Nat /\ reigned \subseteq 1 .. lastRev /\ new.id \notin reigned /\ new.base < new.id
      /\ \A r \in revs : r.id # new.id /\ r.id \in 1 .. lastRev + 1
      /\ \A i \in reigned : i # new.id
      /\ new.id \in 1 .. lastRev + 1 /\ new.id # 0 /\ new.of \in Names
  BY <1>0 DEF TemplatesShape, Ranged, RevRow
<1>2. Ranged'
  BY <1>0, <1>1 DEF Ranged
<1>3. Unique'
  BY <1>0, <1>1 DEF Unique, RevsOf
<1>4. NoLostEdit'
  BY <1>0, <1>1 DEF NoLostEdit
<1>5. Pointers'
  <2>1. \A t \in Names : tpl[t].cur # new.id
    BY <1>0, <1>1 DEF Pointers
  <2>. QED  BY <1>0, <1>1, <2>1 DEF Pointers, RevisionOf, RevsOf
<1>6. ASSUME NEW d \in Users \ {e} PROVE Caller(d)'
  <2>1. call'[d] = call[d] /\ Caller(d) /\ call[d].t \in Names
    BY <1>0 DEF Others
  <2>2. call[d].pc \in Handing => call[d].rev # new.id
    BY <1>1, <2>1 DEF Caller
  <2>3. call[d].pc \in Basing => call[d].was # new.id
    BY <1>1, <2>1 DEF Caller
  <2>. QED  BY <1>1, <2>1, <2>2, <2>3 DEF Caller, RevisionOf, RevsOf, Basing, Handing
<1>. QED  BY <1>2, <1>3, <1>4, <1>5, <1>6

LEMMA InsertBooks == ASSUME TemplatesInv, NEW e \in Users, Insert(e) PROVE Books'
<1>0. /\ TemplatesShape /\ Ranged /\ Unique /\ Pointers /\ Apart /\ Accounted
      /\ \A d \in Users : Caller(d)
      /\ call[e] \in CallRow /\ call[e].t \in Names /\ call[e].pc = "insert"
      /\ \A r \in revs : r.id # 0
  BY Facts DEF Insert, At
<1>1. UNCHANGED <<tpl, reigned>> /\ Others(e) /\ cut' = cut
  BY <1>0, InsertedCall DEF ghosts
<1>2. CASE call'[e] = Idle /\ UNCHANGED <<revs, lastRev>>
  <2>1. Caller(e)' /\ call'[e].pc = "idle"
    BY <1>2 DEF Caller, Idle, Basing, Handing, Making
  <2>2. \A n \in Names : ~tpl[n].there => ~tpl[n].dflt
    BY <1>0 DEF Pointers
  <2>. QED  BY <1>0, <1>1, <1>2, <2>1, <2>2, BooksStill DEF Handing, Making, Basing
<1>3. CASE ~(call'[e] = Idle /\ UNCHANGED <<revs, lastRev>>)
  <2>1. /\ \A r \in RevsOf(call[e].t) : r.no # call[e].no
        /\ lastRev' = lastRev + 1
        /\ revs' = revs \cup {Revision(lastRev + 1, call[e].t, call[e].no, call[e].was, call[e].uses)}
        /\ call'[e].pc = "move" /\ call'[e].rev = lastRev + 1 /\ call'[e].t = call[e].t
        /\ call'[e].was = call[e].was /\ call'[e].no = call[e].no /\ call'[e].uses = call[e].uses
    BY <1>0, <1>3, InsertedCall
  <2>2. PICK new \in RevRow : new = Revision(lastRev + 1, call[e].t, call[e].no, call[e].was, call[e].uses)
    BY <1>0, RowType DEF CallRow
  <2>3. /\ new.id = lastRev + 1 /\ new.of = call[e].t /\ new.no = call[e].no /\ new.base = call[e].was
        /\ new.uses = call[e].uses /\ revs' = revs \cup {new}
    BY <2>1, <2>2 DEF Revision
  <2>4. /\ tpl[call[e].t].there
        /\ call[e].was = 0 \/ call[e].was \in reigned
        /\ \A r \in revs : r.id = call[e].was => r.no < call[e].no
    BY <1>0 DEF Caller, Basing
  <2>5. \A d \in Users \ {e} : call[d].pc = "first" => call[d].t # call[e].t
    BY <1>0 DEF Apart, Basing
  <2>6. Ranged' /\ Unique' /\ Pointers' /\ NoLostEdit' /\ \A d \in Users \ {e} : Caller(d)'
    BY <1>1, <2>1, <2>3, <2>4, <2>5, Grown
  <2>7. /\ lastRev \in Nat /\ reigned \subseteq 1 .. lastRev /\ new.id \notin reigned
        /\ \A r \in revs : r.id # new.id
        /\ call[e].was # new.id
    BY <1>0, <2>3, <2>4 DEF TemplatesShape, Ranged
  <2>8. Caller(e)'
    <3>1. call'[e].was # 0 => /\ call'[e].was \in reigned'
                              /\ \E r \in revs' : r.id = call'[e].was /\ r.of = call'[e].t
      BY <1>0, <1>1, <2>1, <2>3 DEF Caller, Basing, RevisionOf
    <3>2. \A r, q \in revs' : r.id = call'[e].was /\ q.id = call'[e].rev => r.no < q.no
      BY <2>1, <2>3, <2>4, <2>7
    <3>3. /\ call'[e].rev \notin reigned'
          /\ \E r \in revs' : r.id = call'[e].rev /\ r.of = call'[e].t /\ r.base = call'[e].was /\ r.uses = call'[e].uses
      BY <1>1, <2>1, <2>3, <2>7
    <3>. QED  BY <1>1, <2>1, <2>4, <3>1, <3>2, <3>3 DEF Caller, RevisionOf, Making
  <2>9. Apart'
    <3>1. \A d \in Users : call[d].pc \in Handing => call[d].rev # lastRev + 1
      BY <1>0, <2>3, <2>7 DEF Caller
    <3>. QED  BY <1>0, <1>1, <2>1, <2>5, <3>1 DEF Apart, Others, Making, Handing, Basing
  <2>10. Accounted'
    <3>1. \A d \in Users : call[d].pc \in Handing \cup Making => call'[d] = call[d]
      BY <1>0, <1>1 DEF Others, Handing, Making
    <3>2. call'[e].pc \in Handing /\ call'[e].rev = new.id
      BY <2>1, <2>3 DEF Handing
    <3>. QED  BY <1>0, <1>1, <2>3, <3>1, <3>2 DEF Accounted
  <2>11. Requests'
    BY <2>6, <2>8 DEF Requests
  <2>. QED  BY <2>6, <2>9, <2>10, <2>11 DEF Books
<1>. QED  BY <1>2, <1>3

LEMMA FirstBooks == ASSUME TemplatesInv, NEW e \in Users, First(e) PROVE Books'
<1>0. /\ TemplatesShape /\ Ranged /\ Apart /\ Accounted
      /\ \A d \in Users : Caller(d)
      /\ call[e] \in CallRow /\ call[e].t \in Names /\ call[e].pc = "first"
  BY Facts DEF First, At
<1>1. /\ UNCHANGED <<tpl, reigned>> /\ Others(e) /\ cut' = cut /\ lastRev' = lastRev + 1
      /\ revs' = revs \cup {Revision(lastRev + 1, call[e].t, 1, 0, call[e].uses)}
      /\ call'[e].pc = "point" /\ call'[e].rev = lastRev + 1 /\ call'[e].t = call[e].t
      /\ call'[e].was = call[e].was /\ call'[e].uses = call[e].uses
  BY <1>0, FirstCall DEF ghosts
<1>2. PICK new \in RevRow : new = Revision(lastRev + 1, call[e].t, 1, 0, call[e].uses)
  <2>1. 1 \in Nat /\ 0 \in Nat
    OBVIOUS
  <2>. QED  BY <1>0, <2>1, RowType DEF CallRow
<1>3. /\ new.id = lastRev + 1 /\ new.of = call[e].t /\ new.no = 1 /\ new.base = 0
      /\ new.uses = call[e].uses /\ revs' = revs \cup {new}
  BY <1>1, <1>2 DEF Revision
<1>4. /\ tpl[call[e].t].there /\ tpl[call[e].t].cur = 0 /\ RevsOf(call[e].t) = {} /\ call[e].was = 0
  BY <1>0 DEF Caller, Making
<1>5. \A d \in Users \ {e} : call[d].pc = "first" => call[d].t # call[e].t
  BY <1>0 DEF Apart, Making
<1>6. Ranged' /\ Unique' /\ Pointers' /\ NoLostEdit' /\ \A d \in Users \ {e} : Caller(d)'
  BY <1>1, <1>3, <1>4, <1>5, Grown
<1>7. lastRev \in Nat /\ reigned \subseteq 1 .. lastRev /\ new.id \notin reigned
  BY <1>0, <1>3 DEF TemplatesShape
<1>8. Caller(e)'
  BY <1>1, <1>3, <1>4, <1>7 DEF Caller, Basing
<1>9. Apart'
  <2>1. \A d \in Users : call[d].pc \in Handing => call[d].rev # lastRev + 1
    BY <1>0, <1>7 DEF Caller, Ranged
  <2>. QED  BY <1>0, <1>1, <2>1 DEF Apart, Others, Making, Handing, Basing
<1>10. Accounted'
  <2>1. \A d \in Users \ {e} : call'[d] = call[d]
    BY <1>1 DEF Others
  <2>2. /\ call'[e].pc \in Handing /\ call'[e].rev = new.id
        /\ call[e].pc \notin Handing /\ call'[e].pc \in Making /\ call'[e].t = call[e].t
    BY <1>0, <1>1, <1>3 DEF Handing, Making
  <2>. QED  BY <1>0, <1>1, <1>3, <2>1, <2>2 DEF Accounted
<1>11. Requests'
  BY <1>6, <1>8 DEF Requests
<1>. QED  BY <1>6, <1>9, <1>10, <1>11 DEF Books

\* The pointer of t moves on to the row in e's hand, whose base it was at.
LEMMA Crowned ==
  ASSUME TemplatesInv, NEW e \in Users, call[e].pc \in Handing,
         UNCHANGED <<revs, lastRev>>, Others(e), cut' = cut, call'[e] = Idle,
         Reign(call[e].t, call[e].rev), tpl[call[e].t].cur = call[e].was, tpl[call[e].t].there,
         \A d \in Users \ {e} : call[d].pc \in Making => call[d].t # call[e].t,
         \A r, q \in revs : r.id = call[e].was /\ q.id = call[e].rev => r.no < q.no
  PROVE  Books'
<1>. DEFINE t == call[e].t
            i == call[e].rev
<1>0. /\ TemplatesShape /\ Ranged /\ Unique /\ Pointers /\ Apart /\ Accounted /\ NoLostEdit
      /\ \A d \in Users : Caller(d) /\ call[d].t \in Names
      /\ \A r \in revs : r.id \in Nat /\ r.id # 0 /\ r.base \in Nat /\ r.no \in Nat /\ r.of \in Names
      /\ \A n \in Names : tpl[n].cur \in Nat
  BY Facts
<1>1. PICK R \in revs : R.id = i /\ R.of = t /\ R.base = call[e].was
  BY InHand
<1>2. i \in Nat /\ i # 0 /\ i \notin reigned /\ t \in Names /\ R.base < i /\ R.base = tpl[t].cur
  BY <1>0, <1>1, InHand DEF Ranged
<1>3. /\ tpl'[t].cur = i /\ reigned' = reigned \cup {i} /\ tpl'[t].there = tpl[t].there
      /\ tpl'[t].dflt = tpl[t].dflt /\ \A n \in Names \ {t} : tpl'[n] = tpl[n]
  BY <1>0, <1>2, Reigning
<1>4. \A r \in revs : r.id = i => r = R
  BY <1>0, <1>1 DEF Unique
<1>5. \A r \in revs : r.id \in reigned /\ r.of = t => r.id <= R.base /\ r.id # i
  BY <1>0, <1>2 DEF Pointers
<1>6. Ranged' /\ Unique'
  BY <1>0 DEF Ranged, Unique
<1>7. NoLostEdit'
  <2>. SUFFICES ASSUME NEW r \in revs, NEW q \in revs, {r.id, q.id} \subseteq reigned', r.of = q.of, r.base = q.base
                PROVE  r = q
    BY DEF NoLostEdit
  <2>1. ASSUME NEW x \in revs, x.id \in reigned, x.of = t, x.base = R.base PROVE FALSE
    <3>1. x.base < x.id /\ x.id <= R.base /\ x.id \in Nat /\ R.base \in Nat
      BY <1>0, <1>5, <2>1 DEF Ranged
    <3>. QED  BY <2>1, <3>1
  <2>2. CASE {r.id, q.id} \subseteq reigned
    BY <1>0, <2>2 DEF NoLostEdit
  <2>3. CASE r.id \notin reigned \/ q.id \notin reigned
    <3>1. r = R \/ q = R
      BY <1>3, <1>4, <2>3
    <3>2. (r = R \/ r.id \in reigned) /\ (q = R \/ q.id \in reigned)
      BY <1>3, <1>4
    <3>. QED  BY <1>1, <2>1, <3>1, <3>2
  <2>. QED  BY <2>2, <2>3
<1>8. Pointers'
  <2>1. \A n \in Names : ~tpl'[n].there => RevsOf(n)' = {} /\ tpl'[n].cur = 0 /\ ~tpl'[n].dflt
    BY <1>0, <1>3 DEF Pointers, RevsOf
  <2>2. \A n \in Names : tpl'[n].cur # 0 => tpl'[n].cur \in reigned' /\ \E r \in revs' : r.id = tpl'[n].cur /\ r.of = n
    BY <1>0, <1>1, <1>3 DEF Pointers, RevisionOf
  <2>3. reigned' \subseteq {r.id : r \in revs'}
    BY <1>0, <1>1, <1>3 DEF Pointers
  <2>4. ASSUME NEW r \in revs, r.id \in reigned' PROVE r.id <= tpl'[r.of].cur
    <3>1. CASE r.of = t /\ r.id # i
      <4>1. r.id <= R.base /\ R.base < i /\ r.id \in Nat /\ R.base \in Nat
        BY <1>0, <1>2, <1>3, <1>5, <2>4, <3>1
      <4>. QED  BY <1>2, <1>3, <3>1, <4>1
    <3>2. CASE r.of # t
      BY <1>0, <1>1, <1>3, <1>4, <2>4, <3>2 DEF Pointers
    <3>3. CASE r.id = i
      BY <1>1, <1>2, <1>3, <1>4, <3>3
    <3>. QED  BY <3>1, <3>2, <3>3
  <2>5. ASSUME NEW r \in revs, NEW q \in revs, r.id \in reigned', r.of = q.of, q.id = tpl'[q.of].cur
        PROVE  r.no <= q.no
    <3>1. CASE q.of # t
      BY <1>0, <1>1, <1>3, <1>4, <2>5, <3>1 DEF Pointers
    <3>2. CASE q.of = t /\ r.id # i
      <4>1. q = R /\ r.id \in reigned /\ r.id <= tpl[t].cur /\ r.id # 0 /\ tpl[t].cur # 0
        BY <1>0, <1>2, <1>3, <1>4, <2>5, <3>2 DEF Pointers
      <4>2. PICK P \in revs : P.id = tpl[t].cur /\ P.of = t
        BY <1>0, <1>2, <4>1 DEF Pointers, RevisionOf
      <4>3. r.no <= P.no
        BY <1>0, <2>5, <3>2, <4>1, <4>2 DEF Pointers
      <4>4. P.no < R.no
        BY <1>1, <4>2
      <4>. QED  BY <1>0, <4>1, <4>3, <4>4
    <3>3. CASE q.of = t /\ r.id = i
      <4>1. q = R /\ r = R
        BY <1>3, <1>4, <2>5, <3>3
      <4>. QED  BY <1>0, <4>1
    <3>. QED  BY <3>1, <3>2, <3>3
  <2>. QED  BY <2>1, <2>2, <2>3, <2>4, <2>5 DEF Pointers, RevisionOf
<1>9. Requests'
  <2>1. Caller(e)'
    BY DEF Caller, Idle, Basing, Handing, Making
  <2>2. ASSUME NEW d \in Users \ {e} PROVE Caller(d)'
    <3>1. call'[d] = call[d] /\ Caller(d) /\ call[d].t \in Names
      BY <1>0 DEF Others
    <3>2. call[d].pc \in Handing => call[d].rev # i
      BY <1>0 DEF Apart
    <3>3. call[d].pc \in Making => call[d].t # t
      OBVIOUS
    <3>4. /\ tpl'[call[d].t].there = tpl[call[d].t].there
          /\ call[d].pc \in Making => tpl'[call[d].t].cur = tpl[call[d].t].cur
      BY <1>3, <3>1, <3>3
    <3>5. reigned \subseteq reigned' /\ (call[d].rev \in reigned' => call[d].rev \in reigned \/ call[d].rev = i)
      BY <1>3
    <3>. HIDE DEF t, i
    <3>. QED  BY <3>1, <3>2, <3>4, <3>5 DEF Caller, RevisionOf, RevsOf
  <2>. QED  BY <2>1, <2>2 DEF Requests
<1>10. Apart'
  BY <1>0 DEF Apart, Others, Idle, Handing, Making, Basing
<1>11. Accounted'
  <2>1. \A d \in Users \ {e} : call'[d] = call[d]
    BY DEF Others
  <2>. QED  BY <1>0, <1>2, <1>3, <2>1 DEF Accounted
<1>. QED  BY <1>6, <1>7, <1>8, <1>9, <1>10, <1>11 DEF Books

LEMMA MoveBooks == ASSUME TemplatesInv, NEW e \in Users, Move(e) PROVE Books'
<1>0. /\ TemplatesShape /\ Ranged /\ Unique /\ Pointers /\ Apart /\ Accounted /\ NoLostEdit
      /\ \A d \in Users : Caller(d) /\ call[d].t \in Names
  BY Facts
<1>1. /\ UNCHANGED <<revs, lastRev>> /\ Others(e) /\ cut' = cut /\ call[e].pc = "move"
  BY <1>0, MovedCall DEF ghosts
<1>2. CASE /\ tpl[call[e].t].cur = call[e].was /\ call[e].was # 0
           /\ Reign(call[e].t, call[e].rev) /\ call'[e] = Idle
  <2>1. /\ tpl[call[e].t].there
        /\ \A r, q \in revs : r.id = call[e].was /\ q.id = call[e].rev => r.no < q.no
    BY <1>0, <1>1 DEF Caller, Basing
  <2>2. \A d \in Users \ {e} : call[d].pc \in Making => call[d].t # call[e].t
    BY <1>0, <1>2 DEF Caller
  <2>. QED  BY <1>1, <1>2, <2>1, <2>2, Crowned DEF Handing
<1>3. CASE /\ UNCHANGED <<tpl, reigned>>
           /\ call'[e].pc = "drop" /\ call'[e].rev = call[e].rev /\ call'[e].t = call[e].t
           /\ call'[e].was = call[e].was /\ call'[e].uses = call[e].uses
  <2>1. Ranged' /\ Unique' /\ NoLostEdit'
    BY <1>0, <1>1, <1>3 DEF Ranged, Unique, NoLostEdit
  <2>2. Pointers'
    BY <1>0, <1>1, <1>3 DEF Pointers, RevisionOf, RevsOf
  <2>3. Requests'
    <3>1. Caller(e)'
      BY <1>0, <1>1, <1>3 DEF Caller, Basing, Handing, Making, RevisionOf
    <3>2. ASSUME NEW d \in Users \ {e} PROVE Caller(d)'
      BY <1>0, <1>1, <1>3, CallerStill DEF Others
    <3>. QED  BY <3>1, <3>2 DEF Requests
  <2>4. Apart'
    BY <1>0, <1>1, <1>3 DEF Apart, Others, Handing, Making, Basing
  <2>5. Accounted'
    <3>1. \A d \in Users : /\ call[d].pc \in Handing => call'[d].pc \in Handing /\ call'[d].rev = call[d].rev
                           /\ call[d].pc \in Making => call'[d].pc \in Making /\ call'[d].t = call[d].t
      BY <1>1, <1>3 DEF Others, Handing, Making
    <3>. QED  BY <1>0, <1>1, <1>3, <3>1 DEF Accounted
  <2>. QED  BY <2>1, <2>2, <2>3, <2>4, <2>5 DEF Books
<1>. QED  BY <1>0, <1>2, <1>3, MovedCall

LEMMA PointBooks == ASSUME TemplatesInv, NEW e \in Users, Point(e) PROVE Books'
<1>0. /\ TemplatesShape /\ Apart /\ Caller(e)
      /\ \A r \in revs : r.id # 0
  BY Facts
<1>1. /\ UNCHANGED <<revs, lastRev>> /\ Others(e) /\ cut' = cut /\ call[e].pc = "point" /\ call'[e] = Idle
      /\ Reign(call[e].t, call[e].rev)
  BY <1>0, PointCall DEF ghosts
<1>2. tpl[call[e].t].there /\ tpl[call[e].t].cur = 0 /\ call[e].was = 0
  BY <1>0, <1>1 DEF Caller, Making
<1>3. \A d \in Users \ {e} : call[d].pc \in Making => call[d].t # call[e].t
  BY <1>0, <1>1 DEF Apart, Making
<1>4. \A r \in revs : r.id # call[e].was
  BY <1>0, <1>2
<1>5. call[e].pc \in Handing
  BY <1>1 DEF Handing
<1>. QED  BY <1>1, <1>2, <1>3, <1>4, <1>5, Crowned

\* The row of a save that lost goes; nobody else holds it.
LEMMA DropBooks == ASSUME TemplatesInv, NEW e \in Users, Drop(e) PROVE Books'
<1>0. /\ TemplatesShape /\ Ranged /\ Unique /\ Pointers /\ Apart /\ Accounted /\ NoLostEdit
      /\ \A d \in Users : Caller(d) /\ call[d].t \in Names
      /\ \A r \in revs : r.of \in Names
  BY Facts
<1>1. /\ UNCHANGED <<tpl, lastRev, reigned>> /\ Others(e) /\ cut' = cut /\ call[e].pc = "drop" /\ call'[e] = Idle
      /\ revs' = {r \in revs : r.id # call[e].rev}
  BY <1>0, DroppedCall DEF ghosts
<1>2. call[e].rev \notin reigned /\ call[e].pc \in Handing
  BY <1>1, InHand DEF Handing
<1>3. Ranged' /\ Unique' /\ NoLostEdit'
  BY <1>0, <1>1 DEF Ranged, Unique, NoLostEdit
<1>4. \A i, n : i # call[e].rev /\ RevisionOf(i, n) => \E r \in revs' : r.id = i /\ r.of = n
  BY <1>1 DEF RevisionOf
<1>5. Pointers'
  <2>1. \A n \in Names : tpl[n].cur # 0 => \E r \in revs' : r.id = tpl[n].cur /\ r.of = n
    BY <1>0, <1>2, <1>4 DEF Pointers
  <2>2. reigned \subseteq {r.id : r \in revs'}
    BY <1>0, <1>1, <1>2 DEF Pointers
  <2>. QED  BY <1>0, <1>1, <2>1, <2>2 DEF Pointers, RevisionOf, RevsOf
<1>6. Requests'
  <2>1. Caller(e)'
    BY <1>1 DEF Caller, Idle, Basing, Handing, Making
  <2>2. ASSUME NEW d \in Users \ {e} PROVE Caller(d)'
    <3>1. call'[d] = call[d] /\ Caller(d) /\ call[d].t \in Names
      BY <1>0, <1>1 DEF Others
    <3>2. call[d].pc \in Handing =>
            /\ call[d].rev \notin reigned
            /\ \E r \in revs' : /\ r.id = call[d].rev /\ r.of = call[d].t
                                /\ r.base = call[d].was /\ r.uses = call[d].uses
      BY <1>0, <1>1, <1>2, <3>1 DEF Apart, Caller
    <3>3. call[d].pc \in Basing /\ call[d].was # 0 =>
            call[d].was \in reigned /\ \E r \in revs' : r.id = call[d].was /\ r.of = call[d].t
      BY <1>2, <1>4, <3>1 DEF Caller
    <3>. QED  BY <1>1, <3>1, <3>2, <3>3 DEF Caller, RevisionOf, RevsOf
  <2>. QED  BY <2>1, <2>2 DEF Requests
<1>7. Apart'
  BY <1>0, <1>1 DEF Apart, Others, Idle, Handing, Making, Basing
<1>8. Accounted'
  <2>1. \A d \in Users \ {e} : call'[d] = call[d]
    BY <1>1 DEF Others
  <2>2. call[e].pc \notin Making
    BY <1>1 DEF Making
  <2>. QED  BY <1>0, <1>1, <2>1, <2>2 DEF Accounted
<1>. QED  BY <1>3, <1>5, <1>6, <1>7, <1>8 DEF Books

LEMMA PutBooks == ASSUME TemplatesInv, NEW e \in Users, PutRow(e) PROVE Books'
<1>0. /\ TemplatesShape /\ Ranged /\ Unique /\ Pointers /\ Apart /\ Accounted /\ NoLostEdit
      /\ \A d \in Users : Caller(d) /\ call[d].t \in Names
      /\ \A r \in revs : r.of \in Names
  BY Facts
<1>1. /\ UNCHANGED <<revs, lastRev, reigned>> /\ Others(e) /\ cut' = cut /\ call[e].pc = "row"
  BY <1>0, PutCall DEF ghosts
<1>2. CASE tpl' = tpl /\ call'[e] = Idle
  <2>1. Caller(e)' /\ call'[e].pc = "idle"
    BY <1>2 DEF Caller, Idle, Basing, Handing, Making
  <2>2. \A n \in Names : ~tpl[n].there => ~tpl[n].dflt
    BY <1>0 DEF Pointers
  <2>. QED  BY <1>1, <1>2, <2>1, <2>2, BooksStill DEF Handing, Making, Basing
<1>3. CASE /\ Vacant(e) /\ tpl' = Made(call[e].t, e = System)
           /\ call'[e].pc = "first" /\ call'[e].t = call[e].t
           /\ call'[e].was = call[e].was /\ call'[e].uses = call[e].uses
  <2>. DEFINE t == call[e].t
  <2>1. t \in Names /\ ~tpl[t].there /\ RevsOf(t) = {} /\ call[e].was = 0
    BY <1>0, <1>1, <1>3 DEF Vacant, Pointers, Caller
  <2>2. tpl'[t].cur = 0 /\ tpl'[t].there /\ \A n \in Names \ {t} : tpl'[n] = tpl[n]
    BY <1>0, <1>3, MadeRow
  <2>. HIDE DEF t
  <2>3. Ranged' /\ Unique' /\ NoLostEdit'
    BY <1>0, <1>1 DEF Ranged, Unique, NoLostEdit
  <2>4. Pointers'
    <3>1. \A r \in revs : r.of # t
      BY <2>1 DEF RevsOf
    <3>. QED  BY <1>0, <1>1, <2>1, <2>2, <3>1 DEF Pointers, RevisionOf, RevsOf
  <2>5. Requests'
    <3>1. Caller(e)'
      BY <1>1, <1>3, <2>1, <2>2 DEF t, Caller, Basing, Handing, Making, RevsOf
    <3>2. ASSUME NEW d \in Users \ {e} PROVE Caller(d)'
      <4>1. call'[d] = call[d] /\ Caller(d) /\ call[d].t \in Names
        BY <1>0, <1>1 DEF Others
      <4>2. call[d].pc \in Basing \cup Making \cup {"clear", "set"} => call[d].t # t
        BY <2>1, <4>1 DEF Caller
      <4>3. call[d].pc \in Basing \cup Making \cup {"clear", "set"} => tpl'[call[d].t] = tpl[call[d].t]
        BY <2>2, <4>1, <4>2
      <4>. QED  BY <1>1, <4>1, <4>3 DEF Caller, RevisionOf, RevsOf
    <3>. QED  BY <3>1, <3>2 DEF Requests
  <2>6. Apart'
    <3>1. \A d \in Users \ {e} : call'[d] = call[d] /\ (call[d].pc \in Basing \cup Making => call[d].t # t)
      BY <1>0, <1>1, <2>1 DEF Others, Caller
    <3>2. call'[e].pc = "first" /\ call'[e].t = t /\ "first" \notin Handing /\ "first" \notin Basing
      BY <1>3 DEF t, Handing, Basing
    <3>3. \A d \in Users \ {e} : call[d].pc = "first" => call[d].pc \in Making
      BY DEF Making
    <3>. QED  BY <1>0, <3>1, <3>2, <3>3 DEF Apart
  <2>7. Accounted'
    <3>1. \A d \in Users \ {e} : call'[d] = call[d]
      BY <1>1 DEF Others
    <3>2. call[e].pc \notin Handing \cup Making /\ call'[e].pc \in Making /\ call'[e].t = t
      BY <1>1, <1>3 DEF t, Handing, Making
    <3>. QED  BY <1>0, <1>1, <2>2, <3>1, <3>2 DEF Accounted
  <2>. QED  BY <2>3, <2>4, <2>5, <2>6, <2>7 DEF Books
<1>. QED  BY <1>0, <1>2, <1>3, PutCall

LEMMA CrashBooks == ASSUME TemplatesInv, Crash PROVE Books'
<1>0. /\ TemplatesShape /\ Ranged /\ Unique /\ Pointers /\ Accounted /\ NoLostEdit
      /\ \A d \in Users : Caller(d) /\ call[d].t \in Names
  BY Facts
<1>1. /\ UNCHANGED <<tpl, revs, lastRev, reigned>>
      /\ call'[System] = [Idle EXCEPT !.pc = "row"]
      /\ \A e \in Editors : call'[e] = IF Busy(e) THEN Idle ELSE call[e]
      /\ ~cut' => ~cut /\ \A e \in Users : ~Busy(e)
  BY <1>0, CrashCall DEF tables
<1>2. call'[System].pc = "row" /\ call'[System].was = 0 /\ Idle.pc = "idle"
  BY <1>1 DEF Idle
<1>3. \A d \in Users : \/ call'[d].pc = "row" /\ call'[d].was = 0
                       \/ call'[d].pc = "idle"
                       \/ call'[d] = call[d] /\ call[d].pc \in {"idle", "open"}
  BY <1>1, <1>2 DEF Users, Busy
<1>4. Ranged' /\ Unique' /\ NoLostEdit'
  BY <1>0, <1>1 DEF Ranged, Unique, NoLostEdit
<1>5. Pointers'
  BY <1>0, <1>1 DEF Pointers, RevisionOf, RevsOf
<1>6. Requests'
  <2>. SUFFICES ASSUME NEW d \in Users PROVE Caller(d)'
    BY DEF Requests
  <2>1. CASE call'[d].pc \in {"row", "idle"} /\ (call'[d].pc = "row" => call'[d].was = 0)
    BY <2>1 DEF Caller, Basing, Handing, Making
  <2>2. CASE call'[d] = call[d]
    BY <1>0, <1>1, <2>2, CallerStill
  <2>. QED  BY <1>3, <2>1, <2>2
<1>7. Apart'
  <2>1. \A d \in Users : call'[d].pc \notin Handing \cup Making
    BY <1>3 DEF Handing, Making
  <2>. QED  BY <2>1 DEF Apart, Making
<1>8. Accounted'
  <2>1. (\A d \in Users : ~Busy(d)) => \A d \in Users : call[d].pc \notin Handing \cup Making
    BY DEF Busy, Handing, Making
  <2>. QED  BY <1>0, <1>1, <2>1 DEF Accounted
<1>. QED  BY <1>4, <1>5, <1>6, <1>7, <1>8 DEF Books

LEMMA BooksStep == TemplatesInv /\ [TemplatesNext]_templateVars => Books'
<1>. SUFFICES ASSUME TemplatesInv, [TemplatesNext]_templateVars PROVE Books'
  OBVIOUS
<1>1. CASE UNCHANGED templateVars
  <2>1. Books
    BY DEF TemplatesInv
  <2>. QED  BY <1>1, <2>1 DEF templateVars, tables, media, ghosts, Books, Ranged, Unique, Pointers, Requests,
                 Caller, Apart, Accounted, NoLostEdit, RevisionOf, RevsOf
<1>2. ASSUME NEW e \in Users, Revising(e) \/ Founding(e) PROVE Books'
  BY <1>2, InsertBooks, MoveBooks, DropBooks, PutBooks, FirstBooks, PointBooks DEF Revising, Founding
<1>. QED  BY <1>1, <1>2, Kinds, CrashBooks, AskingBooks, LookingBooks, ShelvedBooks, DefaultedBooks
-----------------------------------------------------------------------------
(* The shelves.                                                            *)
LEMMA ShelvesStill ==
  ASSUME TemplatesInv, NEW e \in Users, UNCHANGED <<asset, file>>, Others(e), call'[e].pc # "store",
         call'[e].pc \in Shelving => call'[e].slug \in Slugs
  PROVE  Shelves'
BY DEF TemplatesInv, Shelves, Others

LEMMA ShelvedShelves == ASSUME TemplatesInv, NEW e \in Users, Shelved(e) PROVE Shelves'
<1>. DEFINE s == call[e].slug
<1>0. TemplatesShape /\ Shelves
  BY DEF TemplatesInv
<1>1. /\ Others(e) /\ call[e].pc \in {"claim", "store", "trash", "bury"}
      /\ call'[e].pc \in {"idle", "store", "bury"}
      /\ call'[e].pc # "idle" => call'[e].slug = call[e].slug
  BY <1>0, ShelvedCall
<1>2. s \in Slugs /\ e # NoOne
  BY <1>0, <1>1, MotdTemplatesAssumption DEF Shelves, Shelving, Users
<1>3. \A d \in Users : call[d].pc = "store" =>
        call[d].slug \in Slugs /\ asset[call[d].slug].by = d /\ asset[call[d].slug].state # "free"
  BY <1>0, MotdTemplatesAssumption DEF Shelves, Shelving, Users
<1>. HIDE DEF s
<1>4. CASE Claim(e) /\ asset[s].state = "free"
  <2>1. /\ asset' = [asset EXCEPT ![s] = [state |-> "live", by |-> e]] /\ file' = file
        /\ call[e].pc = "claim" /\ file[s] = NoOne
    BY <1>0, <1>2, <1>4 DEF Claim, At, s, Shelves
  <2>2. asset'[s].by = e /\ asset'[s].state = "live" /\ \A x \in Slugs \ {s} : asset'[x] = asset[x]
    BY <1>0, <1>2, <2>1 DEF TemplatesShape
  <2>3. \A x \in Slugs : file'[x] \in {asset'[x].by, NoOne} /\ (asset'[x].state = "free" => asset'[x].by = NoOne)
    BY <1>0, <2>1, <2>2 DEF Shelves
  <2>4. ASSUME NEW d \in Users \ {e}
        PROVE  /\ call'[d].pc \in Shelving => call'[d].slug \in Slugs
               /\ call'[d].pc = "store" => asset'[call'[d].slug].by = d
    BY <1>0, <1>1, <1>3, <1>4, <2>2, <2>4 DEF Shelves, Others
  <2>5. /\ call'[e].pc \in Shelving => call'[e].slug \in Slugs
        /\ call'[e].pc = "store" => asset'[call'[e].slug].by = e
    BY <1>1, <1>2, <2>2 DEF s, Shelving
  <2>. QED  BY <2>3, <2>4, <2>5 DEF Shelves
<1>5. CASE Claim(e) /\ asset[s].state # "free"
  <2>1. UNCHANGED <<asset, file>> /\ End(e)
    BY <1>5 DEF Claim, GotoIf, s
  <2>. QED  BY <1>0, <1>1, <2>1, Ending, ShelvesStill DEF Idle, Shelving
<1>6. CASE Store(e) \/ Trash(e) \/ Bury(e)
  <2>1. /\ \A x \in Slugs : asset'[x].by = asset[x].by /\ (asset'[x].state = "free" => asset[x].state = "free")
        /\ \A x \in Slugs : file'[x] \in {file[x], NoOne} \/ (file'[x] = asset[x].by)
    <3>1. CASE Store(e)
      <4>1. asset[s].by = e
        BY <1>3, <3>1 DEF Store, At, s
      <4>2. CASE file' = [file EXCEPT ![s] = e] /\ asset' = asset
        BY <1>0, <1>2, <4>1, <4>2 DEF TemplatesShape
      <4>3. CASE file' = file /\ asset' = [asset EXCEPT ![s].state = "deleted"]
        BY <1>0, <1>2, <4>3 DEF TemplatesShape
      <4>. QED  BY <3>1, <4>2, <4>3 DEF Store, s
    <3>2. CASE Trash(e)
      BY <1>0, <1>2, <3>2 DEF Trash, s, TemplatesShape
    <3>3. CASE Bury(e)
      BY <1>0, <1>2, <3>3 DEF Bury, s, TemplatesShape
    <3>. QED  BY <1>6, <3>1, <3>2, <3>3
  <2>2. call'[e].pc \in {"idle", "bury"}
    <3>1. CASE Store(e) \/ Bury(e)
      BY <1>0, <3>1, Ending DEF Store, Bury, Idle
    <3>2. CASE Trash(e)
      BY <1>0, <3>2, Places, Going DEF Trash
    <3>. QED  BY <1>6, <3>1, <3>2
  <2>3. \A x \in Slugs : file'[x] \in {asset'[x].by, NoOne} /\ (asset'[x].state = "free" => asset'[x].by = NoOne)
    BY <1>0, <2>1 DEF Shelves
  <2>4. ASSUME NEW d \in Users \ {e}
        PROVE  /\ call'[d].pc \in Shelving => call'[d].slug \in Slugs
               /\ call'[d].pc = "store" => asset'[call'[d].slug].by = d
    BY <1>0, <1>1, <1>3, <2>1, <2>4 DEF Shelves, Others
  <2>5. call'[e].pc # "store" /\ (call'[e].pc \in Shelving => call'[e].slug \in Slugs)
    BY <1>1, <1>2, <2>2 DEF s, Shelving
  <2>. QED  BY <2>3, <2>4, <2>5 DEF Shelves
<1>. QED  BY <1>4, <1>5, <1>6 DEF Shelved

LEMMA ShelvesStep == TemplatesInv /\ [TemplatesNext]_templateVars => Shelves'
<1>. SUFFICES ASSUME TemplatesInv, [TemplatesNext]_templateVars PROVE Shelves'
  OBVIOUS
<1>0. TemplatesShape /\ Shelves
  BY DEF TemplatesInv
<1>1. CASE UNCHANGED templateVars
  BY <1>0, <1>1 DEF templateVars, media, Shelves
<1>2. CASE Crash
  <2>1. \A d \in Users : call'[d].pc \in {"row", "idle"} \/ (call'[d] = call[d] /\ call[d].pc \in {"idle", "open"})
    BY <1>0, <1>2, CrashCall DEF Users, Busy, Idle
  <2>2. \A d \in Users : call'[d].pc \notin Shelving
    BY <2>1 DEF Shelving
  <2>. QED  BY <1>0, <1>2, <2>2, CrashCall DEF media, Shelves, Shelving
<1>3. ASSUME NEW e \in Editors, Starts(e) PROVE Shelves'
  <2>1. UNCHANGED <<asset, file>> /\ call'[e].pc # "store" /\ e \in Users
    BY <1>0, <1>3, Asked, Places DEF media
  <2>2. Others(e)
    <3>1. PICK c \in CallRow : Serve(e, c)
      BY <1>0, <1>3, Asked
    <3>. QED  BY <1>0, <2>1, <3>1, Serving
  <2>3. call'[e].pc \in Shelving => call'[e].slug \in Slugs
    BY <1>0, <1>3, AskedFor DEF Shelving
  <2>. QED  BY <2>1, <2>2, <2>3, ShelvesStill
<1>4. ASSUME NEW e \in Users, Looking(e) PROVE Shelves'
  <2>1. /\ UNCHANGED <<asset, file>> /\ Others(e) /\ call'[e].pc \in {"idle", "number", "insert", "archive", "trash"}
    BY <1>0, <1>4, Looked DEF media
  <2>2. call'[e].pc = "trash" => call'[e].slug \in Slugs
    <3>1. CASE Refs(e)
      <4>1. call[e].pc = "refs" /\ call[e].slug \in Slugs
        BY <1>0, <3>1 DEF Refs, At, Shelves, Shelving
      <4>2. CASE Goto(e, "trash")
        BY <1>0, <4>1, <4>2, Places, Going
      <4>3. CASE End(e)
        BY <1>0, <4>3, Ending DEF Idle
      <4>. QED  BY <3>1, <4>2, <4>3 DEF Refs, GotoIf
    <3>2. CASE Check(e) \/ Number(e) \/ Count(e) \/ DoPlan(e)
      <4>1. \A pc : Goto(e, pc) => call'[e].pc = pc
        BY <1>0 DEF Goto, TemplatesShape, CallRow
      <4>2. End(e) => call'[e].pc = "idle"
        BY <1>0, Ending DEF Idle
      <4>. QED  BY <1>0, <3>2, <4>1, <4>2, NumberedCall DEF Check, Count, DoPlan, GotoIf
    <3>. QED  BY <1>4, <3>1, <3>2 DEF Looking
  <2>. QED  BY <2>1, <2>2, ShelvesStill DEF Shelving
<1>5. ASSUME NEW e \in Users, Defaulting(e) PROVE Shelves'
  BY <1>0, <1>5, DefaultedCall, ShelvesStill DEF media, Shelving
<1>6. ASSUME NEW e \in Users, Revising(e) \/ Founding(e) PROVE Shelves'
  <2>1. UNCHANGED <<asset, file>> /\ Others(e) /\ call'[e].pc \in {"move", "drop", "first", "point", "idle"}
    BY <1>0, <1>6, InsertedCall, MovedCall, DroppedCall, PutCall, FirstCall, PointCall DEF Revising, Founding, media, Idle
  <2>. QED  BY <2>1, ShelvesStill DEF Shelving
<1>. QED  BY <1>1, <1>2, <1>3, <1>4, <1>5, <1>6, Kinds, ShelvedShelves
-----------------------------------------------------------------------------
(* The order that holds while requests come one at a time.                 *)
AtRest(d) == call[d].pc \in {"idle", "open"}

LEMMA OrderlyBy ==
  ASSUME TemplatesInv, NEW e \in Users, Others(e), Solo',
         ~crowded' /\ ~cut' => /\ \A d \in Users \ {e} : AtRest(d)
                               /\ Settling' /\ Hung' /\ Filled' /\ Heeded(e)'
  PROVE  Orderly'
<1>. SUFFICES ASSUME ~crowded', ~cut', NEW d \in Users \ {e} PROVE Heeded(d)'
  BY DEF Orderly
<1>1. call'[d].pc \in {"idle", "open"}
  BY DEF Others, AtRest
<1>. QED  BY <1>1 DEF Heeded

LEMMA OrderFacts ==
  ASSUME TemplatesInv, ~crowded, ~cut, NEW e \in Users, ~AtRest(e)
  PROVE  /\ \A d \in Users \ {e} : AtRest(d)
         /\ Settling /\ Hung /\ Filled /\ Heeded(e)
         /\ call[e].pc \notin {"store", "bury"} => \A s \in Slugs : asset[s].state = "live" => file[s] # NoOne
         /\ call[e].pc \notin {"set", "row", "first", "point"} => Chosen
<1>1. Solo /\ Settling /\ Hung /\ Filled /\ Heeded(e) /\ call[System].pc \in {"idle", "row", "first", "point"}
  BY DEF TemplatesInv, Orderly, TemplatesShape
<1>2. \A d \in Users \ {e} : AtRest(d)
  BY <1>1 DEF Solo, Busy, AtRest
<1>3. call[e].pc \notin {"store", "bury"} => \A s \in Slugs : asset[s].state = "live" => file[s] # NoOne
  BY <1>1, <1>2 DEF Filled, AtRest
<1>4. call[e].pc \notin {"set", "row", "first", "point"} => Chosen
  BY <1>1, <1>2, Places DEF Settling, AtRest, At, Making
<1>. QED  BY <1>1, <1>2, <1>3, <1>4

LEMMA RestFacts ==
  ASSUME TemplatesInv, ~crowded, ~cut, \A d \in Users : AtRest(d)
  PROVE  /\ Chosen /\ Hung
         /\ \A s \in Slugs : asset[s].state = "live" => file[s] # NoOne
         /\ \A t \in Names : tpl[t].there => tpl[t].cur # 0
<1>1. Settling /\ Hung /\ Filled /\ Accounted
  BY DEF TemplatesInv, Orderly, Books
<1>2. \A d \in Users : call[d].pc \notin Making \cup {"set", "row", "store", "bury"}
  BY DEF AtRest, Making
<1>. QED  BY <1>1, <1>2, Places DEF Settling, Filled, Accounted, At

LEMMA SoloStep == TemplatesInv /\ [TemplatesNext]_templateVars => Solo'
<1>. SUFFICES ASSUME TemplatesInv, [TemplatesNext]_templateVars PROVE Solo'
  OBVIOUS
<1>0. TemplatesShape /\ Solo
  BY DEF TemplatesInv, Orderly
<1>1. CASE UNCHANGED templateVars
  BY <1>0, <1>1 DEF templateVars, ghosts, Solo, Busy
<1>2. CASE Crash
  <2>1. \A d \in Editors : call'[d].pc \in {"idle", "open"}
    BY <1>0, <1>2, CrashCall DEF Busy, Idle
  <2>. QED  BY <2>1 DEF Solo, Busy, Users
<1>3. ASSUME NEW e \in Editors, Starts(e) PROVE Solo'
  <2>1. e \in Users
    BY Places
  <2>2. Others(e) /\ (~crowded' => \A d \in Users \ {e} : ~Busy(d))
    <3>1. PICK c \in CallRow : Serve(e, c)
      BY <1>0, <1>3, Asked
    <3>. QED  BY <1>0, <2>1, <3>1, Serving
  <2>. QED  BY <2>2 DEF Solo, Busy, Others
<1>4. ASSUME NEW e \in Users, Looking(e) \/ Shelved(e) \/ Defaulting(e) \/ Revising(e) \/ Founding(e) PROVE Solo'
  <2>1. Others(e) /\ crowded' = crowded
    BY <1>0, <1>4, Looked, ShelvedCall, DefaultedCall, InsertedCall, MovedCall, DroppedCall, PutCall, FirstCall, PointCall
       DEF Revising, Founding, ghosts
  <2>2. Busy(e)
    <3>1. call[e].pc \in {"check", "number", "count", "plan", "refs", "claim", "store", "trash", "bury", "clear", "set",
                          "archive", "insert", "move", "drop", "row", "first", "point"}
      BY <1>0, <1>4, Looked, ShelvedCall, DefaultedCall, InsertedCall, MovedCall, DroppedCall, PutCall, FirstCall, PointCall
         DEF Revising, Founding
    <3>. QED  BY <3>1 DEF Busy
  <2>. QED  BY <1>0, <2>1, <2>2 DEF Solo, Busy, Others
<1>. QED  BY <1>1, <1>2, <1>3, <1>4, Kinds

\* What is chosen and shown stays so while the tables do.
LEMMA SameTables ==
  ASSUME UNCHANGED <<tpl, revs, asset, file>>
  PROVE  /\ (Chosen => Settling') /\ (Hung => Hung')
         /\ ((\A s \in Slugs : asset[s].state = "live" => file[s] # NoOne) => Filled')
         /\ \A u : Pictured(u)' <=> Pictured(u)
         /\ \A s : Unshown(s)' <=> Unshown(s)
         /\ \A t : Ready(t)' <=> Ready(t)
BY DEF Chosen, Settling, Hung, Filled, Pictured, Unshown, Ready, Live, Current

LEMMA AskingOrderly == ASSUME TemplatesInv, NEW e \in Editors, Starts(e), Solo' PROVE Orderly'
<1>0. TemplatesShape /\ e \in Users
  BY Places DEF TemplatesInv
<1>1. PICK c \in CallRow :
        /\ Serve(e, c) /\ call'[e] = c
        /\ \/ c.pc \in {"idle", "plan"}
           \/ c.pc = "open" /\ Live(c.t) /\ c.was = tpl[c.t].cur /\ c.was # 0
           \/ c.pc = "clear" /\ Live(c.t)
           \/ c.pc = "count" /\ ~tpl[c.t].dflt
           \/ c.pc = "row" /\ c.was = 0 /\ Shows(c.uses)
           \/ c.pc = "check" /\ call[e].pc = "open" /\ c.t = call[e].t /\ c.was = call[e].was
           \/ c.pc = "check" /\ Live(c.t) /\ c.was = tpl[c.t].cur /\ RevsOf(c.t) # {}
           \/ c.pc \in {"claim", "refs"} /\ c.slug \in Slugs
  BY <1>0, AskedFor
<1>2. /\ UNCHANGED <<tpl, revs, asset, file>> /\ Others(e) /\ cut' = cut /\ AtRest(e)
      /\ ~crowded' => ~crowded /\ \A d \in Users \ {e} : AtRest(d)
      /\ c.t \in Names
  BY <1>0, <1>1, Asked, Serving DEF tables, media, AtRest, Busy, CallRow
<1>3. ASSUME ~crowded', ~cut' PROVE Settling' /\ Hung' /\ Filled' /\ Heeded(e)'
  <2>1. /\ Chosen /\ Hung
        /\ \A s \in Slugs : asset[s].state = "live" => file[s] # NoOne
        /\ \A t \in Names : tpl[t].there => tpl[t].cur # 0
    BY <1>0, <1>2, <1>3, RestFacts
  <2>2. c.pc = "clear" => Ready(c.t)
    BY <1>1, <1>2, <2>1 DEF Ready, Live
  <2>3. c.pc = "row" => Pictured(c.uses)
    BY <1>1, <2>1 DEF Pictured, Shows
  <2>4. Heeded(e)'
    BY <1>1, <1>2, <2>2, <2>3, SameTables DEF Heeded
  <2>. QED  BY <1>2, <2>1, <2>4, SameTables
<1>. QED  BY <1>0, <1>2, <1>3, OrderlyBy

LEMMA LookingOrderly == ASSUME TemplatesInv, NEW e \in Users, Looking(e), Solo' PROVE Orderly'
<1>0. TemplatesShape
  BY DEF TemplatesInv
<1>1. /\ UNCHANGED <<tpl, revs, asset, file>> /\ Others(e) /\ crowded' = crowded /\ cut' = cut /\ ~AtRest(e)
      /\ call[e].pc \in {"check", "number", "count", "plan", "refs"}
      /\ call'[e].pc \in {"idle", "number", "insert", "archive", "trash"}
  BY <1>0, Looked DEF tables, media, ghosts, AtRest
<1>2. ASSUME ~crowded, ~cut PROVE Heeded(e)' /\ Chosen /\ Hung /\ \A s \in Slugs : asset[s].state = "live" => file[s] # NoOne
  <2>1. /\ Chosen /\ Hung /\ Heeded(e)
        /\ \A s \in Slugs : asset[s].state = "live" => file[s] # NoOne
    BY <1>1, <1>2, OrderFacts
  <2>2. CASE call'[e].pc = "idle"
    BY <2>1, <2>2 DEF Heeded
  <2>3. CASE Check(e) /\ Goto(e, "number")
    <3>1. call'[e].pc = "number" /\ call'[e].uses = call[e].uses
      BY <1>0, <2>3, Places, Going
    <3>2. Pictured(call[e].uses)
      <4>1. ~End(e)
        BY <1>0, <3>1, Ending DEF Idle
      <4>. QED  BY <2>1, <2>3, <4>1 DEF Check, GotoIf, Shows, Pictured
    <3>. QED  BY <1>1, <2>1, <3>1, <3>2, SameTables DEF Heeded
  <2>4. CASE Number(e)
    <3>1. call'[e].pc = "insert" /\ call'[e].uses = call[e].uses /\ call[e].pc = "number"
      BY <1>0, <2>4, NumberedCall DEF Number, At
    <3>. QED  BY <1>1, <2>1, <3>1, SameTables DEF Heeded
  <2>5. CASE Count(e) /\ Goto(e, "archive")
    <3>1. call'[e].pc = "archive" /\ call'[e].t = call[e].t /\ call[e].pc = "count"
      BY <1>0, <2>5, Places, Going DEF Count, At
    <3>. QED  BY <1>1, <2>1, <3>1 DEF Heeded
  <2>6. CASE Refs(e) /\ Goto(e, "trash")
    <3>1. call'[e].pc = "trash" /\ call'[e].slug = call[e].slug
      BY <1>0, <2>6, Places, Going
    <3>2. Unshown(call[e].slug)
      <4>1. ~End(e)
        BY <1>0, <3>1, Ending DEF Idle
      <4>. QED  BY <2>6, <4>1 DEF Refs, GotoIf, Unshown
    <3>. QED  BY <1>1, <2>1, <3>1, <3>2, SameTables DEF Heeded
  <2>7. \A d \in Users : End(d) => call'[d].pc = "idle"
    BY <1>0, Ending DEF Idle
  <2>. QED  BY <2>1, <2>2, <2>3, <2>4, <2>5, <2>6, <2>7 DEF Looking, Check, Count, DoPlan, Refs, GotoIf
<1>3. ASSUME ~crowded, ~cut PROVE \A d \in Users \ {e} : AtRest(d)
  BY <1>1, <1>3, OrderFacts
<1>. QED  BY <1>1, <1>2, <1>3, SameTables, OrderlyBy

LEMMA ShelvedOrderly == ASSUME TemplatesInv, NEW e \in Users, Shelved(e), Solo' PROVE Orderly'
<1>. DEFINE s == call[e].slug
<1>0. TemplatesShape /\ Shelves /\ (\A r \in revs : r.uses \in Slugs \cup {NoOne})
  BY DEF TemplatesInv, TemplatesShape, RevRow
<1>1. /\ UNCHANGED <<tpl, revs>> /\ Others(e) /\ crowded' = crowded /\ cut' = cut /\ ~AtRest(e)
      /\ call[e].pc \in {"claim", "store", "trash", "bury"}
      /\ call'[e].pc \in {"idle", "store", "bury"}
      /\ call'[e].pc # "idle" => call'[e].slug = s
  BY <1>0, ShelvedCall DEF tables, ghosts, AtRest
<1>2. s \in Slugs /\ e # NoOne
  BY <1>0, <1>1, MotdTemplatesAssumption DEF Shelves, Shelving, Users
<1>3. ASSUME ~crowded, ~cut PROVE Settling' /\ Hung' /\ Filled' /\ Heeded(e)'
  <2>1. Chosen /\ Hung /\ Filled /\ Heeded(e) /\ \A d \in Users \ {e} : AtRest(d)
    BY <1>1, <1>3, OrderFacts
  <2>2. Settling'
    BY <1>1, <2>1 DEF Chosen, Settling, Ready, Live
  <2>3. \A x \in Slugs \ {s} : asset[x].state = "live" => file[x] # NoOne
    <3>1. \A d \in Users : call[d].pc \in {"store", "bury"} => call[d].slug = s
      BY <2>1 DEF AtRest
    <3>. QED  BY <2>1, <3>1 DEF Filled
  <2>4. \A x \in Slugs \ {s} : asset'[x] = asset[x] /\ file'[x] = file[x]
    <3>1. CASE Claim(e) \/ Bury(e)
      BY <1>0, <1>2, <3>1 DEF Claim, Bury, TemplatesShape
    <3>2. CASE Store(e) \/ Trash(e)
      BY <1>0, <1>2, <3>2 DEF Store, Trash, TemplatesShape
    <3>. QED  BY <3>1, <3>2 DEF Shelved
  <2>5. CASE Claim(e) /\ asset[s].state # "free"
    <3>1. UNCHANGED <<asset, file>> /\ call'[e].pc = "idle" /\ call[e].pc = "claim"
      BY <1>0, <2>5, Ending DEF Claim, GotoIf, Idle, At
    <3>2. \A x \in Slugs : asset[x].state = "live" => file[x] # NoOne
      BY <1>1, <1>3, <3>1, OrderFacts
    <3>. QED  BY <1>1, <2>1, <3>1, <3>2, SameTables DEF Heeded
  <2>6. CASE ~(Claim(e) /\ asset[s].state # "free")
    <3>1. Unshown(s)
      <4>1. CASE Claim(e)
        BY <2>1, <2>6, <4>1, <1>2, MotdTemplatesAssumption DEF Hung, Pictured, Unshown
      <4>2. CASE Store(e) \/ Trash(e) \/ Bury(e)
        BY <2>1, <4>2 DEF Store, Trash, Bury, At, Heeded
      <4>. QED  BY <4>1, <4>2 DEF Shelved
    <3>2. \A t \in Names : Live(t)' => \A r \in Current(t)' : r.uses # s
      BY <1>1, <3>1 DEF Unshown, Live, Current
    <3>3. Hung'
      <4>. SUFFICES ASSUME NEW t \in Names, Live(t), NEW r \in Current(t) PROVE Pictured(r.uses)'
        BY <1>1 DEF Hung, Live, Current
      <4>1. r.uses # s /\ Pictured(r.uses) /\ r.uses \in Slugs \cup {NoOne}
        BY <1>0, <2>1, <3>1 DEF Unshown, Hung, Current
      <4>. QED  BY <2>4, <4>1 DEF Pictured
    <3>4. asset'[s].state = "live" /\ file'[s] = NoOne => call'[e].pc \in {"store", "bury"}
      <4>1. CASE Claim(e)
        BY <1>0, <2>6, <4>1, Places, Going DEF Claim, GotoIf
      <4>2. CASE Trash(e)
        BY <1>0, <4>2, Places, Going DEF Trash
      <4>3. CASE Store(e)
        BY <1>0, <1>2, <4>3 DEF Store, At, Shelves, TemplatesShape
      <4>4. CASE Bury(e)
        BY <1>0, <1>2, <4>4 DEF Bury, TemplatesShape
      <4>. QED  BY <4>1, <4>2, <4>3, <4>4 DEF Shelved
    <3>5. Filled'
      BY <1>1, <2>3, <2>4, <3>4 DEF Filled
    <3>6. Heeded(e)'
      <4>1. call'[e].pc = "idle" \/ (call'[e].pc \in {"store", "bury"} /\ call'[e].slug = s)
        BY <1>1
      <4>. QED  BY <3>2, <4>1 DEF Heeded, Unshown, Live, Current
    <3>. QED  BY <2>2, <3>3, <3>5, <3>6
  <2>. QED  BY <2>5, <2>6
<1>4. ASSUME ~crowded, ~cut PROVE \A d \in Users \ {e} : AtRest(d)
  BY <1>1, <1>4, OrderFacts
<1>. QED  BY <1>1, <1>3, <1>4, OrderlyBy

LEMMA DefaultedOrderly == ASSUME TemplatesInv, NEW e \in Users, Defaulting(e), Solo' PROVE Orderly'
<1>. DEFINE t == call[e].t
<1>0. TemplatesShape /\ t \in Names
  BY DEF TemplatesInv, TemplatesShape, CallRow
<1>1. /\ UNCHANGED <<revs, asset, file>> /\ Others(e) /\ crowded' = crowded /\ cut' = cut /\ ~AtRest(e)
      /\ call[e].pc \in {"clear", "set", "archive"} /\ call'[e].pc \in {"set", "idle"}
      /\ call'[e].pc = "set" => call[e].pc = "clear" /\ call'[e].t = t
  BY <1>0, DefaultedCall DEF media, ghosts, AtRest
<1>2. ASSUME ~crowded, ~cut PROVE Settling' /\ Hung' /\ Filled' /\ Heeded(e)'
  <2>1. /\ Settling /\ Hung /\ Heeded(e) /\ \A d \in Users \ {e} : AtRest(d)
        /\ \A s \in Slugs : asset[s].state = "live" => file[s] # NoOne
        /\ call[e].pc # "set" => Chosen
    BY <1>1, <1>2, OrderFacts
  <2>2. Filled' /\ Heeded(e)'
    BY <1>1, <2>1 DEF Filled, Heeded
  <2>. HIDE DEF t
  <2>3. CASE Clear(e)
    <3>1. \A n \in Names : /\ tpl'[n].there = tpl[n].there /\ tpl'[n].cur = tpl[n].cur
                           /\ tpl'[n].archived = tpl[n].archived /\ ~tpl'[n].dflt
      BY <1>0, <2>3 DEF Clear, TemplatesShape, TplRow
    <3>2. Hung'
      BY <1>1, <2>1, <3>1 DEF Hung, Live, Current, Pictured
    <3>3. Ready(t)
      BY <2>1, <2>3 DEF Clear, At, Heeded, t
    <3>4. call'[e].pc = "set" /\ call'[e].t = t
      BY <1>0, <2>3, Places, Going DEF Clear, t
    <3>5. Settling'
      BY <1>0, <3>1, <3>3, <3>4 DEF Settling, At, Ready, Live
    <3>. QED  BY <2>2, <3>2, <3>5
  <2>4. CASE Set(e)
    <3>1. /\ tpl' = IF \E n \in Names \ {t} : tpl[n].dflt THEN tpl ELSE [tpl EXCEPT ![t].dflt = TRUE]
          /\ call[e].pc = "set"
      BY <2>4 DEF Set, At, t
    <3>2. \A n \in Names : /\ tpl'[n].there = tpl[n].there /\ tpl'[n].cur = tpl[n].cur
                           /\ tpl'[n].archived = tpl[n].archived
      BY <1>0, <3>1 DEF TemplatesShape, TplRow
    <3>3. Hung'
      BY <1>1, <2>1, <3>2 DEF Hung, Live, Current, Pictured
    <3>4. Chosen \/ (Ready(t) /\ \A n \in Names : ~tpl[n].dflt)
      BY <1>0, <2>1, <3>1, Places DEF Settling, AtRest, At, Making, TemplatesShape, t
    <3>5. CASE \E n \in Names \ {t} : tpl[n].dflt
      BY <2>2, <3>1, <3>3, <3>4, <3>5 DEF Settling, Chosen, Ready, Live
    <3>6. CASE ~\E n \in Names \ {t} : tpl[n].dflt
      <4>1. Ready(t)
        BY <3>4, <3>6 DEF Chosen
      <4>2. \A n \in Names : tpl'[n].dflt <=> n = t
        BY <1>0, <3>1, <3>6 DEF TemplatesShape, TplRow
      <4>. QED  BY <1>0, <2>2, <3>2, <3>3, <4>1, <4>2 DEF Settling, Chosen, Ready, Live
    <3>. QED  BY <2>2, <3>3, <3>5, <3>6
  <2>5. CASE DoArchive(e)
    <3>1. tpl' = [tpl EXCEPT ![t].archived = TRUE] /\ call[e].pc = "archive"
      BY <2>5 DEF DoArchive, At, t
    <3>2. \A n \in Names : /\ tpl'[n].there = tpl[n].there /\ tpl'[n].cur = tpl[n].cur /\ tpl'[n].dflt = tpl[n].dflt
                           /\ n # t => tpl'[n].archived = tpl[n].archived
      BY <1>0, <3>1, ZenonT(30) DEF TemplatesShape, TplRow
    <3>3. tpl'[t].archived
      BY <1>0, <3>1 DEF TemplatesShape, TplRow
    <3>4. Hung'
      BY <1>1, <2>1, <3>2, <3>3 DEF Hung, Live, Current, Pictured
    <3>5. Chosen /\ ~tpl[t].dflt
      BY <2>1, <3>1 DEF Heeded, t
    <3>6. Settling'
      BY <3>2, <3>5 DEF Settling, Chosen, Ready, Live
    <3>. QED  BY <2>2, <3>4, <3>6
  <2>. QED  BY <2>3, <2>4, <2>5 DEF Defaulting
<1>3. ASSUME ~crowded, ~cut PROVE \A d \in Users \ {e} : AtRest(d)
  BY <1>1, <1>3, OrderFacts
<1>. QED  BY <1>1, <1>2, <1>3, OrderlyBy

LEMMA RevisingOrderly == ASSUME TemplatesInv, NEW e \in Users, Revising(e), Solo' PROVE Orderly'
<1>. DEFINE t == call[e].t
<1>0. /\ TemplatesShape /\ Unique /\ Pointers /\ Caller(e) /\ call[e].t \in Names
      /\ (\A n \in Names : tpl[n].cur \in Nat) /\ t \in Names
  BY Facts
<1>1. /\ UNCHANGED <<asset, file>> /\ Others(e) /\ crowded' = crowded /\ cut' = cut /\ ~AtRest(e)
      /\ call[e].pc \in {"insert", "move", "drop"}
  BY <1>0, InsertedCall, MovedCall, DroppedCall DEF Revising, media, ghosts, AtRest
<1>. HIDE DEF t
<1>2. ASSUME ~crowded, ~cut PROVE Settling' /\ Hung' /\ Filled' /\ Heeded(e)'
  <2>1. /\ Chosen /\ Hung /\ Heeded(e)
        /\ \A s \in Slugs : asset[s].state = "live" => file[s] # NoOne
    BY <1>1, <1>2, OrderFacts
  <2>2. Filled' /\ \A u : Pictured(u)' <=> Pictured(u)
    BY <1>1, <2>1 DEF Filled, Pictured
  <2>3. CASE Insert(e)
    <3>1. UNCHANGED tpl
      BY <1>0, <2>3, InsertedCall
    <3>2. Settling'
      BY <2>1, <3>1 DEF Settling, Chosen, Ready, Live
    <3>3. Hung'
      <4>1. \A n \in Names, r \in revs' : r.id = tpl[n].cur => r \in revs
        <5>1. \A n \in Names : tpl[n].cur # lastRev + 1
          BY <1>0 DEF Pointers, TemplatesShape
        <5>2. \A r \in revs' : r \in revs \/ r.id = lastRev + 1
          BY <1>0, <2>3, InsertedCall DEF Revision
        <5>. QED  BY <5>1, <5>2
      <4>. QED  BY <2>1, <2>2, <3>1, <4>1 DEF Hung, Live, Current
    <3>4. Heeded(e)'
      <4>1. call'[e].pc = "idle" \/ (call'[e].pc = "move" /\ call'[e].uses = call[e].uses)
        BY <1>0, <2>3, InsertedCall DEF Idle
      <4>2. Pictured(call[e].uses)
        BY <2>1, <2>3 DEF Heeded, Insert, At
      <4>. QED  BY <1>1, <4>1, <4>2 DEF Heeded, Pictured
    <3>. QED  BY <2>2, <3>2, <3>3, <3>4
  <2>4. CASE Move(e)
    <3>0. revs' = revs /\ call[e].pc = "move" /\ call'[e].pc \in {"idle", "drop"}
      BY <1>0, <2>4, MovedCall DEF Idle
    <3>1. CASE Reign(call[e].t, call[e].rev)
      <4>1. PICK R \in revs : R.id = call[e].rev /\ R.of = t /\ R.uses = call[e].uses
        BY <3>0, InHand DEF Handing, t
      <4>2. call[e].rev \in Nat /\ call[e].rev # 0
        BY <1>0, <3>0, InHand DEF Handing, TemplatesShape
      <4>3. /\ tpl'[t].cur = call[e].rev /\ tpl'[t].there = tpl[t].there
            /\ tpl'[t].dflt = tpl[t].dflt /\ tpl'[t].archived = tpl[t].archived
            /\ \A n \in Names \ {t} : tpl'[n] = tpl[n]
        BY <1>0, <3>1, <4>2, Reigning DEF t
      <4>4. Settling'
        BY <2>1, <4>2, <4>3 DEF Settling, Chosen, Ready, Live
      <4>5. Hung'
        <5>1. Pictured(R.uses)'
          <6>1. Pictured(R.uses)
            BY <2>1, <3>0, <4>1 DEF Heeded
          <6>. QED  BY <1>1, <6>1 DEF Pictured
        <5>2. \A r \in revs : r.id = tpl'[t].cur => r = R
          BY <1>0, <4>1, <4>3 DEF Unique
        <5>. QED  BY <2>1, <2>2, <3>0, <4>3, <5>1, <5>2 DEF Hung, Live, Current
      <4>. QED  BY <2>2, <3>0, <4>4, <4>5 DEF Heeded
    <3>2. CASE tpl' = tpl
      <4>1. Settling' /\ Hung'
        BY <1>1, <2>1, <3>0, <3>2, SameTables
      <4>. QED  BY <2>2, <3>0, <4>1 DEF Heeded
    <3>. QED  BY <1>0, <2>4, <3>1, <3>2, MovedCall
  <2>5. CASE Drop(e)
    <3>1. tpl' = tpl /\ revs' \subseteq revs /\ call'[e].pc = "idle"
      BY <1>0, <2>5, DroppedCall DEF Idle
    <3>2. Settling'
      BY <2>1, <3>1 DEF Settling, Chosen, Ready, Live
    <3>3. Hung'
      BY <2>1, <2>2, <3>1 DEF Hung, Live, Current
    <3>. QED  BY <2>2, <3>1, <3>2, <3>3 DEF Heeded
  <2>. QED  BY <2>3, <2>4, <2>5 DEF Revising
<1>3. ASSUME ~crowded, ~cut PROVE \A d \in Users \ {e} : AtRest(d)
  BY <1>1, <1>3, OrderFacts
<1>. QED  BY <1>1, <1>2, <1>3, OrderlyBy

\* While e founds a template: what there is, and for the start-up what it makes.
LEMMA FoundingFacts ==
  ASSUME TemplatesInv, ~crowded, ~cut, NEW e \in Users, call[e].pc \in {"row", "first", "point"}
  PROVE  /\ Chosen \/ (/\ e = System /\ call[e].t = Seed
                       /\ call[e].pc = "row" => \A n \in Names : ~tpl[n].there
                       /\ call[e].pc # "row" => Live(Seed) /\ \A n \in Names : tpl[n].dflt <=> n = Seed)
         /\ Hung /\ Heeded(e)
         /\ \A s \in Slugs : asset[s].state = "live" => file[s] # NoOne
<1>1. ~AtRest(e)
  BY DEF AtRest
<1>2. /\ \A d \in Users \ {e} : AtRest(d)
      /\ Settling /\ Hung /\ Heeded(e)
      /\ \A s \in Slugs : asset[s].state = "live" => file[s] # NoOne
  BY <1>1, OrderFacts
<1>3. call[System].t = Seed
  BY DEF TemplatesInv, TemplatesShape
<1>. QED  BY <1>2, <1>3, Places DEF Settling, AtRest, At, Making

LEMMA FoundingOrderly == ASSUME TemplatesInv, NEW e \in Users, Founding(e), Solo' PROVE Orderly'
<1>. DEFINE t == call[e].t
<1>0. /\ TemplatesShape /\ Unique /\ Pointers /\ Caller(e) /\ t \in Names
      /\ (\A n \in Names : tpl[n].cur \in Nat) /\ \A r \in revs : r.id \in Nat /\ r.id # 0 /\ r.of \in Names
  BY Facts
<1>1. /\ UNCHANGED <<asset, file>> /\ Others(e) /\ crowded' = crowded /\ cut' = cut /\ ~AtRest(e)
      /\ call[e].pc \in {"row", "first", "point"}
  BY <1>0, PutCall, FirstCall, PointCall DEF Founding, media, ghosts, AtRest
<1>. HIDE DEF t
<1>2. ASSUME ~crowded, ~cut PROVE Settling' /\ Hung' /\ Filled' /\ Heeded(e)'
  <2>1. /\ Chosen \/ (/\ e = System /\ t = Seed
                      /\ call[e].pc = "row" => \A n \in Names : ~tpl[n].there
                      /\ call[e].pc # "row" => Live(Seed) /\ \A n \in Names : tpl[n].dflt <=> n = Seed)
        /\ Hung /\ Heeded(e)
        /\ \A s \in Slugs : asset[s].state = "live" => file[s] # NoOne
    BY <1>1, <1>2, FoundingFacts DEF t
  <2>2. Filled' /\ \A u : Pictured(u)' <=> Pictured(u)
    BY <1>1, <2>1 DEF Filled, Pictured
  <2>3. CASE PutRow(e) /\ tpl' = tpl /\ call'[e] = Idle /\ ~Vacant(e)
    <3>1. revs' = revs /\ call'[e].pc = "idle" /\ call[e].pc = "row"
      BY <1>0, <2>3, PutCall DEF Idle
    <3>2. Chosen
      BY <2>1, <2>3, <3>1 DEF Vacant
    <3>3. Settling' /\ Hung'
      BY <1>1, <2>1, <2>3, <3>1, <3>2, SameTables
    <3>. QED  BY <2>2, <3>1, <3>3 DEF Heeded
  <2>4. CASE PutRow(e) /\ ~(tpl' = tpl /\ call'[e] = Idle /\ ~Vacant(e))
    <3>1. /\ Vacant(e) /\ tpl' = Made(t, e = System) /\ revs' = revs
          /\ call'[e].pc = "first" /\ call'[e].t = t
          /\ call'[e].uses = call[e].uses /\ call[e].pc = "row"
      BY <1>0, <2>4, PutCall DEF t
    <3>2. /\ tpl'[t].cur = 0 /\ tpl'[t].there /\ tpl'[t].dflt = (e = System) /\ ~tpl'[t].archived
          /\ \A n \in Names \ {t} : tpl'[n] = tpl[n]
      BY <1>0, <3>1, MadeRow
    <3>3. ~tpl[t].there
      BY <1>0, <3>1 DEF Vacant, t
    <3>4. Hung'
      BY <1>0, <2>1, <2>2, <3>1, <3>2 DEF Hung, Live, Current
    <3>5. Heeded(e)'
      BY <1>1, <2>1, <3>1 DEF Heeded, Pictured
    <3>6. Settling'
      <4>1. CASE Chosen
        <5>1. PICK n \in Names : Ready(n) /\ \A m \in Names : tpl[m].dflt <=> m = n
          BY <4>1 DEF Chosen
        <5>2. n # t /\ e # System
          BY <3>1, <3>3, <5>1 DEF Ready, Live, Vacant
        <5>3. \A m \in Names : tpl'[m].dflt <=> m = n
          BY <3>2, <5>1, <5>2
        <5>. QED  BY <3>2, <5>1, <5>2, <5>3 DEF Settling, Chosen, Ready, Live
      <4>2. CASE ~Chosen
        <5>1. e = System /\ t = Seed /\ \A n \in Names : ~tpl[n].there
          BY <2>1, <3>1, <4>2
        <5>2. \A n \in Names : ~tpl[n].dflt
          BY <1>0, <5>1 DEF Pointers
        <5>. QED  BY <1>0, <3>1, <3>2, <5>1, <5>2 DEF Settling, Making, Live
      <4>. QED  BY <4>1, <4>2
    <3>. QED  BY <2>2, <3>4, <3>5, <3>6
  <2>5. CASE First(e)
    <3>1. /\ tpl' = tpl /\ call'[e].pc = "point" /\ call'[e].uses = call[e].uses /\ call[e].pc = "first"
          /\ revs' = revs \cup {Revision(lastRev + 1, call[e].t, 1, 0, call[e].uses)}
      BY <1>0, <2>5, FirstCall
    <3>2. Settling'
      BY <2>1, <3>1 DEF Settling, Chosen, Ready, Live, Making
    <3>3. Hung'
      <4>1. \A n \in Names : tpl[n].cur # lastRev + 1
        BY <1>0 DEF Pointers, TemplatesShape
      <4>2. \A r \in revs' : r \in revs \/ r.id = lastRev + 1
        BY <3>1 DEF Revision
      <4>. QED  BY <2>1, <2>2, <3>1, <4>1, <4>2 DEF Hung, Live, Current
    <3>4. Heeded(e)'
      BY <1>1, <2>1, <3>1 DEF Heeded, Pictured
    <3>. QED  BY <2>2, <3>2, <3>3, <3>4
  <2>6. CASE Point(e)
    <3>1. revs' = revs /\ call'[e].pc = "idle" /\ call[e].pc = "point" /\ Reign(t, call[e].rev)
      BY <1>0, <2>6, PointCall DEF Idle, t
    <3>2. PICK R \in revs : R.id = call[e].rev /\ R.of = t /\ R.uses = call[e].uses
      BY <3>1, InHand DEF Handing, t
    <3>3. call[e].rev \in Nat /\ call[e].rev # 0
      BY <1>0, <3>2
    <3>4. /\ tpl'[t].cur = call[e].rev /\ tpl'[t].there = tpl[t].there
          /\ tpl'[t].dflt = tpl[t].dflt /\ tpl'[t].archived = tpl[t].archived
          /\ \A n \in Names \ {t} : tpl'[n] = tpl[n]
      BY <1>0, <3>1, <3>3, Reigning
    <3>5. Settling'
      BY <1>0, <2>1, <3>1, <3>3, <3>4 DEF Settling, Chosen, Ready, Live
    <3>6. Hung'
      <4>1. Pictured(R.uses)'
        <5>1. Pictured(R.uses)
          BY <2>1, <3>1, <3>2 DEF Heeded
        <5>. QED  BY <1>1, <5>1 DEF Pictured
      <4>2. \A r \in revs : r.id = tpl'[t].cur => r = R
        BY <1>0, <3>2, <3>4 DEF Unique
      <4>. QED  BY <2>1, <2>2, <3>1, <3>4, <4>1, <4>2 DEF Hung, Live, Current
    <3>. QED  BY <2>2, <3>1, <3>5, <3>6 DEF Heeded
  <2>. QED  BY <2>3, <2>4, <2>5, <2>6 DEF Founding
<1>3. ASSUME ~crowded, ~cut PROVE \A d \in Users \ {e} : AtRest(d)
  BY <1>1, <1>3, OrderFacts
<1>. QED  BY <1>1, <1>2, <1>3, OrderlyBy

\* Nothing of value is lost when the service goes down between requests.
LEMMA CrashOrderly == ASSUME TemplatesInv, Crash, Solo' PROVE Orderly'
<1>0. TemplatesShape
  BY DEF TemplatesInv
<1>1. /\ UNCHANGED <<tpl, revs, asset, file>> /\ crowded' = crowded
      /\ call'[System] = [Idle EXCEPT !.pc = "row"]
      /\ \A e \in Editors : call'[e] = IF Busy(e) THEN Idle ELSE call[e]
      /\ ~cut' => ~cut /\ \A e \in Users : ~Busy(e)
  BY <1>0, CrashCall DEF tables, media
<1>. SUFFICES ASSUME ~crowded', ~cut' PROVE Settling' /\ Hung' /\ Filled' /\ \A e \in Users : Heeded(e)'
  BY DEF Orderly
<1>2. \A e \in Users : AtRest(e)
  BY <1>1 DEF AtRest, Busy
<1>3. /\ Chosen /\ Hung
      /\ \A s \in Slugs : asset[s].state = "live" => file[s] # NoOne
  BY <1>1, <1>2, RestFacts
<1>4. ASSUME NEW e \in Users PROVE Heeded(e)'
  <2>1. CASE e = System
    <3>1. call'[e].pc = "row" /\ call'[e].uses = NoOne
      BY <1>1, <2>1 DEF Idle
    <3>. QED  BY <3>1 DEF Heeded, Pictured
  <2>2. CASE e \in Editors
    <3>1. call'[e].pc \in {"idle", "open"}
      BY <1>1, <2>2 DEF Busy, Idle
    <3>. QED  BY <3>1 DEF Heeded
  <2>. QED  BY <2>1, <2>2 DEF Users
<1>. QED  BY <1>1, <1>3, <1>4, SameTables

LEMMA OrderlyStep == TemplatesInv /\ [TemplatesNext]_templateVars => Orderly'
<1>. SUFFICES ASSUME TemplatesInv, [TemplatesNext]_templateVars PROVE Orderly'
  OBVIOUS
<1>0. Solo'
  BY SoloStep
<1>1. CASE UNCHANGED templateVars
  <2>1. UNCHANGED <<tpl, revs, asset, file, call, crowded, cut>>
    BY <1>1 DEF templateVars, tables, media, ghosts
  <2>2. (Settling => Settling') /\ (Hung => Hung') /\ (Filled => Filled')
    BY <2>1 DEF Settling, Chosen, Ready, Live, At, Hung, Current, Pictured, Filled
  <2>3. \A e \in Users : Heeded(e) => Heeded(e)'
    BY <2>1 DEF Heeded, Ready, Live, Pictured, Unshown, Current
  <2>. QED  BY <1>0, <2>1, <2>2, <2>3 DEF TemplatesInv, Orderly
<1>2. CASE Crash
  BY <1>0, <1>2, CrashOrderly
<1>3. ASSUME NEW e \in Editors, Starts(e) PROVE Orderly'
  BY <1>0, <1>3, AskingOrderly
<1>4. ASSUME NEW e \in Users, Looking(e) \/ Shelved(e) \/ Defaulting(e) \/ Revising(e) \/ Founding(e) PROVE Orderly'
  BY <1>0, <1>4, LookingOrderly, ShelvedOrderly, DefaultedOrderly, RevisingOrderly, FoundingOrderly
<1>. QED  BY <1>1, <1>2, <1>3, <1>4, Kinds

\* First use: nothing but a start-up about to seed.
LEMMA InitFirst ==
  ASSUME tpl = [t \in Names |-> Absent], revs = {}, lastRev = 0,
         asset = [s \in Slugs |-> [state |-> "free", by |-> NoOne]],
         call = [e \in Users |-> IF e = System THEN [Idle EXCEPT !.pc = "row"] ELSE Idle],
         file = [s \in Slugs |-> asset[s].by], scheduled = {},
         reigned = 1 .. lastRev, crowded = FALSE, cut = FALSE
  PROVE  TemplatesInv
<1>1. /\ \A t \in Names : tpl[t] = Absent
      /\ \A s \in Slugs : asset[s].state = "free" /\ asset[s].by = NoOne /\ file[s] = NoOne
      /\ \A e \in Users : /\ call[e].pc = IF e = System THEN "row" ELSE "idle"
                          /\ call[e].t = Seed /\ call[e].was = 0 /\ call[e].uses = NoOne
      /\ revs = {} /\ reigned = {} /\ IsFiniteSet(revs) /\ System \in Users
  <2>1. IsFiniteSet(revs) /\ reigned = {}
    BY FS_EmptySet
  <2>. QED  BY <2>1, Places DEF Idle
<1>2. TemplatesShape
  <2>1. tpl \in [Names -> TplRow]
    BY DEF TplRow, Absent
  <2>2. call \in [Users -> CallRow]
    <3>1. Idle \in CallRow /\ [Idle EXCEPT !.pc = "row"] \in CallRow
      BY Places DEF Idle, CallRow
    <3>. QED  BY <3>1
  <2>3. asset \in [Slugs -> [state : {"free", "live", "deleted"}, by : Users \cup {NoOne}]]
    OBVIOUS
  <2>4. file \in [Slugs -> Users \cup {NoOne}]
    BY <1>1
  <2>. QED  BY <1>1, <2>1, <2>2, <2>3, <2>4 DEF TemplatesShape
<1>3. Books
  <2>1. Pointers
    BY <1>1 DEF Pointers, RevsOf, Absent
  <2>2. Requests
    BY <1>1 DEF Requests, Caller, Basing, Handing, Making
  <2>3. Apart /\ Accounted
    BY <1>1 DEF Apart, Accounted, Handing, Making, Basing, Absent
  <2>. QED  BY <1>1, <2>1, <2>2, <2>3 DEF Books, Ranged, Unique, NoLostEdit
<1>4. Shelves
  BY <1>1 DEF Shelves, Shelving
<1>5. Orderly
  <2>1. Solo
    BY <1>1 DEF Solo, Busy
  <2>2. Settling
    BY <1>1 DEF Settling, At, Absent
  <2>3. Hung /\ Filled
    BY <1>1 DEF Hung, Filled, Live, Absent
  <2>4. \A e \in Users : Heeded(e)
    BY <1>1 DEF Heeded, Pictured
  <2>. QED  BY <2>1, <2>2, <2>3, <2>4 DEF Orderly
<1>. QED  BY <1>2, <1>3, <1>4, <1>5 DEF TemplatesInv

\* A service that has run for a while: two templates, one of them with an image.
LEMMA InitLater ==
  ASSUME NEW t \in Names \ {Seed}, NEW s \in Slugs, NEW d \in {Seed, t},
         tpl = [n \in Names |-> IF n \notin {Seed, t} THEN Absent
                  ELSE [there |-> TRUE, cur |-> IF n = Seed THEN 1 ELSE 2, dflt |-> n = d,
                        archived |-> FALSE]],
         revs = {Revision(1, Seed, 1, 0, NoOne), Revision(2, t, 1, 0, s)}, lastRev = 2,
         asset = [n \in Slugs |-> IF n = s THEN [state |-> "live", by |-> System]
                                           ELSE [state |-> "free", by |-> NoOne]],
         call = [e \in Users |-> Idle],
         file = [n \in Slugs |-> asset[n].by], scheduled = {},
         reigned = 1 .. lastRev, crowded = FALSE, cut = FALSE
  PROVE  TemplatesInv
<1>. DEFINE one == Revision(1, Seed, 1, 0, NoOne)
            two == Revision(2, t, 1, 0, s)
<1>0. /\ Seed \in Names /\ System \in Users /\ System # NoOne /\ s # NoOne
  BY Places, MotdTemplatesAssumption
<1>1. /\ one \in RevRow /\ one.id = 1 /\ one.of = Seed /\ one.no = 1 /\ one.base = 0 /\ one.uses = NoOne
      /\ two \in RevRow /\ two.id = 2 /\ two.of = t /\ two.no = 1 /\ two.base = 0 /\ two.uses = s
  BY <1>0 DEF Revision, RevRow
<1>2. revs = {one, two}
  OBVIOUS
<1>3. /\ \A n \in Names \ {Seed, t} : tpl[n] = Absent
      /\ \A n \in {Seed, t} : tpl[n].there /\ ~tpl[n].archived /\ (tpl[n].dflt <=> n = d)
      /\ tpl[Seed].cur = 1 /\ tpl[t].cur = 2 /\ d \in Names
  BY <1>0
<1>4. /\ \A n \in Slugs \ {s} : asset[n].state = "free" /\ asset[n].by = NoOne /\ file[n] = NoOne
      /\ asset[s].state = "live" /\ asset[s].by = System /\ file[s] = System
  OBVIOUS
<1>5. \A e \in Users : call[e].pc = "idle" /\ call[e].t = Seed /\ call[e].uses = NoOne
  BY DEF Idle
<1>6. 1 \in reigned /\ 2 \in reigned /\ \A i \in reigned : i = 1 \/ i = 2
  OBVIOUS
<1>7. TemplatesShape
  <2>1. tpl \in [Names -> TplRow]
    BY DEF TplRow, Absent
  <2>2. call \in [Users -> CallRow]
    BY Places
  <2>3. asset \in [Slugs -> [state : {"free", "live", "deleted"}, by : Users \cup {NoOne}]]
    BY <1>0
  <2>4. file \in [Slugs -> Users \cup {NoOne}]
    BY <1>0, <1>4
  <2>5. IsFiniteSet(revs)
    <3>1. IsFiniteSet({one}) /\ revs = {one} \cup {two}
      BY FS_Singleton
    <3>. HIDE DEF one, two
    <3>. QED  BY <3>1, FS_AddElement
  <2>. QED  BY <1>0, <1>1, <1>2, <1>5, <2>1, <2>2, <2>3, <2>4, <2>5 DEF TemplatesShape
<1>. HIDE DEF one, two
<1>8. /\ \A r \in revs : r = one \/ r = two
      /\ one \in revs /\ two \in revs /\ Seed # t
  BY <1>2
<1>9. Books
  <2>1. Ranged /\ Unique /\ NoLostEdit
    BY <1>1, <1>8 DEF Ranged, Unique, NoLostEdit
  <2>2. Pointers
    <3>1. \A n \in Names : ~tpl[n].there => RevsOf(n) = {} /\ tpl[n].cur = 0 /\ ~tpl[n].dflt
      BY <1>1, <1>3, <1>8 DEF RevsOf, Absent
    <3>2. \A n \in Names : tpl[n].cur # 0 => tpl[n].cur \in reigned /\ RevisionOf(tpl[n].cur, n)
      BY <1>1, <1>3, <1>6, <1>8 DEF RevisionOf, Absent
    <3>3. reigned \subseteq {r.id : r \in revs}
      BY <1>1, <1>6, <1>8
    <3>4. \A r \in revs : r.id \in reigned => r.id <= tpl[r.of].cur
      BY <1>1, <1>3, <1>8
    <3>5. \A r, q \in revs : r.no <= q.no
      BY <1>1, <1>8
    <3>. QED  BY <3>1, <3>2, <3>3, <3>4, <3>5 DEF Pointers
  <2>3. Requests /\ Apart
    BY <1>5 DEF Requests, Caller, Apart, Basing, Handing, Making
  <2>4. Accounted
    BY <1>1, <1>3, <1>6, <1>8 DEF Accounted, Absent
  <2>. QED  BY <2>1, <2>2, <2>3, <2>4 DEF Books
<1>10. Shelves
  BY <1>4, <1>5 DEF Shelves, Shelving
<1>11. Orderly
  <2>1. Solo
    BY <1>5 DEF Solo, Busy
  <2>2. Settling
    <3>1. Ready(d)
      BY <1>3 DEF Ready, Live
    <3>2. \A n \in Names : tpl[n].dflt <=> n = d
      BY <1>3 DEF Absent
    <3>. QED  BY <1>3, <3>1, <3>2 DEF Settling, Chosen
  <2>3. Hung
    BY <1>0, <1>1, <1>4, <1>8 DEF Hung, Current, Pictured
  <2>4. Filled
    BY <1>0, <1>4 DEF Filled
  <2>5. \A e \in Users : Heeded(e)
    BY <1>5 DEF Heeded
  <2>. QED  BY <2>1, <2>2, <2>3, <2>4, <2>5 DEF Orderly
<1>. QED  BY <1>7, <1>9, <1>10, <1>11 DEF TemplatesInv

LEMMA InitTemplates == TemplatesInit => TemplatesInv
<1>. SUFFICES ASSUME TemplatesInit PROVE TemplatesInv
  OBVIOUS
<1>0. /\ file = [s \in Slugs |-> asset[s].by] /\ scheduled = {}
      /\ reigned = 1 .. lastRev /\ crowded = FALSE /\ cut = FALSE
  BY DEF TemplatesInit
<1>1. CASE /\ tpl = [t \in Names |-> Absent] /\ revs = {} /\ lastRev = 0
           /\ asset = [s \in Slugs |-> [state |-> "free", by |-> NoOne]]
           /\ call = [e \in Users |-> IF e = System THEN [Idle EXCEPT !.pc = "row"] ELSE Idle]
  BY <1>0, <1>1, InitFirst
<1>2. ASSUME NEW t \in Names \ {Seed}, NEW s \in Slugs, NEW d \in {Seed, t},
             /\ tpl = [n \in Names |-> IF n \notin {Seed, t} THEN Absent
                         ELSE [there |-> TRUE, cur |-> IF n = Seed THEN 1 ELSE 2, dflt |-> n = d,
                               archived |-> FALSE]]
             /\ revs = {Revision(1, Seed, 1, 0, NoOne), Revision(2, t, 1, 0, s)} /\ lastRev = 2
             /\ asset = [n \in Slugs |-> IF n = s THEN [state |-> "live", by |-> System]
                                                  ELSE [state |-> "free", by |-> NoOne]]
             /\ call = [e \in Users |-> Idle]
      PROVE  TemplatesInv
  BY <1>0, <1>2, InitLater, ZenonT(30)
<1>. QED  BY <1>1, <1>2 DEF TemplatesInit

LEMMA TemplatesStep == TemplatesInv /\ [TemplatesNext]_templateVars => TemplatesInv'
BY TemplatesShapeStep, BooksStep, ShelvesStep, OrderlyStep DEF TemplatesInv

\* What the invariant says of the revisions and their pointers.
LEMMA RevisionsAreTrue == ASSUME TemplatesInv PROVE RevisionsTrue
<1>0. /\ Pointers /\ Accounted
      /\ \A r \in revs : r.of \in Names /\ r.no \in Nat
      /\ \A e \in Users : call[e].pc \in Handing => \E r \in revs : r.id = call[e].rev /\ r.of = call[e].t
      /\ Unique
  BY Facts DEF Caller
<1>1. reigned \subseteq {r.id : r \in revs}
  BY <1>0 DEF Pointers
<1>2. ASSUME NEW t \in Names, ~cut, NEW r \in RevsOf(t), NEW q \in Current(t),
             \A e \in Users : At(e, "open") \/ call[e].t # t \/ call[e].pc \notin Saving
      PROVE  r.no <= q.no
  <2>1. r \in revs /\ r.of = t /\ q \in revs /\ q.id = tpl[t].cur
    BY DEF RevsOf, Current
  <2>2. tpl[t].cur # 0 /\ q.of = t
    <3>1. tpl[t].cur # 0
      BY <2>1, Facts
    <3>. QED  BY <1>0, <2>1, <3>1 DEF Pointers, RevisionOf, Unique
  <2>3. r.id \in reigned
    <3>1. ASSUME NEW e \in Users, call[e].pc \in Handing, call[e].rev = r.id PROVE FALSE
      <4>1. call[e].t = t
        BY <1>0, <2>1, <3>1 DEF Unique
      <4>. QED  BY <1>2, <3>1, <4>1 DEF Handing, Saving, At
    <3>. QED  BY <1>0, <1>2, <2>1, <3>1 DEF Accounted
  <2>. QED  BY <1>0, <2>1, <2>2, <2>3 DEF Pointers
<1>. QED  BY <1>1, <1>2 DEF RevisionsTrue

\* ... and of the default, the images and their files.
LEMMA DefaultIsKept == ASSUME TemplatesInv PROVE DefaultKept
<1>. SUFFICES ASSUME ~crowded, ~cut, \A e \in Users : call[e].pc \notin {"set", "row", "first", "point"}
              PROVE  \E t \in Names : /\ Live(t) /\ Current(t) # {}
                                      /\ \A n \in Names : tpl[n].dflt <=> n = t
  BY DEF DefaultKept
<1>1. Chosen
  BY Places DEF TemplatesInv, Orderly, Settling, At, Making
<1>2. PICK t \in Names : Ready(t) /\ \A n \in Names : tpl[n].dflt <=> n = t
  BY <1>1 DEF Chosen
<1>3. Current(t) # {}
  BY <1>2, Facts DEF Pointers, RevisionOf, Ready, Current
<1>. QED  BY <1>2, <1>3 DEF Ready

LEMMA TemplatesAreTyped == ASSUME TemplatesInv PROVE TemplatesType
<1>0. TemplatesShape /\ Ranged /\ Unique /\ Pointers
  BY Facts
<1>1. \A t \in Names : tpl[t].cur \in 0 .. lastRev
  BY <1>0 DEF Pointers, TemplatesShape, TplRow
<1>2. tpl \in [Names -> [there : BOOLEAN, cur : 0 .. lastRev, dflt : BOOLEAN, archived : BOOLEAN]]
  BY <1>0, <1>1 DEF TemplatesShape, TplRow
<1>3. \A r \in revs : r.base \in 0 .. lastRev
  BY <1>0 DEF Ranged, TemplatesShape, RevRow
<1>4. revs \subseteq [id : 1 .. lastRev, of : Names, no : Nat, base : 0 .. lastRev, uses : Slugs \cup {NoOne}]
  BY <1>0, <1>3 DEF Ranged, TemplatesShape, RevRow
<1>5. \A e \in Users : call[e].pc \in Labels
  BY <1>0 DEF TemplatesShape, CallRow
<1>. QED  BY <1>0, <1>2, <1>4, <1>5 DEF TemplatesType, TemplatesShape, Unique

\* catalog/db/_motd_templates.py, routes/admin_motd_templates.py and
\* routes/admin_media.py, however the statements of the requests of any number
\* of admins and the restarts of the service interleave: two saves that started
\* from the same revision do not both win, the history keeps what was shown, a
\* slug's URL serves its owner's upload or nothing; and as long as requests come
\* one at a time and none is cut short, one template that can be shown is the
\* default and every image a live template shows is there.
THEOREM TemplatesSafeCorrect == TemplatesSpec => []TemplatesSafe
<1>1. TemplatesInv => TemplatesSafe
  <2>. SUFFICES ASSUME TemplatesInv PROVE TemplatesSafe
    OBVIOUS
  <2>1. NoLostEdit /\ Shelves /\ Orderly
    BY Facts DEF TemplatesInv
  <2>2. UrlStable
    BY <2>1, Places DEF UrlStable, Shelves, At
  <2>3. MediaKept
    BY <2>1 DEF MediaKept, Orderly, Hung, Pictured
  <2>. QED  BY <2>1, <2>2, <2>3, TemplatesAreTyped, RevisionsAreTrue, DefaultIsKept DEF TemplatesSafe
<1>. QED  BY <1>1, InitTemplates, TemplatesStep, PTL DEF TemplatesSpec
-----------------------------------------------------------------------------
(***************************************************************************)
(* The timers.  The parts of the inductive invariant:                      *)
(*                                                                         *)
(* InTime: no task is older than Longest.                                  *)
(*                                                                         *)
(* Past: what has occurred lies before every fire that is under way or     *)
(* armed, but for a schedule that is late.                                 *)
(*                                                                         *)
(* Near: a job that is not armed for its row's time is about to be armed   *)
(* again by an edit younger than Longest; so a fire finds the time of its  *)
(* row at most that far behind, and writes a later one.                    *)
(*                                                                         *)
(* Armed: but for the edit that is rearming it, a row with a time to come  *)
(* has a job for it, and so has one that is on, neither late nor missed,   *)
(* and whose rule has an occurrence to come.                               *)
(*                                                                         *)
(* Rewritten: a fire writes a time little less than a period after its own,*)
(* so one that is still to come.                                           *)
(*                                                                         *)
(* Calm: while no admin has interfered, every time agrees, and no job      *)
(* falls in the time a purchase that was let in may take.                  *)
(***************************************************************************)
Rowed == Firing \cup {"fire", "put", "rearm", "advance", "delete"}
AnyRow == SchedRow \cup {NoRow, Deleted}
TaskRow == [pc : TaskLabels, at : Ids \cup {Nobody}, since : Nat, next : Nat]

Labelled ==
  /\ \A i \in Ids : /\ task[i].pc \in Firing \cup {"idle", "fire", "reread", "write"}
                    /\ task[i].pc # "idle" => task[i].at = i
  /\ \A e \in Edits : /\ task[e].pc \in Rowed \cup {"idle", "unlock", "done"}
                      /\ task[e].pc \in Rowed => task[e].at \in Ids
  /\ task[Buyer].pc \in {"idle", "asked", "buying", "done"}

Serviced ==
  /\ up # "up" => \A p \in Edits \cup {Buyer} : ~TaskBusy(p)
  /\ up = "down" => \A i \in Ids : ~TaskBusy(i) /\ timer[i] = None
  /\ up # "loading" => loading = {}
  /\ \A i \in loading : rows[i].active /\ ~TaskBusy(i) /\ timer[i] = None

SchedulesShape == SchedulesType /\ Labelled /\ Serviced

InTime ==
  \A p \in Tasks \cup {Buyer} : TaskBusy(p) => task[p].since <= now /\ now <= task[p].since + Longest

PastOf(i) ==
  /\ rows[i] = NoRow => timer[i] = None /\ ~TaskBusy(i) /\ occurred[i] = {}
  /\ timer[i] # None /\ TaskBusy(i) => task[i].since < timer[i]
  /\ \A o \in occurred[i] :
       /\ o <= now /\ (timer[i] # None /\ i \notin late => o < timer[i])
       /\ TaskBusy(i) => o <= task[i].since
       /\ task[i].pc \in {"fire", "list", "clear", "load"} /\ i \notin late => o < task[i].since

Past ==
  /\ \A e \in Edits : task[e].pc \in Rowed => rows[task[e].at] # NoRow
  /\ \A i \in Ids : PastOf(i)

Rearming(e, i) == In(e, "rearm") /\ task[e].at = i
Editing(e, i) == task[e].pc \in {"rearm", "advance", "delete"} /\ task[e].at = i

NearOf(i) ==
  Exists(rows[i]) /\ i \notin late =>
    /\ timer[i] # None /\ rows[i].fireAt < timer[i] =>
         \E e \in Edits : Rearming(e, i) /\ task[e].since < rows[i].fireAt
    /\ TaskBusy(i) => task[i].since < rows[i].fireAt + Longest

Near == \A i \in Ids : NearOf(i)

Rewritten ==
  \A i \in Ids : In(i, "write") /\ i \notin late => task[i].next + Longest > task[i].since + Period

Ample == Longest + Longest < Period

Edited(i) == \E e \in Edits : Editing(e, i)

ArmedOf(i) ==
  /\ i \notin loading /\ up # "down" /\ rows[i].active /\ ~Edited(i) =>
       /\ rows[i].fireAt > now => timer[i] = rows[i].fireAt
       /\ Ample /\ i \notin late \cup missed /\ Comes(rows[i], now) /\ ~TaskBusy(i) => timer[i] # None
  /\ Ample /\ timer[i] # None /\ i \notin late => timer[i] >= now

Armed == \A i \in Ids : ArmedOf(i)

Bought == paid # "none" => In(Buyer, "done")

CalmOf(i) ==
  /\ Exists(rows[i]) => rows[i].active /\ ~rows[i].lockOff
  /\ timer[i] # None => timer[i] = rows[i].fireAt
  /\ TaskBusy(i) => Exists(rows[i]) /\ rows[i].fireAt = task[i].since
  /\ In(i, "write") => task[i].next = task[i].since + Period
  /\ TaskBusy(Buyer) /\ timer[i] # None =>
       timer[i] <= task[Buyer].since \/ timer[i] > task[Buyer].since + Longest
  /\ TaskBusy(Buyer) /\ TaskBusy(i) => task[i].since <= task[Buyer].since
  /\ paid = "on" /\ In(i, "clear") => task[i].since <= task[Buyer].since

Quiet == Ample /\ Longest <= PreFire /\ quiet

Calm ==
  Quiet => /\ paid # "lost_early" /\ late = {}
           /\ \A e \in Edits : In(e, "idle")
           /\ \A i \in Ids : CalmOf(i)

SchedulesInv == SchedulesShape /\ InTime /\ Past /\ Near /\ Rewritten /\ Armed /\ Bought /\ Calm

LEMMA DivMore ==
  ASSUME NEW a \in Nat, NEW b \in Nat, b > 0
  PROVE  a \div b \in Nat /\ b * (a \div b + 1) > a
<1>1. a \div b \in Nat
  BY SMTT(30)
<1>2. a % b \in 0 .. b - 1 /\ a = b * (a \div b) + (a % b)
  BY SMTT(30)
<1>3. PICK q \in Nat : q = a \div b
  BY <1>1
<1>4. b * (q + 1) = b * q + b
  BY SMTT(30)
<1>. QED  BY <1>2, <1>3, <1>4

LEMMA TimesMonotone ==
  ASSUME NEW p \in Nat, NEW m \in Nat, NEW n \in Nat, m <= n
  PROVE  p * (m + 1) <= p * (n + 1)
<1>1. PICK d \in Nat : n = m + d
  BY SMTT(30)
<1>2. p * (n + 1) = p * (m + 1) + p * d /\ p * d \in Nat /\ p * (m + 1) \in Nat
  BY <1>1, SMTT(30)
<1>. QED  BY <1>2

LEMMA DivMonotone ==
  ASSUME NEW p \in Nat, p > 0, NEW x \in Nat, NEW y \in Nat, x <= y
  PROVE  x \div p \in Nat /\ y \div p \in Nat /\ x \div p <= y \div p
<1>1. PICK m \in Nat, n \in Nat : m = x \div p /\ n = y \div p
  BY DivMore
<1>2. p * m <= x
  <2>1. x % p \in 0 .. p - 1 /\ x = p * (x \div p) + (x % p)
    BY SMTT(30)
  <2>. QED  BY <1>1, <2>1
<1>3. p * (n + 1) > y
  BY <1>1, DivMore
<1>4. ASSUME n < m PROVE FALSE
  <2>1. n + 1 <= m /\ m - 1 \in Nat /\ n <= m - 1
    BY <1>4
  <2>2. p * (n + 1) <= p * ((m - 1) + 1)
    BY <2>1, TimesMonotone
  <2>3. (m - 1) + 1 = m
    BY <2>1
  <2>4. p * (n + 1) <= p * m
    BY <2>2, <2>3
  <2>5. PICK u \in Nat, v \in Nat : u = p * (n + 1) /\ v = p * m
    BY SMTT(30)
  <2>. QED  BY <1>2, <1>3, <2>4, <2>5
<1>. QED  BY <1>1, <1>4

\* The next occurrence is one to come.
LEMMA NextLater ==
  ASSUME NEW t \in Nat, NEW after \in Nat
  PROVE  /\ NextAfter(t, after) \in Nat /\ NextAfter(t, after) > after
         /\ t > after => NextAfter(t, after) = t
         /\ NextAfter(t, t) = t + Period
<1>1. Period \in Nat /\ Period > 0
  BY SchedulesAssumption
<1>2. NextAfter(t, t) = t + Period
  <2>1. (t - t) \div Period = 0
    <3>1. t - t = 0
      OBVIOUS
    <3>2. 0 \div Period = 0
      BY <1>1
    <3>. QED  BY <3>1, <3>2
  <2>2. NextAfter(t, t) = t + Period * (0 + 1)
    BY <2>1 DEF NextAfter
  <2>. QED  BY <1>1, <2>2
<1>3. CASE t > after
  BY <1>2, <1>3 DEF NextAfter
<1>4. CASE t <= after
  <2>1. PICK a \in Nat : a = after - t
    BY <1>4
  <2>2. PICK q \in Nat : q = a \div Period /\ Period * (q + 1) > a
    BY <1>1, DivMore
  <2>3. PICK m \in Nat : m = Period * (q + 1)
    BY <1>1
  <2>4. NextAfter(t, after) = t + m
    BY <1>4, <2>1, <2>2, <2>3 DEF NextAfter
  <2>. QED  BY <1>2, <1>4, <2>1, <2>2, <2>3, <2>4
<1>. QED  BY <1>3, <1>4

\* Seen later, the next occurrence is no earlier.
LEMMA NextMonotone ==
  ASSUME NEW t \in Nat, NEW a \in Nat, NEW b \in Nat, a <= b
  PROVE  NextAfter(t, a) <= NextAfter(t, b)
<1>1. Period \in Nat /\ Period > 0
  BY SchedulesAssumption
<1>2. CASE t > a
  <2>1. NextAfter(t, a) = t /\ NextAfter(t, b) \in Nat /\ NextAfter(t, b) > b /\ (t > b => NextAfter(t, b) = t)
    BY <1>2, NextLater
  <2>. QED  BY <2>1
<1>3. CASE t <= a
  <2>1. PICK x \in Nat, y \in Nat : x = a - t /\ y = b - t /\ x <= y
    BY <1>3
  <2>2. PICK m \in Nat, n \in Nat : m = x \div Period /\ n = y \div Period /\ m <= n
    BY <1>1, <2>1, DivMonotone
  <2>3. Period * (m + 1) <= Period * (n + 1)
    BY <1>1, <2>2, TimesMonotone
  <2>4. PICK u \in Nat, v \in Nat : u = Period * (m + 1) /\ v = Period * (n + 1) /\ u <= v
    BY <1>1, <2>3
  <2>5. NextAfter(t, a) = t + u /\ NextAfter(t, b) = t + v
    BY <1>3, <2>1, <2>2, <2>4 DEF NextAfter
  <2>. QED  BY <2>4, <2>5
<1>. QED  BY <1>2, <1>3

\* A rule that gives an occurrence after a time gave one before.
LEMMA ComesBefore ==
  ASSUME NEW r, r.fireAt \in Nat, NEW a \in Nat, NEW b \in Nat, a <= b, Comes(r, b)
  PROVE  Comes(r, a)
<1>1. PICK m \in Nat, n \in Nat : m = NextAfter(r.fireAt, a) /\ n = NextAfter(r.fireAt, b) /\ m <= n
  <2>1. NextAfter(r.fireAt, a) \in Nat /\ NextAfter(r.fireAt, b) \in Nat
    BY NextLater
  <2>2. NextAfter(r.fireAt, a) <= NextAfter(r.fireAt, b)
    BY NextMonotone
  <2>. QED  BY <2>1, <2>2
<1>2. Reaches(r, n)
  BY <1>1 DEF Comes
<1>3. Until \in Nat /\ Span \in Nat
  BY SchedulesAssumption
<1>4. Reaches(r, m)
  BY <1>1, <1>2, <1>3 DEF Reaches
<1>. QED  BY <1>1, <1>4 DEF Comes

Everyone == Tasks \cup {Buyer}

LEMMA People ==
  /\ Ids \cap Edits = {} /\ Buyer \notin Tasks /\ Nobody \notin Tasks
  /\ Ids \subseteq Tasks /\ Edits \subseteq Tasks /\ Tasks \subseteq Everyone /\ Buyer \in Everyone
  /\ Period \in Nat /\ PreFire \in Nat /\ Longest \in Nat /\ MaxTime \in Nat
  /\ Rules \subseteq RuleKinds /\ Horizon \in Nat
  /\ 0 < Longest /\ Longest < Period /\ None \notin Nat /\ None = -1
BY SchedulesAssumption DEF Tasks, Everyone, None

\* What the types say of one row, one timer, one task.
LEMMA Typed ==
  ASSUME SchedulesShape
  PROVE  /\ now \in Nat /\ task \in [Everyone -> TaskRow]
         /\ rows \in [Ids -> AnyRow] /\ timer \in [Ids -> Nat \cup {None}]
         /\ \A i \in Ids : /\ rows[i].fireAt \in Nat \cup {None} /\ rows[i].active \in BOOLEAN
                           /\ Exists(rows[i]) <=> rows[i].fireAt \in Nat
                           /\ ~Exists(rows[i]) => ~rows[i].active
                           /\ Exists(rows[i]) => rows[i] \in SchedRow
                           /\ rows[i] = NoRow => ~Exists(rows[i])
                           /\ timer[i] \in Nat \cup {None}
         /\ \A p \in Everyone : /\ task[p].pc \in TaskLabels /\ task[p].at \in Ids \cup {Nobody}
                                /\ task[p].since \in Nat /\ task[p].next \in Nat
<1>1. now \in Nat /\ task \in [Everyone -> TaskRow] /\ rows \in [Ids -> AnyRow] /\ timer \in [Ids -> Nat \cup {None}]
  BY People DEF SchedulesShape, SchedulesType, TaskRow, AnyRow, Everyone
<1>2. ASSUME NEW r \in AnyRow
      PROVE  /\ r.fireAt \in Nat \cup {None} /\ r.active \in BOOLEAN
             /\ Exists(r) <=> r.fireAt \in Nat
             /\ ~Exists(r) => ~r.active
             /\ Exists(r) => r \in SchedRow
             /\ r = NoRow => ~Exists(r)
  <2>1. CASE r \in SchedRow
    BY <2>1, People DEF NoRow, Exists, SchedRow
  <2>2. CASE r \in {NoRow, Deleted}
    <3>1. r.fireAt = None /\ r.active = FALSE
      BY <2>2 DEF NoRow, Deleted
    <3>. QED  BY <3>1, People DEF Exists
  <2>. QED  BY <2>1, <2>2 DEF AnyRow
<1>3. \A p \in Everyone : /\ task[p].pc \in TaskLabels /\ task[p].at \in Ids \cup {Nobody}
                          /\ task[p].since \in Nat /\ task[p].next \in Nat
  BY <1>1 DEF TaskRow
<1>. QED  BY <1>1, <1>2, <1>3

Alone(p) == \A q \in Everyone \ {p} : task'[q] = task[q]

LEMMA Gone ==
  ASSUME SchedulesShape, NEW p \in Everyone, NEW label \in TaskLabels, TaskGoto(p, label)
  PROVE  /\ task' \in [Everyone -> TaskRow] /\ Alone(p) /\ task'[p].pc = label
         /\ task'[p].at = task[p].at /\ task'[p].since = task[p].since /\ task'[p].next = task[p].next
<1>1. task \in [Everyone -> TaskRow]
  BY Typed
<1>. QED  BY <1>1 DEF TaskGoto, Alone, TaskRow

LEMMA Restful ==
  /\ IdleTask \in TaskRow /\ Done \in TaskRow /\ IdleTask.pc = "idle" /\ Done.pc = "done"
  /\ "fire" \in TaskLabels /\ Firing \subseteq TaskLabels
BY DEF IdleTask, Done, TaskRow, TaskLabels, Firing

LEMMA Finished ==
  ASSUME SchedulesShape, NEW p \in Everyone, EndTask(p)
  PROVE  /\ task' \in [Everyone -> TaskRow] /\ Alone(p)
         /\ task'[p].pc = IF p \in Ids THEN "idle" ELSE "done"
<1>1. task \in [Everyone -> TaskRow]
  BY Typed
<1>. QED  BY <1>1, Restful DEF EndTask, Alone

LEMMA Begun ==
  ASSUME SchedulesShape, NEW p \in Everyone, NEW label \in TaskLabels, NEW i \in Ids \cup {Nobody},
         task' = [task EXCEPT ![p] = TaskAt(label, i)]
  PROVE  /\ task' \in [Everyone -> TaskRow] /\ Alone(p)
         /\ task'[p].pc = label /\ task'[p].at = i /\ task'[p].since = now
<1>1. task \in [Everyone -> TaskRow] /\ TaskAt(label, i) \in TaskRow
  BY Typed DEF TaskAt, TaskRow
<1>. QED  BY <1>1 DEF Alone, TaskAt

LEMMA Timed ==
  ASSUME SchedulesShape, NEW p \in Everyone, NEW label \in TaskLabels, NEW n \in Nat,
         task' = [task EXCEPT ![p] = [task[p] EXCEPT !.pc = label, !.next = n]]
  PROVE  /\ task' \in [Everyone -> TaskRow] /\ Alone(p)
         /\ task'[p].pc = label /\ task'[p].next = n
         /\ task'[p].at = task[p].at /\ task'[p].since = task[p].since
<1>. DEFINE c == [task[p] EXCEPT !.pc = label, !.next = n]
<1>1. task \in [Everyone -> TaskRow] /\ task[p] \in TaskRow
  BY Typed
<1>2. c \in TaskRow /\ c.pc = label /\ c.next = n /\ c.at = task[p].at /\ c.since = task[p].since
  BY <1>1 DEF TaskRow
<1>3. task' = [task EXCEPT ![p] = c]
  OBVIOUS
<1>. HIDE DEF c
<1>. QED  BY <1>1, <1>2, <1>3 DEF Alone

\* A row that is written has its new time, one that is gone stays gone.
LEMMA Rewriting ==
  ASSUME SchedulesShape, NEW i \in Ids, NEW t \in Nat, rows' = Advanced(i, t)
  PROVE  /\ rows' \in [Ids -> AnyRow] /\ \A j \in Ids \ {i} : rows'[j] = rows[j]
         /\ Exists(rows'[i]) <=> Exists(rows[i])
         /\ Exists(rows[i]) => rows'[i].fireAt = t /\ ~rows'[i].lockOff
         /\ rows'[i].active = rows[i].active
         /\ rows'[i] = NoRow <=> rows[i] = NoRow
<1>1. rows \in [Ids -> AnyRow] /\ rows[i] \in AnyRow
      /\ (Exists(rows[i]) => rows[i] \in SchedRow)
  BY Typed
<1>2. CASE ~Exists(rows[i])
  BY <1>1, <1>2 DEF Advanced, Written
<1>3. CASE Exists(rows[i])
  <2>. DEFINE r == [rows[i] EXCEPT !.fireAt = t, !.lockOff = FALSE]
  <2>1. r \in SchedRow /\ r.fireAt = t /\ ~r.lockOff /\ r.active = rows[i].active
    BY <1>1, <1>3 DEF SchedRow
  <2>2. rows' = [rows EXCEPT ![i] = r]
    BY <1>3 DEF Advanced, Written
  <2>3. Exists(r) /\ r # NoRow /\ rows[i] # NoRow /\ r \in AnyRow
    BY <1>3, <2>1, People DEF Exists, NoRow, AnyRow, SchedRow
  <2>. HIDE DEF r
  <2>. QED  BY <1>1, <1>3, <2>1, <2>2, <2>3
<1>. QED  BY <1>2, <1>3
-----------------------------------------------------------------------------
(* What each step does to a task, and to its row and timer.                *)
Fires(p) == Enter(p) \/ List(p) \/ ClearList(p) \/ Activate(p) \/ Mark(p) \/ (p \in Ids /\ Reread(p))

LEMMA FireCall ==
  ASSUME SchedulesShape, NEW p \in Tasks, Fires(p)
  PROVE  /\ UNCHANGED <<now, rows, timer, quiet, late, service>>
         /\ task' \in [Everyone -> TaskRow] /\ Alone(p)
         /\ task[p].pc \in Firing \cup {"fire", "reread"}
         /\ missed \subseteq missed' /\ missed' \subseteq Ids
         /\ \/ /\ task'[p].pc = IF p \in Ids THEN "idle" ELSE "done"
               /\ p \in Ids => ~rows[p].active \/ ~Comes(rows[p], rows[p].fireAt) \/ p \in missed'
            \/ /\ task'[p].at = task[p].at /\ task'[p].since = task[p].since
               /\ <<task[p].pc, task'[p].pc>> \in {<<"fire", "list">>, <<"list", "clear">>, <<"clear", "load">>, <<"load", "mark">>}
            \/ /\ task'[p].at = task[p].at /\ task'[p].since = task[p].since /\ p \in Ids
               /\ \/ task[p].pc = "mark" /\ task'[p].pc = "reread"
                  \/ /\ task[p].pc = "reread" /\ task'[p].pc = "write" /\ rows[p].active
                     /\ task'[p].next = rows[p].fireAt + Period
         /\ \/ occurred' = occurred
            \/ /\ p \in Ids /\ task[p].pc = "load" /\ task'[p].pc = "mark"
               /\ occurred' = [occurred EXCEPT ![p] = @ \cup {task[p].since}]
<1>0. p \in Everyone /\ missed \subseteq Ids /\ {"list", "clear", "load", "mark", "reread", "write"} \subseteq TaskLabels
  BY People DEF TaskLabels, Firing, SchedulesShape, SchedulesType
<1>1. CASE Enter(p)
  <2>1. /\ UNCHANGED <<now, rows, timer, quiet, late, service, missed, occurred>> /\ task[p].pc = "fire"
        /\ \/ TaskGoto(p, "list")
           \/ EndTask(p) /\ ~Exists(rows[task[p].at])
    BY <1>1 DEF Enter, In, lapses
  <2>2. p \in Ids => task[p].at = p
    BY <2>1 DEF SchedulesShape, Labelled
  <2>3. p \in Ids /\ ~Exists(rows[task[p].at]) => ~rows[p].active
    BY <2>2, Typed
  <2>. QED  BY <1>0, <2>1, <2>3, People, Gone, Finished DEF Firing
<1>2. CASE List(p)
  <2>1. /\ UNCHANGED <<now, rows, timer, quiet, late, service, missed, occurred>> /\ task[p].pc = "list" /\ TaskGoto(p, "clear")
    BY <1>2 DEF List, In, lapses
  <2>. QED  BY <1>0, <2>1, Gone DEF Firing
<1>3. CASE ClearList(p)
  <2>1. /\ UNCHANGED <<now, rows, timer, quiet, late, service, occurred>> /\ task[p].pc = "clear"
        /\ \/ TaskGoto(p, "load") /\ missed' = missed
           \/ EndTask(p) /\ missed' = missed \cup ({p} \cap Ids)
    BY <1>3 DEF ClearList, In
  <2>. QED  BY <1>0, <2>1, Gone, Finished DEF Firing
<1>4. CASE Activate(p)
  <2>1. /\ UNCHANGED <<now, rows, timer, quiet, late, missed, service>> /\ task[p].pc = "load" /\ TaskGoto(p, "mark")
        /\ occurred' = IF p \in Ids THEN [occurred EXCEPT ![p] = @ \cup {task[p].since}] ELSE occurred
    BY <1>4 DEF Activate, In, lapses
  <2>. QED  BY <1>0, <2>1, Gone DEF Firing
<1>5. CASE Mark(p)
  <2>1. /\ UNCHANGED <<now, rows, timer, quiet, late, service, missed, occurred>> /\ task[p].pc = "mark"
        /\ IF p \in Ids THEN TaskGoto(p, "reread") ELSE EndTask(p)
    BY <1>5 DEF Mark, In, lapses
  <2>. QED  BY <1>0, <2>1, People, Gone, Finished DEF Firing
<1>6. CASE p \in Ids /\ Reread(p)
  <2>1. /\ UNCHANGED <<now, rows, timer, quiet, late, service, missed, occurred>> /\ task[p].pc = "reread"
    BY <1>6 DEF Reread, In, lapses
  <2>2. CASE rows[p].active /\ Comes(rows[p], rows[p].fireAt)
    <3>1. rows[p].fireAt \in Nat
      BY <1>6, <2>2, Typed
    <3>2. PICK n \in Nat : n = rows[p].fireAt + Period /\ n = NextAfter(rows[p].fireAt, rows[p].fireAt)
      BY <3>1, NextLater
    <3>3. task' = [task EXCEPT ![p].pc = "write", ![p].next = n]
      BY <1>6, <2>2, <3>2 DEF Reread
    <3>4. /\ task' \in [Everyone -> TaskRow] /\ Alone(p) /\ task'[p].pc = "write" /\ task'[p].next = n
          /\ task'[p].at = task[p].at /\ task'[p].since = task[p].since
      <4>1. task' = [task EXCEPT ![p] = [task[p] EXCEPT !.pc = "write", !.next = n]]
        BY <1>0, <3>3, Typed
      <4>. QED  BY <1>0, <4>1, Timed, ZenonT(30)
    <3>. QED  BY <1>0, <1>6, <2>1, <2>2, <3>2, <3>4
  <2>3. CASE ~(rows[p].active /\ Comes(rows[p], rows[p].fireAt))
    <3>1. EndTask(p)
      BY <1>6, <2>3 DEF Reread
    <3>. QED  BY <1>0, <2>1, <2>3, <3>1, Finished
  <2>. QED  BY <2>2, <2>3
<1>. QED  BY <1>1, <1>2, <1>3, <1>4, <1>5, <1>6 DEF Fires

LEMMA FireLock ==
  ASSUME SchedulesShape, NEW p \in Tasks, Fires(p)
  PROVE  /\ event' \in BOOLEAN /\ paid' \in {"none", "on", "refunded", "lost_early", "lost_late"}
         /\ \/ lock = Nobody /\ lock' = p /\ task'[p].pc \in Firing
            \/ lock' = lock /\ (task[p].pc \in Firing <=> task'[p].pc \in Firing)
            \/ lock' = Nobody /\ task[p].pc \in Firing /\ task'[p].pc \notin Firing
<1>0. /\ event \in BOOLEAN /\ paid \in {"none", "on", "refunded", "lost_early", "lost_late"}
      /\ p \in Everyone /\ {"list", "clear", "load", "mark", "reread", "write"} \subseteq TaskLabels
  BY People DEF TaskLabels, Firing, SchedulesShape, SchedulesType
<1>. DEFINE ended == task'[p].pc \in {"idle", "done"}
<1>1. EndTask(p) => ended
  BY <1>0, Finished
<1>2. CASE Enter(p)
  <2>1. /\ UNCHANGED <<event, paid>> /\ task[p].pc = "fire"
        /\ \/ lock = Nobody /\ lock' = p /\ TaskGoto(p, "list")
           \/ lock' = lock /\ EndTask(p)
    BY <1>2 DEF Enter, In
  <2>. QED  BY <1>0, <1>1, <2>1, Gone DEF Firing
<1>3. CASE List(p)
  <2>1. event' = event /\ lock' = lock /\ task[p].pc = "list" /\ TaskGoto(p, "clear") /\ paid' \in {paid, "refunded"}
    BY <1>3 DEF List, In
  <2>. QED  BY <1>0, <2>1, Gone DEF Firing
<1>4. CASE ClearList(p)
  <2>1. /\ event' = event /\ task[p].pc = "clear" /\ paid' \in {paid, "lost_early", "lost_late"}
        /\ \/ lock' = lock /\ TaskGoto(p, "load")
           \/ lock' = Nobody /\ EndTask(p)
    BY <1>4 DEF ClearList, In
  <2>. QED  BY <1>0, <1>1, <2>1, Gone DEF Firing
<1>5. CASE Activate(p)
  <2>1. event' = TRUE /\ lock' = lock /\ task[p].pc = "load" /\ TaskGoto(p, "mark") /\ paid' = paid
    BY <1>5 DEF Activate, In
  <2>. QED  BY <1>0, <2>1, Gone DEF Firing
<1>6. CASE Mark(p)
  <2>1. /\ UNCHANGED <<event, paid>> /\ lock' = Nobody /\ task[p].pc = "mark"
        /\ TaskGoto(p, "reread") \/ EndTask(p)
    BY <1>6 DEF Mark, In
  <2>. QED  BY <1>0, <1>1, <2>1, Gone DEF Firing
<1>7. CASE p \in Ids /\ Reread(p)
  <2>1. UNCHANGED <<event, lock, paid>> /\ task[p].pc = "reread"
    BY <1>7 DEF Reread, In
  <2>2. ended \/ task'[p].pc = "write"
    <3>2. rows[p].active /\ Comes(rows[p], rows[p].fireAt) => task'[p].pc = "write"
      BY <1>0, <1>7, Typed DEF Reread, TaskRow
    <3>. QED  BY <1>1, <1>7, <3>2 DEF Reread
  <2>. QED  BY <1>0, <2>1, <2>2 DEF Firing
<1>. QED  BY <1>2, <1>3, <1>4, <1>5, <1>6, <1>7 DEF Fires

LEMMA DueCall ==
  ASSUME SchedulesShape, NEW i \in Ids, Due(i)
  PROVE  /\ UNCHANGED <<now, rows, event, lock, paid, occurred, quiet, lapses, service>>
         /\ up # "down" /\ timer[i] # None /\ timer[i] <= now
         /\ timer' \in [Ids -> Nat \cup {None}] /\ timer'[i] = None /\ \A j \in Ids \ {i} : timer'[j] = timer[j]
         /\ task' \in [Everyone -> TaskRow]
         /\ \/ task' = task /\ (TaskBusy(i) \/ timer[i] < now)
            \/ /\ timer[i] = now /\ ~TaskBusy(i) /\ Alone(i)
               /\ task'[i].pc = "fire" /\ task'[i].at = i /\ task'[i].since = now
<1>1. timer \in [Ids -> Nat \cup {None}] /\ task \in [Everyone -> TaskRow] /\ now \in Nat /\ timer[i] \in Nat \cup {None}
  BY Typed
<1>2. CASE timer[i] = now /\ ~TaskBusy(i)
  <2>1. task' = [task EXCEPT ![i] = TaskAt("fire", i)]
    BY <1>2 DEF Due
  <2>2. /\ task' \in [Everyone -> TaskRow] /\ Alone(i)
        /\ task'[i].pc = "fire" /\ task'[i].at = i /\ task'[i].since = now
    BY <2>1, People, Restful, Begun
  <2>. QED  BY <1>1, <1>2, <2>2 DEF Due
<1>3. CASE ~(timer[i] = now /\ ~TaskBusy(i))
  <2>1. task' = task /\ timer[i] # None /\ timer[i] <= now
    BY <1>3 DEF Due
  <2>2. TaskBusy(i) \/ timer[i] < now
    BY <1>1, <1>3, <2>1, People
  <2>. QED  BY <1>1, <2>1, <2>2 DEF Due
<1>. QED  BY <1>2, <1>3

LEMMA WriteCall ==
  ASSUME SchedulesShape, NEW i \in Ids, Write(i)
  PROVE  /\ UNCHANGED <<now, event, lock, paid, occurred, quiet, service>> /\ task[i].pc = "write"
         /\ late' = (IF task[i].next > now THEN late \ {i} ELSE late) /\ missed' = missed \ {i}
         /\ task' \in [Everyone -> TaskRow] /\ Alone(i) /\ task'[i].pc = "idle"
         /\ rows' = Advanced(i, task[i].next) /\ task[i].next \in Nat
         /\ timer' \in [Ids -> Nat \cup {None}] /\ timer'[i] = task[i].next /\ \A j \in Ids \ {i} : timer'[j] = timer[j]
<1>1. timer \in [Ids -> Nat \cup {None}] /\ task[i].next \in Nat /\ i \in Everyone
  BY Typed, People
<1>2. task' \in [Everyone -> TaskRow] /\ Alone(i) /\ task'[i].pc = "idle"
  BY <1>1, Finished DEF Write
<1>. QED  BY <1>1, <1>2 DEF Write, In

LEMMA LoadCall ==
  ASSUME SchedulesShape, NEW i \in Ids, LoadOne(i)
  PROVE  /\ UNCHANGED <<now, event, lock, task, paid, occurred, quiet, lapses, up, restarts>>
         /\ up = "loading" /\ i \in loading /\ loading' = loading \ {i}
         /\ Exists(rows[i]) /\ rows[i].active /\ ~TaskBusy(i) /\ rows[i].fireAt \in Nat
         /\ \/ /\ UNCHANGED <<rows, timer>> /\ rows[i].fireAt <= now /\ ~Comes(rows[i], now)
            \/ \E n \in Nat :
                 /\ n > now /\ timer' = [timer EXCEPT ![i] = n]
                 /\ \/ rows[i].fireAt > now /\ rows' = rows /\ n = rows[i].fireAt
                    \/ rows' = Advanced(i, n)
<1>1. i \in loading /\ rows[i].active /\ ~TaskBusy(i) /\ rows[i].fireAt \in Nat /\ now \in Nat /\ Exists(rows[i])
  BY Typed DEF LoadOne, SchedulesShape, Serviced, SchedulesType
<1>2. /\ NextAfter(rows[i].fireAt, now) \in Nat /\ NextAfter(rows[i].fireAt, now) > now
      /\ rows[i].fireAt > now => NextAfter(rows[i].fireAt, now) = rows[i].fireAt
  BY <1>1, NextLater
<1>. QED  BY <1>1, <1>2 DEF LoadOne

\* Schedule i has just been created by editor e, due at t.
Created(e, i, t) ==
  /\ UNCHANGED <<now, event, lock, paid, occurred, missed, service>> /\ up = "up" /\ task[e].pc = "idle" /\ quiet' = FALSE
  /\ task' \in [Everyone -> TaskRow] /\ Alone(e) /\ task'[e].pc = "done"
  /\ rows[i] = NoRow /\ rows' \in [Ids -> AnyRow] /\ \A j \in Ids \ {i} : rows'[j] = rows[j]
  /\ Exists(rows'[i]) /\ rows'[i].fireAt = t /\ t \in Nat /\ now \in Nat
  /\ late' = IF t < now THEN late \cup {i} ELSE late
  /\ timer' \in [Ids -> Nat \cup {None}] /\ timer'[i] = t /\ \A j \in Ids \ {i} : timer'[j] = timer[j]

LEMMA CreateCall ==
  ASSUME SchedulesShape, NEW e \in Edits, NEW i \in Ids, NEW t \in 0 .. Horizon, NEW k \in Rules, CreateSchedule(e, i, t, k)
  PROVE  Created(e, i, t)
<1>1. /\ task \in [Everyone -> TaskRow] /\ rows \in [Ids -> AnyRow] /\ timer \in [Ids -> Nat \cup {None}]
      /\ e \in Everyone /\ now \in Nat
  BY Typed, People
<1>2. t \in Nat
  BY <1>1, People
<1>3. ScheduleRow(t, k) \in AnyRow /\ Exists(ScheduleRow(t, k)) /\ ScheduleRow(t, k).fireAt = t
  BY <1>2, People DEF ScheduleRow, AnyRow, SchedRow, Exists
<1>4. task' = [task EXCEPT ![e] = Done] /\ Done \in TaskRow /\ Done.pc = "done"
  BY Restful DEF CreateSchedule, BeginTask
<1>5. task' \in [Everyone -> TaskRow] /\ Alone(e) /\ task'[e].pc = "done"
  BY <1>1, <1>4 DEF Alone
<1>6. /\ UNCHANGED <<now, event, lock, paid, occurred, missed, service>> /\ up = "up" /\ task[e].pc = "idle" /\ quiet' = FALSE
      /\ rows[i] = NoRow /\ rows' = [rows EXCEPT ![i] = ScheduleRow(t, k)] /\ timer' = [timer EXCEPT ![i] = t]
      /\ late' = IF t < now THEN late \cup {i} ELSE late
  BY DEF CreateSchedule, BeginTask, In
<1>7. rows' \in [Ids -> AnyRow] /\ rows'[i] = ScheduleRow(t, k) /\ \A j \in Ids \ {i} : rows'[j] = rows[j]
  BY <1>1, <1>3, <1>6
<1>8. timer' \in [Ids -> Nat \cup {None}] /\ timer'[i] = t /\ \A j \in Ids \ {i} : timer'[j] = timer[j]
  BY <1>1, <1>2, <1>6
<1>. QED  BY <1>1, <1>2, <1>3, <1>5, <1>6, <1>7, <1>8 DEF Created

\* A request that begins with no more than a look, or by dropping the job.
Opens(e) == Unlock(e) \/ \E i \in Ids : Update(e, i) \/ DeleteSchedule(e, i) \/ FireNow(e, i)

LEMMA OpenCall ==
  ASSUME SchedulesShape, NEW e \in Edits, Opens(e)
  PROVE  /\ UNCHANGED <<now, rows, lock, paid, occurred, lapses, service>> /\ event' \in BOOLEAN
         /\ up = "up" /\ task[e].pc = "idle" /\ quiet' = FALSE
         /\ task' \in [Everyone -> TaskRow] /\ Alone(e) /\ task'[e].since = now
         /\ task'[e].pc \in {"put", "delete", "fire", "unlock"}
         /\ task'[e].pc # "unlock" => task'[e].at \in Ids
         /\ timer' \in [Ids -> Nat \cup {None}]
         /\ \A i \in Ids : timer'[i] = timer[i] \/ (timer'[i] = None /\ task'[e].pc = "delete" /\ task'[e].at = i)
<1>1. /\ timer \in [Ids -> Nat \cup {None}] /\ e \in Everyone /\ {"put", "delete", "fire", "unlock"} \subseteq TaskLabels
      /\ event \in BOOLEAN
  BY Typed, People DEF TaskLabels, SchedulesShape, SchedulesType
<1>2. ASSUME NEW label \in {"put", "delete", "fire", "unlock"}, NEW i \in Ids \cup {Nobody}, BeginTask(e, TaskAt(label, i))
      PROVE  /\ UNCHANGED <<now, lock, paid, occurred, missed, service>>
             /\ up = "up" /\ task[e].pc = "idle" /\ quiet' = FALSE
             /\ task' \in [Everyone -> TaskRow] /\ Alone(e) /\ task'[e].since = now
             /\ task'[e].pc = label /\ task'[e].at = i
  <2>1. task' = [task EXCEPT ![e] = TaskAt(label, i)]
    BY <1>2 DEF BeginTask
  <2>2. /\ task' \in [Everyone -> TaskRow] /\ Alone(e)
        /\ task'[e].pc = label /\ task'[e].at = i /\ task'[e].since = now
    BY <1>1, <2>1, Begun
  <2>. QED  BY <1>2, <2>2 DEF BeginTask, In
<1>3. CASE Unlock(e)
  <2>1. BeginTask(e, TaskAt("unlock", Nobody)) /\ UNCHANGED <<rows, timer, late>> /\ event' = FALSE
    BY <1>3 DEF Unlock
  <2>. QED  BY <1>1, <1>2, <2>1 DEF lapses
<1>4. CASE \E i \in Ids : Update(e, i) \/ FireNow(e, i)
  <2>1. PICK i \in Ids, label \in {"put", "fire"} :
          BeginTask(e, TaskAt(label, i)) /\ UNCHANGED <<rows, timer, event, late>>
    BY <1>4 DEF Update, FireNow
  <2>. QED  BY <1>1, <1>2, <2>1 DEF lapses
<1>5. CASE \E i \in Ids : DeleteSchedule(e, i)
  <2>1. PICK i \in Ids : /\ BeginTask(e, TaskAt("delete", i)) /\ UNCHANGED <<rows, event, late>>
                         /\ timer' = [timer EXCEPT ![i] = None]
    BY <1>5 DEF DeleteSchedule
  <2>2. timer' \in [Ids -> Nat \cup {None}] /\ timer'[i] = None /\ \A j \in Ids \ {i} : timer'[j] = timer[j]
    BY <1>1, <2>1
  <2>. QED  BY <1>1, <1>2, <2>1, <2>2 DEF lapses
<1>. QED  BY <1>3, <1>4, <1>5 DEF Opens

LEMMA RowPut ==
  ASSUME SchedulesShape, NEW e \in Edits, NEW b \in Bodies, Put(e, b)
  PROVE  /\ UNCHANGED <<now, timer, event, lock, paid, occurred, quiet, missed, service>>
         /\ task[e].pc = "put" /\ task[e].at \in Ids
         /\ task' \in [Everyone -> TaskRow] /\ Alone(e) /\ task'[e].pc = "rearm"
         /\ task'[e].at = task[e].at /\ task'[e].since = task[e].since
         /\ rows' \in [Ids -> AnyRow] /\ \A j \in Ids \ {task[e].at} : rows'[j] = rows[j]
         /\ Exists(rows'[task[e].at]) <=> Exists(rows[task[e].at])
         /\ rows'[task[e].at] = NoRow <=> rows[task[e].at] = NoRow
         /\ ~Exists(rows[task[e].at]) => rows'[task[e].at] = rows[task[e].at]
         /\ \/ rows'[task[e].at].fireAt = rows[task[e].at].fireAt
            \/ rows'[task[e].at].fireAt > now
            \/ task[e].at \in late'
         /\ late' \in {late, late \cup {task[e].at}}
<1>. DEFINE i == task[e].at
            f == IF b.fireAt = None THEN rows[i].fireAt ELSE b.fireAt
            a == IF b.active = {} THEN rows[i].active ELSE TRUE \in b.active
            k == IF b.rule = "kept" THEN rows[i].rule ELSE b.rule
            r == [rows[i] EXCEPT !.fireAt = f, !.rule = k, !.active = a]
<1>0. e \in Everyone /\ "rearm" \in TaskLabels
  BY People DEF TaskLabels
<1>1. task[e].pc = "put" /\ TaskGoto(e, "rearm")
      /\ late' = (IF b.fireAt \in 0 .. now THEN late \cup {i} ELSE late)
      /\ UNCHANGED <<now, timer, event, lock, paid, occurred, quiet, missed, service>>
  BY DEF Put, In
<1>2. i \in Ids
  BY <1>1 DEF SchedulesShape, Labelled, Rowed
<1>3. rows' = IF Exists(rows[i]) THEN [rows EXCEPT ![i] = r] ELSE rows
  BY DEF Put, Written
<1>4. rows \in [Ids -> AnyRow] /\ (Exists(rows[i]) => rows[i] \in SchedRow)
     /\ now \in Nat
  BY <1>2, Typed
<1>5. b.fireAt \in Nat \cup {None} /\ b.rule \in RuleKinds \cup {"kept"}
  BY SchedulesAssumption DEF Bodies
<1>6. CASE ~Exists(rows[i])
  BY <1>0, <1>1, <1>2, <1>3, <1>4, <1>6, Gone
<1>7. CASE Exists(rows[i])
  <2>0. rows[i].fireAt \in Nat /\ rows[i].active \in BOOLEAN /\ rows[i].rule \in RuleKinds
    BY <1>4, <1>7 DEF SchedRow
  <2>1. f \in Nat /\ (f = rows[i].fireAt \/ f > now \/ i \in late') /\ a \in BOOLEAN /\ k \in RuleKinds
    <3>1. a \in BOOLEAN
      <4>1. (TRUE \in b.active) \in BOOLEAN
        OBVIOUS
      <4>. DEFINE on == TRUE \in b.active
      <4>2. on \in BOOLEAN /\ a = IF b.active = {} THEN rows[i].active ELSE on
        BY <4>1
      <4>. HIDE DEF on, a
      <4>. QED  BY <2>0, <4>2
    <3>2. f \in Nat
      BY <1>5, <2>0
    <3>3. f = rows[i].fireAt \/ f > now \/ i \in late'
      BY <1>1, <1>4, <1>5, People
    <3>4. k \in RuleKinds
      BY <1>5, <2>0
    <3>. QED  BY <3>1, <3>2, <3>3, <3>4
  <2>. HIDE DEF f, a, k
  <2>2. r \in SchedRow /\ r.fireAt = f
    BY <1>4, <1>7, <2>1 DEF SchedRow
  <2>3. rows' = [rows EXCEPT ![i] = r]
    BY <1>3, <1>7
  <2>. HIDE DEF r
  <2>4. Exists(r) /\ r # NoRow /\ rows[i] # NoRow /\ r \in AnyRow
    <3>1. NoRow.fireAt = None
      BY DEF NoRow
    <3>2. r.fireAt # None
      BY <2>1, <2>2, People
    <3>. QED  BY <1>7, <2>2, <3>1, <3>2 DEF Exists, AnyRow
  <2>5. rows' \in [Ids -> AnyRow] /\ rows'[i] = r /\ \A j \in Ids \ {i} : rows'[j] = rows[j]
    BY <1>2, <1>4, <2>3, <2>4
  <2>. QED  BY <1>0, <1>1, <1>2, <1>7, <2>1, <2>2, <2>4, <2>5, Gone
<1>. QED  BY <1>6, <1>7

LEMMA RearmCall ==
  ASSUME SchedulesShape, NEW e \in Edits, Rearm(e)
  PROVE  /\ UNCHANGED <<now, rows, event, lock, paid, occurred, quiet, service>>
         /\ task[e].pc = "rearm" /\ task[e].at \in Ids
         /\ late' = (IF TaskBusy(task[e].at) THEN late ELSE late \ {task[e].at}) /\ missed' = missed \ {task[e].at}
         /\ timer' \in [Ids -> Nat \cup {None}] /\ \A j \in Ids \ {task[e].at} : timer'[j] = timer[j]
         /\ task' \in [Everyone -> TaskRow] /\ Alone(e)
         /\ LET r == rows[task[e].at] IN
            \/ /\ r.active /\ r.fireAt > now /\ timer'[task[e].at] = r.fireAt /\ task'[e].pc = "done"
            \/ /\ timer'[task[e].at] = None
               /\ \/ ~(r.active /\ r.fireAt > now) /\ task'[e].pc = "done"
                     /\ (r.active => ~Comes(r, now))
                  \/ /\ r.active /\ r.fireAt <= now /\ task'[e].pc = "advance" /\ task'[e].at = task[e].at
                     /\ task'[e].since = task[e].since /\ task'[e].next > now
<1>. DEFINE i == task[e].at
            r == rows[i]
<1>0. e \in Everyone /\ e \notin Ids
  BY People
<1>1. task[e].pc = "rearm" /\ UNCHANGED <<now, rows, event, lock, paid, occurred, quiet, service>>
      /\ late' = (IF TaskBusy(i) THEN late ELSE late \ {i}) /\ missed' = missed \ {i}
  BY DEF Rearm, In
<1>2. i \in Ids /\ now \in Nat
  BY <1>1, Typed DEF SchedulesShape, Labelled, Rowed
<1>3. timer \in [Ids -> Nat \cup {None}] /\ r.fireAt \in Nat \cup {None} /\ (r.active => r.fireAt \in Nat)
  BY <1>2, Typed
<1>4. timer' = [timer EXCEPT ![i] = IF r.active /\ r.fireAt > now THEN r.fireAt ELSE None]
  BY DEF Rearm
<1>5. /\ timer' \in [Ids -> Nat \cup {None}] /\ \A j \in Ids \ {i} : timer'[j] = timer[j]
      /\ timer'[i] = IF r.active /\ r.fireAt > now THEN r.fireAt ELSE None
  BY <1>2, <1>3, <1>4
<1>6. CASE r.active /\ r.fireAt <= now /\ Comes(r, now)
  <2>0. r.fireAt \in Nat
    BY <1>3, <1>6
  <2>a. NextAfter(r.fireAt, now) \in Nat /\ NextAfter(r.fireAt, now) > now
    BY <1>2, <2>0, NextLater
  <2>1. PICK n \in Nat : n = NextAfter(r.fireAt, now) /\ n > now
    BY <2>a
  <2>2. task' = [task EXCEPT ![e].pc = "advance", ![e].next = n]
    BY <1>6, <2>1 DEF Rearm
  <2>3. task' = [task EXCEPT ![e] = [task[e] EXCEPT !.pc = "advance", !.next = n]]
    BY <1>0, <2>2, Typed
  <2>4. "advance" \in TaskLabels
    BY DEF TaskLabels
  <2>5. /\ task' \in [Everyone -> TaskRow] /\ Alone(e)
        /\ task'[e].pc = "advance" /\ task'[e].next = n
        /\ task'[e].at = task[e].at /\ task'[e].since = task[e].since
    BY <1>0, <2>3, <2>4, Timed, ZenonT(30)
  <2>. QED  BY <1>1, <1>2, <1>3, <1>5, <1>6, <2>1, <2>5
<1>7. CASE ~(r.active /\ r.fireAt <= now /\ Comes(r, now))
  <2>1. EndTask(e)
    BY <1>7 DEF Rearm
  <2>2. task' \in [Everyone -> TaskRow] /\ Alone(e) /\ task'[e].pc = "done"
    BY <1>0, <2>1, Finished
  <2>. QED  BY <1>1, <1>2, <1>3, <1>5, <1>7, <2>2
<1>. QED  BY <1>6, <1>7

LEMMA AdvanceCall ==
  ASSUME SchedulesShape, NEW e \in Edits, Advance(e)
  PROVE  /\ UNCHANGED <<now, event, lock, paid, occurred, quiet, missed, service>>
         /\ late' = IF task[e].next > now THEN late ELSE late \cup {task[e].at}
         /\ task[e].pc = "advance" /\ task[e].at \in Ids /\ task[e].next \in Nat
         /\ task' \in [Everyone -> TaskRow] /\ Alone(e) /\ task'[e].pc = "done"
         /\ rows' = Advanced(task[e].at, task[e].next)
         /\ timer' = IF task[e].next > now THEN [timer EXCEPT ![task[e].at] = task[e].next] ELSE timer
<1>1. e \in Everyone /\ e \notin Ids /\ task[e].next \in Nat
  BY Typed, People
<1>2. task[e].pc = "advance" /\ EndTask(e)
  BY DEF Advance, In
<1>3. task[e].at \in Ids
  BY <1>2 DEF SchedulesShape, Labelled, Rowed
<1>4. task' \in [Everyone -> TaskRow] /\ Alone(e) /\ task'[e].pc = "done"
  BY <1>1, <1>2, Finished
<1>. QED  BY <1>1, <1>2, <1>3, <1>4 DEF Advance

LEMMA DeleteRowCall ==
  ASSUME SchedulesShape, NEW e \in Edits, DeleteRow(e)
  PROVE  /\ UNCHANGED <<now, timer, event, lock, paid, occurred, quiet, lapses, service>>
         /\ task[e].pc = "delete" /\ task[e].at \in Ids
         /\ task' \in [Everyone -> TaskRow] /\ Alone(e) /\ task'[e].pc = "done"
         /\ rows' \in [Ids -> AnyRow] /\ \A j \in Ids \ {task[e].at} : rows'[j] = rows[j]
         /\ ~Exists(rows'[task[e].at]) /\ ~rows'[task[e].at].active /\ rows'[task[e].at] # NoRow
<1>1. e \in Everyone /\ e \notin Ids /\ rows \in [Ids -> AnyRow]
  BY Typed, People
<1>2. task[e].pc = "delete" /\ EndTask(e)
  BY DEF DeleteRow, In
<1>3. task[e].at \in Ids
  BY <1>2 DEF SchedulesShape, Labelled, Rowed
<1>4. task' \in [Everyone -> TaskRow] /\ Alone(e) /\ task'[e].pc = "done"
  BY <1>1, <1>2, Finished
<1>5. Deleted \in AnyRow /\ ~Exists(Deleted) /\ ~Deleted.active /\ Deleted # NoRow
  BY DEF Deleted, NoRow, AnyRow, Exists
<1>6. rows' = [rows EXCEPT ![task[e].at] = Deleted]
  BY DEF DeleteRow
<1>. QED  BY <1>1, <1>2, <1>3, <1>4, <1>5, <1>6 DEF DeleteRow

LEMMA UnlockingCall ==
  ASSUME SchedulesShape, NEW e \in Edits, Unlocking(e)
  PROVE  /\ UNCHANGED <<now, timer, event, lock, paid, occurred, quiet, lapses, service>>
         /\ task[e].pc = "unlock"
         /\ task' \in [Everyone -> TaskRow] /\ Alone(e) /\ task'[e].pc = "done"
         /\ rows' \in [Ids -> AnyRow]
         /\ \A i \in Ids : rows'[i].fireAt = rows[i].fireAt /\ rows'[i].rule = rows[i].rule /\ rows'[i].active = rows[i].active
         /\ \A i \in Ids : rows'[i] = NoRow <=> rows[i] = NoRow
<1>1. e \in Everyone /\ e \notin Ids /\ rows \in [Ids -> AnyRow]
  BY Typed, People
<1>2. task[e].pc = "unlock" /\ EndTask(e)
  BY DEF Unlocking, In
<1>3. task' \in [Everyone -> TaskRow] /\ Alone(e) /\ task'[e].pc = "done"
  BY <1>1, <1>2, Finished
<1>4. rows' = [i \in Ids |-> IF InWindow(rows[i]) THEN [rows[i] EXCEPT !.lockOff = TRUE] ELSE rows[i]]
  BY DEF Unlocking
<1>5. ASSUME NEW i \in Ids
      PROVE  /\ rows'[i] \in AnyRow
             /\ rows'[i].fireAt = rows[i].fireAt /\ rows'[i].rule = rows[i].rule /\ rows'[i].active = rows[i].active
             /\ rows'[i] = NoRow <=> rows[i] = NoRow
  <2>1. CASE ~InWindow(rows[i])
    BY <1>1, <1>4, <2>1
  <2>2. CASE InWindow(rows[i])
    <3>1. Exists(rows[i]) /\ rows[i] \in SchedRow /\ rows[i] # NoRow
      BY <2>2, Typed DEF InWindow
    <3>2. PICK r \in SchedRow : r = [rows[i] EXCEPT !.lockOff = TRUE]
      BY <3>1 DEF SchedRow
    <3>3. r.fireAt = rows[i].fireAt /\ r.rule = rows[i].rule /\ r.active = rows[i].active
      BY <3>1, <3>2 DEF SchedRow
    <3>4. r # NoRow /\ rows'[i] = r
      BY <1>4, <2>2, <3>1, <3>2, <3>3, People DEF NoRow, Exists
    <3>. QED  BY <3>1, <3>3, <3>4 DEF AnyRow
  <2>. QED  BY <2>1, <2>2
<1>6. rows' \in [Ids -> AnyRow]
  BY <1>4, <1>5
<1>. QED  BY <1>2, <1>3, <1>5, <1>6 DEF Unlocking
-----------------------------------------------------------------------------
LEMMA Schedulings ==
  SchedulesNext =>
    \/ \E i \in Ids : Due(i) \/ Write(i) \/ LoadOne(i)
    \/ \E p \in Tasks : Fires(p)
    \/ \E e \in Edits : \/ \E i \in Ids, t \in 0 .. Horizon, k \in Rules : CreateSchedule(e, i, t, k)
                        \/ \E b \in Bodies : Put(e, b)
                        \/ Opens(e) \/ Rearm(e) \/ Advance(e) \/ DeleteRow(e) \/ Unlocking(e)
    \/ Ask \/ AskAgain \/ Buy \/ EventOver \/ Tick \/ Stop \/ Boot \/ Loaded
BY DEF SchedulesNext, Edit, Fires, Opens, Tasks

\* A step of one task keeps the shape.
LEMMA ShapeBy ==
  ASSUME SchedulesShape, NEW p \in Everyone, Alone(p), UNCHANGED <<now, service>>,
         task' \in [Everyone -> TaskRow], rows' \in [Ids -> AnyRow], timer' \in [Ids -> Nat \cup {None}],
         event' \in BOOLEAN, quiet' \in BOOLEAN, occurred' \in [Ids -> SUBSET Nat],
         late' \subseteq Ids, missed' \subseteq Ids,
         paid' \in {"none", "on", "refunded", "lost_early", "lost_late"},
         \/ lock = Nobody /\ lock' = p /\ p \in Tasks /\ task'[p].pc \in Firing
         \/ lock' = lock /\ (task[p].pc \in Firing <=> task'[p].pc \in Firing)
         \/ lock' = Nobody /\ task[p].pc \in Firing /\ task'[p].pc \notin Firing,
         p \in Ids => /\ task'[p].pc \in Firing \cup {"idle", "fire", "reread", "write"}
                      /\ task'[p].pc # "idle" => task'[p].at = p
                      /\ up # "down" /\ p \notin loading,
         p \in Edits => /\ task'[p].pc \in Rowed \cup {"idle", "unlock", "done"}
                        /\ task'[p].pc \in Rowed => task'[p].at \in Ids,
         p = Buyer => task'[p].pc \in {"idle", "asked", "buying", "done"},
         p \notin Ids /\ up # "up" => task'[p].pc \in {"idle", "done"},
         up = "down" => timer' = timer,
         \A i \in loading : rows'[i].active = rows[i].active /\ timer'[i] = timer[i]
  PROVE  SchedulesShape'
<1>1. SchedulesType'
  <2>1. \A q \in Tasks : lock' = q <=> task'[q].pc \in Firing
    <3>1. \A q \in Tasks : lock = q <=> task[q].pc \in Firing
      BY DEF SchedulesShape, SchedulesType
    <3>2. \A q \in Tasks \ {p} : task'[q] = task[q]
      BY People DEF Alone
    <3>3. p = Buyer => task[p].pc \notin Firing /\ task'[p].pc \notin Firing
      BY DEF SchedulesShape, Labelled, Firing
    <3>4. p \in Tasks \/ p = Buyer
      BY DEF Everyone
    <3>. QED  BY <3>1, <3>2, <3>3, <3>4, People
  <2>2. lock' \in Tasks \cup {Nobody}
    BY DEF SchedulesShape, SchedulesType
  <2>3. task' \in [Tasks \cup {Buyer} -> [pc : TaskLabels, at : Ids \cup {Nobody}, since : Nat, next : Nat]]
    BY DEF Everyone, TaskRow
  <2>4. rows' \in [Ids -> AnyRow]
    BY DEF AnyRow
  <2>5. now' \in 0 .. MaxTime /\ up' \in {"up", "loading", "down"} /\ loading' \subseteq Ids /\ restarts' \in 0 .. MaxRestarts
    BY DEF SchedulesShape, SchedulesType, service
  <2>. QED  BY <2>1, <2>2, <2>3, <2>4, <2>5 DEF SchedulesType, AnyRow
<1>2. Labelled'
  BY People DEF Alone, SchedulesShape, Labelled, Everyone
<1>3. Serviced'
  <2>1. up' = up /\ loading' = loading /\ loading \subseteq Ids
    BY DEF service, SchedulesShape, SchedulesType
  <2>2. up # "up" => \A q \in Edits \cup {Buyer} : task'[q].pc \in {"idle", "done"}
    BY People DEF Alone, SchedulesShape, Serviced, TaskBusy, Everyone
  <2>3. up = "down" => \A i \in Ids : task'[i].pc \in {"idle", "done"} /\ timer'[i] = None
    BY People DEF Alone, SchedulesShape, Serviced, TaskBusy, Everyone
  <2>4. \A i \in loading : task'[i].pc \in {"idle", "done"}
    BY <2>1, People DEF Alone, SchedulesShape, Serviced, TaskBusy, Everyone
  <2>. QED  BY <2>1, <2>2, <2>3, <2>4 DEF SchedulesShape, Serviced, TaskBusy
<1>. QED  BY <1>1, <1>2, <1>3 DEF SchedulesShape

LEMMA BuyerCall ==
  ASSUME SchedulesShape, Ask \/ AskAgain \/ Buy
  PROVE  /\ UNCHANGED <<now, rows, timer, event, lock, occurred, quiet, lapses, service>>
         /\ task' \in [Everyone -> TaskRow] /\ Alone(Buyer)
         /\ paid' \in {paid, "on"} /\ task[Buyer].pc # "done"
         /\ \/ task'[Buyer].pc = "done" /\ paid' = paid
            \/ /\ up = "up" /\ ~PreFireLocked /\ task'[Buyer].pc = "asked" /\ task'[Buyer].since = now /\ paid' = paid
            \/ /\ task[Buyer].pc \in {"asked", "buying"} /\ task'[Buyer].since = task[Buyer].since
               /\ \/ task'[Buyer].pc = "buying" /\ paid' = paid
                  \/ task'[Buyer].pc = "done" /\ paid' = "on"
<1>0. /\ Buyer \in Everyone /\ Buyer \notin Ids /\ {"asked", "buying", "done"} \subseteq TaskLabels
      /\ task \in [Everyone -> TaskRow]
  BY Typed, People DEF TaskLabels
<1>1. CASE Ask
  <2>1. CASE PreFireLocked
    <3>1. task' = [task EXCEPT ![Buyer] = Done]
      BY <1>1, <2>1 DEF Ask
    <3>. QED  BY <1>0, <1>1, <3>1, Restful DEF Ask, Alone, In
  <2>2. CASE ~PreFireLocked
    <3>1. task' = [task EXCEPT ![Buyer] = TaskAt("asked", Nobody)]
      BY <1>1, <2>2 DEF Ask
    <3>2. /\ task' \in [Everyone -> TaskRow] /\ Alone(Buyer)
          /\ task'[Buyer].pc = "asked" /\ task'[Buyer].since = now
      BY <1>0, <3>1, Begun
    <3>. QED  BY <1>1, <2>2, <3>2 DEF Ask, In
  <2>. QED  BY <2>1, <2>2
<1>2. CASE AskAgain
  <2>1. /\ UNCHANGED <<now, rows, timer, event, lock, paid, occurred, quiet, lapses, service>> /\ task[Buyer].pc = "asked"
        /\ EndTask(Buyer) \/ TaskGoto(Buyer, "buying")
    BY <1>2 DEF AskAgain, In
  <2>2. CASE EndTask(Buyer)
    <3>1. task' \in [Everyone -> TaskRow] /\ Alone(Buyer) /\ task'[Buyer].pc = "done"
      BY <1>0, <2>2, Finished
    <3>. QED  BY <2>1, <3>1
  <2>3. CASE TaskGoto(Buyer, "buying")
    <3>1. /\ task' \in [Everyone -> TaskRow] /\ Alone(Buyer) /\ task'[Buyer].pc = "buying"
          /\ task'[Buyer].since = task[Buyer].since
      BY <1>0, <2>3, Gone
    <3>. QED  BY <2>1, <3>1
  <2>. QED  BY <2>1, <2>2, <2>3
<1>3. CASE Buy
  <2>1. /\ UNCHANGED <<now, rows, timer, event, lock, occurred, quiet, lapses, service>> /\ task[Buyer].pc = "buying"
        /\ TaskGoto(Buyer, "done") /\ paid' = "on"
    BY <1>3 DEF Buy, In
  <2>. QED  BY <1>0, <2>1, Gone
<1>. QED  BY <1>1, <1>2, <1>3

LEMMA StopCall ==
  ASSUME SchedulesShape, Stop
  PROVE  /\ UNCHANGED <<now, rows, event, paid, occurred, quiet, lapses, loading>> /\ up = "up" /\ up' = "down" /\ lock' = Nobody
         /\ restarts' \in 0 .. MaxRestarts
         /\ timer' \in [Ids -> Nat \cup {None}] /\ \A i \in Ids : timer'[i] = None
         /\ task' \in [Everyone -> TaskRow]
         /\ \A i \in Ids : task'[i].pc = "idle"
         /\ \A p \in Edits \cup {Buyer} : task'[p].pc \in {"idle", "done"} /\ (task[p].pc = "idle" => task'[p] = task[p])
         /\ task[Buyer].pc = "done" => task'[Buyer] = task[Buyer]
<1>1. /\ UNCHANGED <<now, rows, event, paid, occurred, quiet, lapses, loading>> /\ up = "up" /\ up' = "down" /\ lock' = Nobody
      /\ restarts < MaxRestarts /\ restarts' = restarts + 1 /\ timer' = [i \in Ids |-> None]
      /\ task' = [p \in Everyone |-> IF ~TaskBusy(p) THEN task[p] ELSE IF p \in Ids THEN IdleTask ELSE Done]
  BY DEF Stop, Everyone
<1>2. restarts \in 0 .. MaxRestarts /\ task \in [Everyone -> TaskRow]
  BY Typed DEF SchedulesShape, SchedulesType
<1>3. restarts' \in 0 .. MaxRestarts
  BY <1>1, <1>2, People, SchedulesAssumption
<1>4. task' \in [Everyone -> TaskRow]
  BY <1>1, <1>2, Restful
<1>5. \A i \in Ids : task'[i].pc = "idle"
  BY <1>1, Restful, People DEF TaskBusy, SchedulesShape, Labelled, Firing
<1>6. \A p \in Edits \cup {Buyer} : task'[p].pc \in {"idle", "done"} /\ (~TaskBusy(p) => task'[p] = task[p])
  BY <1>1, Restful, People DEF TaskBusy
<1>. QED  BY <1>1, <1>3, <1>4, <1>5, <1>6 DEF TaskBusy

LEMMA SchedulesShapeStep == SchedulesInv /\ [SchedulesNext]_scheduleVars => SchedulesShape'
<1>. SUFFICES ASSUME SchedulesInv, [SchedulesNext]_scheduleVars PROVE SchedulesShape'
  OBVIOUS
<1>0. /\ SchedulesShape
      /\ rows \in [Ids -> AnyRow] /\ timer \in [Ids -> Nat \cup {None}] /\ task \in [Everyone -> TaskRow]
      /\ event \in BOOLEAN /\ quiet \in BOOLEAN /\ occurred \in [Ids -> SUBSET Nat]
      /\ paid \in {"none", "on", "refunded", "lost_early", "lost_late"}
      /\ late \subseteq Ids /\ missed \subseteq Ids
      /\ loading \subseteq Ids /\ (up = "up" \/ up = "down" => loading = {}) /\ up \in {"up", "loading", "down"}
      /\ \A i \in loading : timer[i] = None /\ ~TaskBusy(i)
      /\ \A i \in Ids : up = "down" => ~TaskBusy(i)
  BY Typed DEF SchedulesInv, SchedulesShape, SchedulesType, Serviced
<1>1. CASE UNCHANGED scheduleVars
  BY <1>0, <1>1 DEF scheduleVars, service, lapses, SchedulesShape, SchedulesType, Labelled, Serviced, TaskBusy
<1>2. ASSUME NEW i \in Ids, Due(i) PROVE SchedulesShape'
  <2>1. /\ UNCHANGED <<now, rows, event, lock, paid, occurred, quiet, late, missed, service>> /\ up # "down"
        /\ timer' \in [Ids -> Nat \cup {None}] /\ task' \in [Everyone -> TaskRow]
        /\ i \notin loading /\ \A j \in Ids \ {i} : timer'[j] = timer[j]
    BY <1>0, <1>2, DueCall DEF lapses
  <2>2. i \in Everyone /\ i \in Tasks /\ i # Buyer /\ i \notin Edits
    BY People
  <2>3. CASE task' = task
    <3>1. Alone(i)
      BY <2>3 DEF Alone
    <3>2. task[i].pc \in Firing \cup {"idle", "fire", "reread", "write"} /\ (task[i].pc # "idle" => task[i].at = i)
      BY <1>0 DEF SchedulesShape, Labelled
    <3>. QED  BY <1>0, <2>1, <2>2, <2>3, <3>1, <3>2, ShapeBy
  <2>4. CASE task' # task
    <3>1. /\ Alone(i) /\ task'[i].pc = "fire" /\ task'[i].at = i /\ ~TaskBusy(i)
      BY <1>0, <1>2, <2>4, DueCall
    <3>2. task[i].pc \notin Firing /\ task'[i].pc \notin Firing
      BY <3>1 DEF TaskBusy, Firing
    <3>. QED  BY <1>0, <2>1, <2>2, <3>1, <3>2, ShapeBy
  <2>. QED  BY <2>3, <2>4
<1>3. ASSUME NEW i \in Ids, Write(i) PROVE SchedulesShape'
  <2>1. /\ UNCHANGED <<now, event, lock, paid, occurred, quiet, service>> /\ task[i].pc = "write"
        /\ late' \in {late, late \ {i}} /\ missed' = missed \ {i}
        /\ task' \in [Everyone -> TaskRow] /\ Alone(i) /\ task'[i].pc = "idle"
        /\ rows' = Advanced(i, task[i].next) /\ task[i].next \in Nat
        /\ timer' \in [Ids -> Nat \cup {None}] /\ \A j \in Ids \ {i} : timer'[j] = timer[j]
    BY <1>0, <1>3, WriteCall
  <2>2. i \in Everyone /\ i # Buyer /\ i \notin Edits
    BY People
  <2>3. TaskBusy(i) /\ task[i].pc \notin Firing /\ task'[i].pc \notin Firing
    BY <2>1 DEF TaskBusy, Firing
  <2>4. rows' \in [Ids -> AnyRow] /\ \A j \in Ids \ {i} : rows'[j] = rows[j]
    BY <1>0, <2>1, Rewriting
  <2>5. up # "down" /\ i \notin loading
    BY <1>0, <2>3
  <2>6. \A j \in loading : rows'[j].active = rows[j].active /\ timer'[j] = timer[j]
    BY <1>0, <2>1, <2>4, <2>5
  <2>. QED  BY <1>0, <2>1, <2>2, <2>3, <2>4, <2>5, <2>6, ShapeBy
<1>4. ASSUME NEW i \in Ids, LoadOne(i) PROVE SchedulesShape'
  <2>1. /\ UNCHANGED <<now, event, lock, task, paid, occurred, quiet, late, missed, up, restarts>>
        /\ up = "loading" /\ i \in loading /\ loading' = loading \ {i}
        /\ \/ UNCHANGED <<rows, timer>>
           \/ \E n \in Nat : timer' = [timer EXCEPT ![i] = n] /\ (rows' = rows \/ rows' = Advanced(i, n))
    BY <1>0, <1>4, LoadCall DEF lapses
  <2>2. /\ timer' \in [Ids -> Nat \cup {None}] /\ \A j \in Ids \ {i} : timer'[j] = timer[j]
        /\ rows' \in [Ids -> AnyRow] /\ \A j \in Ids \ {i} : rows'[j] = rows[j]
    BY <1>0, <2>1, Rewriting
  <2>3. SchedulesType'
    <3>1. task' \in [Tasks \cup {Buyer} -> [pc : TaskLabels, at : Ids \cup {Nobody}, since : Nat, next : Nat]]
      BY <1>0, <2>1 DEF Everyone, TaskRow
    <3>2. rows' \in [Ids -> AnyRow]
      BY <2>2 DEF AnyRow
    <3>. QED  BY <1>0, <2>1, <2>2, <3>1, <3>2 DEF SchedulesShape, SchedulesType, AnyRow
  <2>4. Labelled'
    BY <1>0, <2>1 DEF SchedulesShape, Labelled
  <2>5. Serviced'
    BY <1>0, <2>1, <2>2 DEF SchedulesShape, Serviced, TaskBusy
  <2>. QED  BY <2>3, <2>4, <2>5 DEF SchedulesShape
<1>5. ASSUME NEW p \in Tasks, Fires(p) PROVE SchedulesShape'
  <2>0. p \in Everyone /\ p # Buyer
    BY People
  <2>1. /\ UNCHANGED <<now, rows, timer, quiet, late, service>> /\ task' \in [Everyone -> TaskRow] /\ Alone(p)
        /\ missed' \subseteq Ids
        /\ event' \in BOOLEAN /\ paid' \in {"none", "on", "refunded", "lost_early", "lost_late"}
        /\ \/ lock = Nobody /\ lock' = p /\ task'[p].pc \in Firing
           \/ lock' = lock /\ (task[p].pc \in Firing <=> task'[p].pc \in Firing)
           \/ lock' = Nobody /\ task[p].pc \in Firing /\ task'[p].pc \notin Firing
    BY <1>0, <1>5, FireCall, FireLock
  <2>2. occurred' \in [Ids -> SUBSET Nat]
    <3>1. task[p].since \in Nat
      BY <1>0, <2>0, Typed
    <3>2. occurred' = occurred \/ (p \in Ids /\ occurred' = [occurred EXCEPT ![p] = @ \cup {task[p].since}])
      BY <1>0, <1>5, FireCall
    <3>. QED  BY <1>0, <3>1, <3>2
  <2>3. task[p].pc \in Firing \cup {"fire", "reread"} /\ TaskBusy(p)
    BY <1>0, <1>5, FireCall DEF TaskBusy, Firing
  <2>4. \/ p \notin Ids /\ task'[p].pc = "done"
        \/ p \in Ids /\ task'[p].pc = "idle"
        \/ /\ task'[p].pc \in Firing \cup {"reread", "write"} /\ task'[p].at = task[p].at
           /\ p \notin Ids => task'[p].pc \in Firing
    <3>1. \/ task'[p].pc = IF p \in Ids THEN "idle" ELSE "done"
          \/ /\ task'[p].at = task[p].at
             /\ \/ task'[p].pc \in {"list", "clear", "load", "mark"}
                \/ p \in Ids /\ task'[p].pc \in {"reread", "write"}
      BY <1>0, <1>5, FireCall
    <3>. QED  BY <3>1 DEF Firing
  <2>5. p \in Ids => /\ task'[p].pc \in Firing \cup {"idle", "fire", "reread", "write"}
                     /\ task'[p].pc # "idle" => task'[p].at = p
                     /\ up # "down" /\ p \notin loading
    BY <1>0, <2>3, <2>4 DEF SchedulesShape, Labelled, TaskBusy
  <2>6. p \in Edits => /\ task'[p].pc \in Rowed \cup {"idle", "unlock", "done"}
                       /\ task'[p].pc \in Rowed => task'[p].at \in Ids
    <3>1. p \in Edits => p \notin Ids /\ task[p].pc \in Rowed /\ task[p].at \in Ids
      BY <1>0, <2>3, People DEF SchedulesShape, Labelled, Rowed
    <3>2. "done" \notin Rowed /\ Firing \subseteq Rowed
      BY DEF Rowed, Firing
    <3>. QED  BY <2>4, <3>1, <3>2
  <2>7. p \notin Ids /\ up # "up" => task'[p].pc \in {"idle", "done"}
    BY <1>0, <2>3 DEF SchedulesShape, Serviced, Tasks
  <2>. QED  BY <1>0, <2>0, <2>1, <2>2, <2>5, <2>6, <2>7, ShapeBy
<1>6. ASSUME NEW e \in Edits, NEW i \in Ids, NEW t \in 0 .. Horizon, NEW k \in Rules, CreateSchedule(e, i, t, k) PROVE SchedulesShape'
  <2>0. Created(e, i, t)
    BY <1>0, <1>6, CreateCall
  <2>1. /\ UNCHANGED <<now, event, lock, paid, occurred, missed, service>> /\ late' \in {late, late \cup {i}} /\ up = "up" /\ task[e].pc = "idle" /\ quiet' = FALSE
        /\ task' \in [Everyone -> TaskRow] /\ Alone(e) /\ task'[e].pc = "done"
        /\ rows' \in [Ids -> AnyRow] /\ timer' \in [Ids -> Nat \cup {None}]
    BY <2>0 DEF Created
  <2>2. task[e].pc \notin Firing /\ task'[e].pc \notin Firing /\ task'[e].pc \notin Rowed
    BY <2>1 DEF Firing, Rowed
  <2>3. e \in Everyone /\ e \notin Ids /\ e # Buyer
    BY People
  <2>. QED  BY <1>0, <2>1, <2>2, <2>3, ShapeBy
<1>7. ASSUME NEW e \in Edits, Opens(e) PROVE SchedulesShape'
  <2>1. /\ UNCHANGED <<now, rows, lock, paid, occurred, late, missed, service>> /\ event' \in BOOLEAN
        /\ up = "up" /\ task[e].pc = "idle" /\ quiet' = FALSE
        /\ task' \in [Everyone -> TaskRow] /\ Alone(e)
        /\ task'[e].pc \in {"put", "delete", "fire", "unlock"}
        /\ task'[e].pc # "unlock" => task'[e].at \in Ids
        /\ timer' \in [Ids -> Nat \cup {None}]
    BY <1>0, <1>7, OpenCall DEF lapses
  <2>2. task[e].pc \notin Firing /\ task'[e].pc \notin Firing /\ task'[e].pc \in Rowed \cup {"unlock"} /\ "unlock" \notin Rowed
    BY <2>1 DEF Firing, Rowed
  <2>3. e \in Everyone /\ e \notin Ids /\ e # Buyer
    BY People
  <2>. QED  BY <1>0, <2>1, <2>2, <2>3, ShapeBy
<1>8. ASSUME NEW e \in Edits, (\E b \in Bodies : Put(e, b)) \/ Rearm(e) \/ Advance(e) \/ DeleteRow(e) \/ Unlocking(e)
      PROVE  SchedulesShape'
  <2>0. e \in Everyone /\ e \notin Ids /\ e # Buyer
    BY People
  <2>1. /\ UNCHANGED <<now, event, lock, paid, occurred, quiet, service>>
        /\ task[e].pc \in {"put", "rearm", "advance", "delete", "unlock"}
        /\ task' \in [Everyone -> TaskRow] /\ Alone(e) /\ task'[e].pc \in {"rearm", "advance", "done"}
        /\ task'[e].pc # "done" => task'[e].at \in Ids
        /\ rows' \in [Ids -> AnyRow] /\ timer' \in [Ids -> Nat \cup {None}]
        /\ late' \subseteq Ids /\ missed' \subseteq Ids
    <3>1. CASE \E b \in Bodies : Put(e, b)
      BY <1>0, <3>1, RowPut
    <3>2. CASE Rearm(e)
      BY <1>0, <3>2, RearmCall
    <3>3. CASE Advance(e)
      <4>1. /\ UNCHANGED <<now, event, lock, paid, occurred, quiet, missed, service>>
            /\ late' \in {late, late \cup {task[e].at}}
            /\ task[e].pc = "advance" /\ task[e].at \in Ids /\ task[e].next \in Nat
            /\ task' \in [Everyone -> TaskRow] /\ Alone(e) /\ task'[e].pc = "done"
            /\ rows' = Advanced(task[e].at, task[e].next)
            /\ timer' = IF task[e].next > now THEN [timer EXCEPT ![task[e].at] = task[e].next] ELSE timer
        BY <1>0, <3>3, AdvanceCall
      <4>2. rows' \in [Ids -> AnyRow]
        BY <1>0, <4>1, Rewriting
      <4>. QED  BY <1>0, <4>1, <4>2
    <3>4. CASE DeleteRow(e)
      BY <1>0, <3>4, DeleteRowCall DEF lapses
    <3>5. CASE Unlocking(e)
      BY <1>0, <3>5, UnlockingCall DEF lapses
    <3>. QED  BY <1>8, <3>1, <3>2, <3>3, <3>4, <3>5
  <2>2. up = "up"
    <3>1. TaskBusy(e)
      BY <2>1 DEF TaskBusy
    <3>. QED  BY <1>0, <3>1 DEF SchedulesShape, Serviced
  <2>3. task[e].pc \notin Firing /\ task'[e].pc \notin Firing /\ task'[e].pc \in Rowed \cup {"done"} /\ "done" \notin Rowed
    BY <2>1 DEF Firing, Rowed
  <2>. QED  BY <1>0, <2>0, <2>1, <2>2, <2>3, ShapeBy
<1>9. CASE Ask \/ AskAgain \/ Buy
  <2>1. /\ UNCHANGED <<now, rows, timer, event, lock, occurred, quiet, late, missed, service>>
        /\ task' \in [Everyone -> TaskRow] /\ Alone(Buyer)
        /\ paid' \in {paid, "on"} /\ task'[Buyer].pc \in {"done", "asked", "buying"}
        /\ task'[Buyer].pc \in {"asked", "buying"} => up = "up" \/ task[Buyer].pc \in {"asked", "buying"}
    BY <1>0, <1>9, BuyerCall DEF lapses
  <2>2. task[Buyer].pc \notin Firing /\ task'[Buyer].pc \notin Firing
    BY <1>0, <2>1 DEF SchedulesShape, Labelled, Firing
  <2>3. up # "up" => task'[Buyer].pc \in {"idle", "done"}
    BY <1>0, <2>1 DEF SchedulesShape, Serviced, TaskBusy
  <2>. QED  BY <1>0, <2>1, <2>2, <2>3, People, ShapeBy
<1>10. CASE Stop
  <2>1. /\ UNCHANGED <<now, rows, event, paid, occurred, quiet, late, missed, loading>> /\ up = "up" /\ up' = "down" /\ lock' = Nobody
        /\ restarts' \in 0 .. MaxRestarts
        /\ timer' \in [Ids -> Nat \cup {None}] /\ \A i \in Ids : timer'[i] = None
        /\ task' \in [Everyone -> TaskRow]
        /\ \A i \in Ids : task'[i].pc = "idle"
        /\ \A p \in Edits \cup {Buyer} : task'[p].pc \in {"idle", "done"}
    BY <1>0, <1>10, StopCall DEF lapses
  <2>2. SchedulesType'
    <3>1. task' \in [Tasks \cup {Buyer} -> [pc : TaskLabels, at : Ids \cup {Nobody}, since : Nat, next : Nat]]
      BY <2>1 DEF Everyone, TaskRow
    <3>2. \A p \in Tasks : lock' = p <=> task'[p].pc \in Firing
      BY <2>1, People DEF Tasks, Firing
    <3>. QED  BY <1>0, <2>1, <3>1, <3>2 DEF SchedulesShape, SchedulesType
  <2>3. Labelled'
    BY <2>1 DEF Labelled, Rowed, Firing
  <2>4. Serviced'
    BY <1>0, <2>1 DEF Serviced, TaskBusy
  <2>. QED  BY <2>2, <2>3, <2>4 DEF SchedulesShape
<1>11. CASE EventOver \/ Tick \/ Boot \/ Loaded
  <2>1. /\ UNCHANGED <<rows, timer, lock, task, paid, occurred, quiet, restarts>> /\ event' \in BOOLEAN
        /\ late' \subseteq Ids /\ missed' \subseteq Ids
        /\ now' = now \/ (now < MaxTime /\ now' = now + 1)
        /\ \/ UNCHANGED <<up, loading>>
           \/ up = "down" /\ up' = "loading" /\ loading' = {i \in Ids : rows[i].active}
           \/ up = "loading" /\ loading = {} /\ up' = "up" /\ loading' = loading
    <3>1. CASE EventOver
      BY <1>0, <3>1 DEF EventOver, service, lapses
    <3>2. CASE Tick
      BY <1>0, <3>2 DEF Tick, service, lapses
    <3>3. CASE Boot
      BY <1>0, <3>3 DEF Boot
    <3>4. CASE Loaded
      BY <1>0, <3>4 DEF Loaded, lapses
    <3>. QED  BY <1>11, <3>1, <3>2, <3>3, <3>4
  <2>2. now' \in 0 .. MaxTime
    <3>1. now \in 0 .. MaxTime
      BY <1>0 DEF SchedulesShape, SchedulesType
    <3>. QED  BY <2>1, <3>1, People
  <2>3. SchedulesType'
    BY <1>0, <2>1, <2>2 DEF SchedulesShape, SchedulesType
  <2>4. Labelled'
    BY <1>0, <2>1 DEF SchedulesShape, Labelled
  <2>5. Serviced'
    BY <1>0, <2>1 DEF SchedulesShape, Serviced, TaskBusy
  <2>. QED  BY <2>3, <2>4, <2>5 DEF SchedulesShape
<1>. QED  BY <1>1, <1>2, <1>3, <1>4, <1>5, <1>6, <1>7, <1>8, <1>9, <1>10, <1>11, Schedulings
-----------------------------------------------------------------------------
\* No task grows older than Longest.
LEMMA InTimeBy ==
  ASSUME SchedulesShape, InTime, NEW p \in Everyone, Alone(p), now' = now,
         \/ task'[p].pc \in {"idle", "done"}
         \/ task'[p].since = now
         \/ TaskBusy(p) /\ task'[p].since = task[p].since
  PROVE  InTime'
<1>1. now \in Nat /\ \A q \in Everyone : task[q].since \in Nat
  BY Typed
<1>2. \A q \in Everyone \ {p} : task'[q] = task[q]
  BY DEF Alone
<1>3. ASSUME NEW q \in Everyone, task'[q].pc \notin {"idle", "done"}
      PROVE  task'[q].since <= now /\ now <= task'[q].since + Longest
  BY <1>1, <1>2, <1>3, People DEF InTime, TaskBusy, Everyone
<1>. QED  BY <1>3 DEF InTime, TaskBusy, Everyone

LEMMA InTimeStep == SchedulesInv /\ [SchedulesNext]_scheduleVars => InTime'
<1>. SUFFICES ASSUME SchedulesInv, [SchedulesNext]_scheduleVars PROVE InTime'
  OBVIOUS
<1>0. SchedulesShape /\ InTime
  BY DEF SchedulesInv
<1>1. CASE UNCHANGED <<now, task>>
  BY <1>0, <1>1 DEF InTime, TaskBusy, In
<1>2. ASSUME NEW i \in Ids, Due(i) PROVE InTime'
  <2>1. /\ now' = now
        /\ task' = task \/ (Alone(i) /\ task'[i].pc = "fire" /\ task'[i].since = now)
    BY <1>0, <1>2, DueCall
  <2>. QED  BY <1>0, <1>1, <2>1, People, InTimeBy
<1>3. ASSUME NEW i \in Ids, Write(i) PROVE InTime'
  BY <1>0, <1>3, WriteCall, People, InTimeBy
<1>4. ASSUME NEW i \in Ids, LoadOne(i) PROVE InTime'
  BY <1>0, <1>1, <1>4, LoadCall
<1>5. ASSUME NEW p \in Tasks, Fires(p) PROVE InTime'
  <2>1. /\ now' = now /\ Alone(p) /\ task[p].pc \in Firing \cup {"fire", "reread"}
        /\ \/ task'[p].pc \in {"idle", "done"}
           \/ task'[p].since = task[p].since
    BY <1>0, <1>5, FireCall
  <2>2. TaskBusy(p)
    BY <2>1 DEF TaskBusy, Firing
  <2>. QED  BY <1>0, <2>1, <2>2, People, InTimeBy
<1>6. ASSUME NEW e \in Edits, NEW i \in Ids, NEW t \in 0 .. Horizon, NEW k \in Rules, CreateSchedule(e, i, t, k) PROVE InTime'
  <2>0. Created(e, i, t)
    BY <1>0, <1>6, CreateCall
  <2>1. now' = now /\ Alone(e) /\ task'[e].pc = "done"
    BY <2>0 DEF Created
  <2>. QED  BY <1>0, <2>1, People, InTimeBy
<1>7. ASSUME NEW e \in Edits, Opens(e) PROVE InTime'
  <2>1. now' = now /\ Alone(e) /\ task'[e].since = now
    BY <1>0, <1>7, OpenCall
  <2>. QED  BY <1>0, <2>1, People, InTimeBy
<1>8. ASSUME NEW e \in Edits, (\E b \in Bodies : Put(e, b)) \/ Rearm(e) \/ Advance(e) \/ DeleteRow(e) \/ Unlocking(e)
      PROVE  InTime'
  <2>1. /\ now' = now /\ Alone(e) /\ task[e].pc \in {"put", "rearm", "advance", "delete", "unlock"}
        /\ \/ task'[e].pc = "done"
           \/ task'[e].since = task[e].since
    BY <1>0, <1>8, RowPut, RearmCall, AdvanceCall, DeleteRowCall, UnlockingCall
  <2>2. TaskBusy(e)
    BY <2>1 DEF TaskBusy
  <2>. QED  BY <1>0, <2>1, <2>2, People, InTimeBy
<1>9. CASE Ask \/ AskAgain \/ Buy
  <2>1. /\ now' = now /\ Alone(Buyer)
        /\ \/ task'[Buyer].pc = "done"
           \/ task'[Buyer].since = now
           \/ task[Buyer].pc \in {"asked", "buying"} /\ task'[Buyer].since = task[Buyer].since
    BY <1>0, <1>9, BuyerCall
  <2>2. Buyer \notin Edits
    BY People
  <2>. QED  BY <1>0, <2>1, <2>2, People, InTimeBy DEF TaskBusy
<1>10. CASE Stop
  <2>1. \A p \in Everyone : task'[p].pc \in {"idle", "done"}
    BY <1>0, <1>10, StopCall DEF Everyone, Tasks
  <2>. QED  BY <2>1 DEF InTime, TaskBusy, In, Everyone, Tasks
<1>11. CASE EventOver \/ Boot \/ Loaded
  BY <1>1, <1>11 DEF EventOver, Boot, Loaded
<1>12. CASE Tick
  <2>1. /\ task' = task /\ now' = now + 1
        /\ \A p \in Tasks \cup {Buyer} : TaskBusy(p) => now < task[p].since + Longest
    BY <1>12 DEF Tick
  <2>2. now \in Nat /\ \A p \in Everyone : task[p].since \in Nat
    BY <1>0, Typed
  <2>3. ASSUME NEW p \in Everyone, TaskBusy(p) PROVE task[p].since <= now + 1 /\ now + 1 <= task[p].since + Longest
    BY <1>0, <2>1, <2>2, <2>3, People DEF InTime, Everyone
  <2>. QED  BY <2>1, <2>3 DEF InTime, TaskBusy, In, Everyone
<1>. QED  BY <1>1, <1>2, <1>3, <1>4, <1>5, <1>6, <1>7, <1>8, <1>9, <1>10, <1>11, <1>12, Schedulings DEF scheduleVars

\* A schedule stays late unless it has neither a job nor a fire.
StaysLate(i) == i \in late => i \in late' \/ (timer'[i] = None /\ ~TaskBusy(i))

LEMMA PastStill ==
  ASSUME SchedulesShape, NEW i \in Ids, PastOf(i), task'[i] = task[i] \/ task'[i].pc = "idle",
         rows'[i] = NoRow <=> rows[i] = NoRow, timer'[i] \in {timer[i], None}, occurred' = occurred,
         StaysLate(i), now' = now \/ now' = now + 1
  PROVE  PastOf(i)'
<1>1. now \in Nat /\ \A o \in occurred[i] : o \in Nat
  BY Typed DEF SchedulesShape, SchedulesType
<1>2. \A o \in occurred[i] : o <= now => o <= now'
  BY <1>1
<1>. QED  BY <1>2 DEF PastOf, TaskBusy, StaysLate

\* ... and for a job armed for a time to come.
LEMMA PastAhead ==
  ASSUME SchedulesShape, InTime, NEW i \in Ids, PastOf(i), task'[i] = task[i],
         rows'[i] # NoRow, NEW n \in Nat, n > now, timer'[i] = n, occurred' = occurred, now' = now,
         i \in late => i \in late' \/ ~TaskBusy(i)
  PROVE  PastOf(i)'
<1>1. now \in Nat /\ (\A o \in occurred[i] : o \in Nat) /\ task[i].since \in Nat
  BY Typed, People DEF SchedulesShape, SchedulesType
<1>2. TaskBusy(i) => task[i].since < n
  BY <1>1, People DEF InTime
<1>3. \A o \in occurred[i] : o <= now => o < n
  BY <1>1
<1>. QED  BY <1>2, <1>3 DEF PastOf, TaskBusy

LEMMA PastStep == SchedulesInv /\ [SchedulesNext]_scheduleVars => Past'
<1>. SUFFICES ASSUME SchedulesInv, [SchedulesNext]_scheduleVars PROVE Past'
  OBVIOUS
<1>0. /\ SchedulesShape /\ InTime /\ Past /\ Rewritten
      /\ (\A i \in Ids : PastOf(i)) /\ \A e \in Edits : task[e].pc \in Rowed => rows[task[e].at] # NoRow
  BY DEF SchedulesInv, Past
<1>s. SchedulesShape
  BY <1>0
<1>. DEFINE Told == \A e \in Edits : task'[e].pc \in Rowed => rows'[task'[e].at] # NoRow
<1>a. ASSUME NEW p \in Everyone, Alone(p), \A i \in Ids : rows'[i] = NoRow => rows[i] = NoRow,
             p \in Edits /\ task'[p].pc \in Rowed => task'[p].at \in Ids /\ rows[task'[p].at] # NoRow
      PROVE  Told
  BY <1>0, <1>a, People DEF Alone, SchedulesShape, Labelled
<1>1. CASE UNCHANGED <<now, rows, timer, task, occurred, late>>
  <2>1. \A i \in Ids : PastOf(i)'
    BY <1>0, <1>1, PastStill DEF StaysLate
  <2>. QED  BY <1>0, <1>1, <2>1 DEF Past
<1>2. ASSUME NEW i \in Ids, Due(i) PROVE Past'
  <2>1. /\ UNCHANGED <<now, rows, occurred, late>> /\ timer[i] # None /\ timer'[i] = None /\ \A j \in Ids \ {i} : timer'[j] = timer[j]
        /\ \/ task' = task
           \/ timer[i] = now /\ Alone(i) /\ task'[i].pc = "fire" /\ task'[i].since = now
    BY <1>0, <1>2, DueCall DEF lapses
  <2>2. Told
    BY <1>0, <1>a, <2>1, People
  <2>3. ASSUME NEW j \in Ids \ {i} PROVE PastOf(j)'
    BY <1>0, <2>1, <2>3, PastStill, People DEF Alone, StaysLate
  <2>4. PastOf(i)'
    <3>1. CASE task' = task
      BY <1>0, <2>1, <3>1, PastStill DEF StaysLate
    <3>2. CASE timer[i] = now /\ task'[i].pc = "fire" /\ task'[i].since = now
      <4>1. \A o \in occurred[i] : (i \notin late => o < now) /\ o <= now
        BY <1>0, <2>1, <3>2 DEF PastOf
      <4>2. rows[i] # NoRow
        BY <1>0, <2>1 DEF PastOf
      <4>. QED  BY <2>1, <3>2, <4>1, <4>2 DEF PastOf
    <3>. QED  BY <2>1, <3>1, <3>2
  <2>. QED  BY <2>2, <2>3, <2>4 DEF Past
<1>3. ASSUME NEW i \in Ids, Write(i) PROVE Past'
  <2>1. /\ UNCHANGED <<now, occurred>> /\ task[i].pc = "write" /\ Alone(i) /\ task'[i].pc = "idle"
        /\ rows' = Advanced(i, task[i].next) /\ task[i].next \in Nat
        /\ timer'[i] = task[i].next /\ \A j \in Ids \ {i} : timer'[j] = timer[j]
        /\ late' = IF task[i].next > now THEN late \ {i} ELSE late
    BY <1>0, <1>3, WriteCall
  <2>2. \A j \in Ids : rows'[j] = NoRow <=> rows[j] = NoRow
    BY <1>0, <2>1, Rewriting
  <2>3. Told
    BY <1>0, <1>a, <2>1, <2>2, People
  <2>4. ASSUME NEW j \in Ids \ {i} PROVE PastOf(j)'
    BY <1>0, <2>1, <2>2, <2>4, PastStill, People DEF Alone, StaysLate
  <2>5. PastOf(i)'
    <3>1. task[i].since \in Nat /\ TaskBusy(i) /\ (\A o \in occurred[i] : o \in Nat)
      BY <1>0, <2>1, Typed, People DEF TaskBusy, SchedulesShape, SchedulesType
    <3>2. i \notin late => task[i].since < task[i].next
      BY <1>0, <2>1, <3>1, People DEF Rewritten, In
    <3>3. \A o \in occurred[i] : o <= task[i].since /\ o <= now
      BY <1>0, <3>1 DEF PastOf
    <3>4. ASSUME i \notin late' PROVE \A o \in occurred[i] : o < task[i].next
      <4>1. now \in Nat
        BY <1>s, Typed
      <4>2. CASE task[i].next > now
        BY <2>1, <3>1, <3>3, <4>1, <4>2
      <4>3. CASE ~(task[i].next > now)
        <5>1. i \notin late
          BY <2>1, <3>4, <4>3
        <5>. QED  BY <2>1, <3>1, <3>2, <3>3, <5>1
      <4>. QED  BY <4>2, <4>3
    <3>5. rows[i] # NoRow
      BY <1>0, <3>1 DEF PastOf
    <3>. QED  BY <2>1, <2>2, <3>3, <3>4, <3>5 DEF PastOf, TaskBusy
  <2>. QED  BY <2>3, <2>4, <2>5 DEF Past
<1>4. ASSUME NEW i \in Ids, LoadOne(i) PROVE Past'
  <2>1. /\ UNCHANGED <<now, task, occurred, late>> /\ Exists(rows[i])
        /\ \/ UNCHANGED <<rows, timer>>
           \/ \E n \in Nat : n > now /\ timer' = [timer EXCEPT ![i] = n] /\ (rows' = rows \/ rows' = Advanced(i, n))
    BY <1>0, <1>4, LoadCall DEF lapses
  <2>2. CASE UNCHANGED <<rows, timer>>
    BY <1>1, <2>1, <2>2
  <2>3. ASSUME NEW n \in Nat, n > now, timer' = [timer EXCEPT ![i] = n], rows' = rows \/ rows' = Advanced(i, n) PROVE Past'
    <3>1. timer'[i] = n /\ \A j \in Ids \ {i} : timer'[j] = timer[j]
      BY <1>0, <2>3, Typed
    <3>2. \A j \in Ids : rows'[j] = NoRow <=> rows[j] = NoRow
      BY <1>0, <2>3, Rewriting
    <3>3. rows'[i] # NoRow
      BY <1>0, <2>1, <3>2, Typed
    <3>4. PastOf(i)'
      BY <1>0, <2>1, <2>3, <3>1, <3>3, PastAhead
    <3>5. \A j \in Ids \ {i} : PastOf(j)'
      BY <1>0, <2>1, <3>1, <3>2, PastStill DEF StaysLate
    <3>6. Told
      BY <1>0, <2>1, <3>2 DEF SchedulesShape, Labelled
    <3>. QED  BY <3>4, <3>5, <3>6 DEF Past
  <2>. QED  BY <2>1, <2>2, <2>3
<1>5. ASSUME NEW p \in Tasks, Fires(p) PROVE Past'
  <2>1. /\ UNCHANGED <<now, rows, timer, late>> /\ Alone(p) /\ task[p].pc \in Firing \cup {"fire", "reread"}
        /\ \/ task'[p].pc \in {"idle", "done"} /\ occurred' = occurred
           \/ /\ task'[p].at = task[p].at /\ task'[p].since = task[p].since
              /\ task[p].pc = "load" /\ task'[p].pc = "mark"
              /\ \/ occurred' = occurred
                 \/ p \in Ids /\ occurred' = [occurred EXCEPT ![p] = @ \cup {task[p].since}]
           \/ /\ task'[p].at = task[p].at /\ task'[p].since = task[p].since /\ occurred' = occurred
              /\ task'[p].pc # "fire"
              /\ task'[p].pc \in {"list", "clear", "load"} => task[p].pc \in {"fire", "list", "clear"}
    BY <1>0, <1>5, FireCall
  <2>2. TaskBusy(p) /\ p \in Everyone /\ p # Buyer /\ \A i \in Ids : occurred'[i] = occurred[i] \/ i = p
    BY <1>0, <2>1, People DEF TaskBusy, Firing, SchedulesShape, SchedulesType
  <2>3. Told
    <3>1. p \in Edits /\ task'[p].pc \in Rowed => task'[p].at \in Ids /\ rows[task'[p].at] # NoRow
      <4>1. p \in Edits => task[p].pc \in Rowed /\ task[p].at \in Ids
        BY <1>0, <2>1, People DEF Rowed, SchedulesShape, Labelled
      <4>2. "idle" \notin Rowed /\ "done" \notin Rowed
        BY DEF Rowed, Firing
      <4>. QED  BY <1>0, <2>1, <4>1, <4>2
    <3>. QED  BY <1>a, <2>1, <2>2, <3>1
  <2>4. ASSUME NEW i \in Ids, i # p PROVE PastOf(i)'
    <3>1. task'[i] = task[i] /\ occurred'[i] = occurred[i] /\ UNCHANGED <<now, rows, timer, late>>
      BY <2>1, <2>2, <2>4, People DEF Alone
    <3>. QED  BY <1>0, <3>1 DEF PastOf, TaskBusy
  <2>5. ASSUME p \in Ids PROVE PastOf(p)'
    <3>1. /\ PastOf(p) /\ rows[p] # NoRow /\ task[p].since \in Nat /\ task[p].since <= now
          /\ timer[p] # None => task[p].since < timer[p]
          /\ occurred \in [Ids -> SUBSET Nat]
      BY <1>0, <2>2, <2>5, Typed, People DEF PastOf, InTime, SchedulesShape, SchedulesType
    <3>2. CASE occurred' = occurred
      <4>1. CASE task'[p].pc \in {"idle", "done"}
        BY <2>1, <3>1, <3>2, <4>1 DEF PastOf, TaskBusy
      <4>2. CASE /\ task'[p].since = task[p].since
                 /\ task'[p].pc # "fire"
                 /\ task'[p].pc \in {"list", "clear", "load"} => task[p].pc \in {"fire", "list", "clear"}
        <5>1. \A o \in occurred[p] :
                /\ o <= now /\ (timer[p] # None /\ p \notin late => o < timer[p]) /\ o <= task[p].since
                /\ task[p].pc \in {"fire", "list", "clear", "load"} /\ p \notin late => o < task[p].since
          BY <2>2, <3>1 DEF PastOf
        <5>2. task'[p].pc \in {"fire", "list", "clear", "load"} => task[p].pc \in {"fire", "list", "clear", "load"}
          BY <2>1, <4>2
        <5>3. timer'[p] = timer[p] /\ rows'[p] # NoRow /\ now' = now /\ late' = late
          BY <2>1, <3>1
        <5>. QED  BY <3>1, <3>2, <4>2, <5>1, <5>2, <5>3 DEF PastOf
      <4>. QED  BY <2>1, <4>1, <4>2
    <3>3. CASE /\ task'[p].since = task[p].since /\ task[p].pc = "load" /\ task'[p].pc = "mark"
               /\ occurred' = [occurred EXCEPT ![p] = @ \cup {task[p].since}]
      <4>1. occurred'[p] = occurred[p] \cup {task[p].since}
        BY <2>5, <3>1, <3>3
      <4>2. \A o \in occurred'[p] : /\ o <= now /\ (timer[p] # None /\ p \notin late => o < timer[p]) /\ o <= task[p].since
        <5>1. \A o \in occurred[p] : o <= now /\ (timer[p] # None /\ p \notin late => o < timer[p]) /\ o <= task[p].since
          BY <2>2, <3>1 DEF PastOf
        <5>2. task[p].since <= task[p].since
          BY <3>1
        <5>. QED  BY <3>1, <4>1, <5>1, <5>2
      <4>. QED  BY <2>1, <3>1, <3>3, <4>2 DEF PastOf, TaskBusy
    <3>. QED  BY <2>1, <3>2, <3>3
  <2>. QED  BY <2>3, <2>4, <2>5 DEF Past
<1>6. ASSUME NEW e \in Edits, NEW i \in Ids, NEW t \in 0 .. Horizon, NEW k \in Rules, CreateSchedule(e, i, t, k) PROVE Past'
  <2>0. Created(e, i, t)
    BY <1>s, <1>6, CreateCall
  <2>1. /\ UNCHANGED <<now, occurred>> /\ Alone(e) /\ task'[e].pc = "done" /\ late' \in {late, late \cup {i}}
        /\ rows[i] = NoRow /\ \A j \in Ids \ {i} : rows'[j] = rows[j]
        /\ Exists(rows'[i])
        /\ timer'[i] = t /\ t \in Nat /\ \A j \in Ids \ {i} : timer'[j] = timer[j]
    BY <2>0 DEF Created
  <2>2. rows'[i] # NoRow
    BY <2>1 DEF Exists, NoRow
  <2>3. \A j \in Ids : task'[j] = task[j]
    BY <2>1, People DEF Alone
  <2>4. Told
    <3>1. "done" \notin Rowed
      BY DEF Rowed, Firing
    <3>. QED  BY <1>a, <2>1, <2>2, <3>1, People
  <2>5. PastOf(i)'
    BY <1>0, <2>1, <2>2, <2>3 DEF PastOf, TaskBusy
  <2>6. \A j \in Ids \ {i} : PastOf(j)'
    BY <1>0, <2>1, <2>3, PastStill DEF StaysLate
  <2>. QED  BY <2>4, <2>5, <2>6 DEF Past
<1>7. ASSUME NEW e \in Edits, Opens(e) PROVE Past'
  <2>1. /\ UNCHANGED <<now, rows, occurred, late>> /\ Alone(e)
        /\ task'[e].pc \in {"put", "delete", "fire", "unlock"}
        /\ \A i \in Ids : timer'[i] \in {timer[i], None}
    BY <1>0, <1>7, OpenCall DEF lapses
  <2>2. task'[e].pc \in Rowed => task'[e].at \in Ids /\ rows[task'[e].at] # NoRow
    <3>1. CASE Unlock(e)
      <4>1. task' = [task EXCEPT ![e] = TaskAt("unlock", Nobody)]
        BY <3>1 DEF Unlock, BeginTask
      <4>2. task'[e].pc = "unlock" /\ "unlock" \notin Rowed
        BY <1>0, <4>1, Typed, People DEF TaskAt, Rowed, Firing
      <4>. QED  BY <4>2
    <3>2. ASSUME NEW i \in Ids, Update(e, i) \/ DeleteSchedule(e, i) \/ FireNow(e, i) PROVE task'[e].at = i /\ Exists(rows[i])
      <4>1. PICK label \in {"put", "delete", "fire"} : BeginTask(e, TaskAt(label, i)) /\ Exists(rows[i])
        BY <3>2 DEF Update, DeleteSchedule, FireNow
      <4>2. task' = [task EXCEPT ![e] = TaskAt(label, i)]
        BY <4>1 DEF BeginTask
      <4>. QED  BY <1>0, <4>1, <4>2, Typed, People DEF TaskAt
    <3>3. \A i \in Ids : Exists(rows[i]) => rows[i] # NoRow
      BY <1>0, Typed
    <3>. QED  BY <1>7, <3>1, <3>2, <3>3 DEF Opens
  <2>3. Told
    BY <1>a, <2>1, <2>2, People
  <2>4. ASSUME NEW i \in Ids PROVE PastOf(i)'
    BY <1>0, <2>1, PastStill, People DEF Alone, StaysLate
  <2>. QED  BY <2>3, <2>4 DEF Past
<1>8. ASSUME NEW e \in Edits, (\E b \in Bodies : Put(e, b)) \/ DeleteRow(e) \/ Unlocking(e) PROVE Past'
  <2>1. /\ UNCHANGED <<now, timer, occurred>> /\ Alone(e) /\ e \in Everyone /\ late \subseteq late'
        /\ task[e].pc \in {"put", "delete", "unlock"}
        /\ \/ task'[e].pc = "done"
           \/ task'[e].pc = "rearm" /\ task'[e].at = task[e].at /\ task[e].pc = "put"
        /\ \A i \in Ids : rows'[i] = NoRow <=> rows[i] = NoRow
    <3>1. CASE \E b \in Bodies : Put(e, b)
      BY <1>0, <3>1, RowPut, People
    <3>2. CASE Unlocking(e)
      <4>0. UNCHANGED <<now, timer, occurred, late>> /\ Alone(e) /\ task[e].pc = "unlock" /\ task'[e].pc = "done"
        BY <1>s, <3>2, UnlockingCall DEF lapses
      <4>1. \A i \in Ids : rows'[i] = NoRow <=> rows[i] = NoRow
        BY <1>s, <3>2, UnlockingCall
      <4>. QED  BY <4>0, <4>1, People
    <3>3. CASE DeleteRow(e)
      <4>1. rows[task[e].at] # NoRow
        BY <1>0, <3>3, DeleteRowCall DEF Rowed
      <4>. QED  BY <1>0, <3>3, <4>1, DeleteRowCall, People DEF lapses
    <3>. QED  BY <1>8, <3>1, <3>2, <3>3
  <2>2. Told
    <3>1. "done" \notin Rowed /\ "put" \in Rowed
      BY DEF Rowed, Firing
    <3>2. task[e].pc = "put" => task[e].at \in Ids
      BY <1>0, <3>1 DEF SchedulesShape, Labelled
    <3>. QED  BY <1>0, <1>a, <2>1, <3>1, <3>2
  <2>3. ASSUME NEW i \in Ids PROVE PastOf(i)'
    BY <1>0, <2>1, PastStill, People DEF Alone, StaysLate
  <2>. QED  BY <2>2, <2>3 DEF Past
<1>9. ASSUME NEW e \in Edits, Rearm(e) \/ Advance(e) PROVE Past'
  <2>0. PICK i \in Ids : e \in Everyone /\ i = task[e].at /\ task[e].pc \in {"rearm", "advance"}
    BY <1>0, <1>9, RearmCall, AdvanceCall, People
  <2>1. rows[i] # NoRow
    BY <1>0, <2>0 DEF Rowed
  <2>2. /\ UNCHANGED <<now, occurred>> /\ Alone(e)
        /\ task'[e].pc = "done" \/ (task'[e].pc = "advance" /\ task'[e].at = i)
        /\ \A j \in Ids : rows'[j] = NoRow <=> rows[j] = NoRow
        /\ \A j \in Ids \ {i} : timer'[j] = timer[j]
        /\ timer'[i] \in {timer[i], None} \/ \E n \in Nat : n > now /\ timer'[i] = n
        /\ \/ late \subseteq late'
           \/ late' = late \ {i} /\ ~TaskBusy(i) /\ (timer'[i] = None \/ timer'[i] > now)
    <3>1. CASE Rearm(e)
      <4>1. timer'[i] \in Nat \cup {None}
        BY <1>s, <2>0, <3>1, RearmCall
      <4>2. timer'[i] = None \/ timer'[i] > now
        BY <1>s, <2>0, <3>1, RearmCall
      <4>3. late' = late \/ (late' = late \ {i} /\ ~TaskBusy(i))
        BY <1>s, <2>0, <3>1, RearmCall
      <4>. QED  BY <1>s, <2>0, <3>1, <4>1, <4>2, <4>3, RearmCall
    <3>2. CASE Advance(e)
      <4>1. /\ UNCHANGED <<now, occurred>> /\ Alone(e) /\ task'[e].pc = "done" /\ task[e].pc = "advance"
            /\ task[e].next \in Nat /\ rows' = Advanced(i, task[e].next)
            /\ timer' = IF task[e].next > now THEN [timer EXCEPT ![i] = task[e].next] ELSE timer
            /\ late \subseteq late'
        BY <1>s, <2>0, <3>2, AdvanceCall
      <4>2. \A j \in Ids : rows'[j] = NoRow <=> rows[j] = NoRow
        BY <1>0, <2>0, <4>1, Rewriting
      <4>3. CASE task[e].next > now
        <5>1. timer'[i] = task[e].next /\ \A j \in Ids \ {i} : timer'[j] = timer[j]
          BY <1>0, <2>0, <4>1, <4>3, Typed
        <5>. QED  BY <4>1, <4>2, <4>3, <5>1
      <4>4. CASE ~(task[e].next > now)
        BY <4>1, <4>2, <4>4
      <4>. QED  BY <4>3, <4>4
    <3>. QED  BY <1>9, <3>1, <3>2
  <2>3. Told
    <3>1. "done" \notin Rowed
      BY DEF Rowed, Firing
    <3>. QED  BY <1>a, <2>0, <2>1, <2>2, <3>1
  <2>4. \A j \in Ids : task'[j] = task[j]
    BY <2>0, <2>2, People DEF Alone
  <2>5. PastOf(i)'
    <3>1. i \in late => i \in late' \/ (~TaskBusy(i) /\ (timer'[i] = None \/ timer'[i] > now))
      BY <2>2
    <3>2. ASSUME NEW n \in Nat, n > now, timer'[i] = n PROVE PastOf(i)'
      BY <1>0, <2>0, <2>1, <2>2, <2>4, <3>1, <3>2, PastAhead
    <3>3. CASE timer'[i] = None
      BY <1>0, <2>0, <2>2, <2>4, <3>1, <3>3, PastStill DEF StaysLate
    <3>4. CASE timer'[i] = timer[i] /\ ~(timer'[i] > now) /\ timer'[i] # None
      BY <1>0, <2>0, <2>2, <2>4, <3>1, <3>4, PastStill DEF StaysLate
    <3>. QED  BY <1>s, <2>2, <3>2, <3>3, <3>4, Typed
  <2>6. \A j \in Ids \ {i} : PastOf(j)'
    BY <1>0, <2>2, <2>4, PastStill DEF StaysLate
  <2>. QED  BY <2>3, <2>5, <2>6 DEF Past
<1>10. CASE Ask \/ AskAgain \/ Buy
  <2>1. /\ UNCHANGED <<now, rows, timer, occurred, late>> /\ Alone(Buyer)
    BY <1>0, <1>10, BuyerCall DEF lapses
  <2>2. Told
    BY <1>a, <2>1, People
  <2>3. ASSUME NEW i \in Ids PROVE PastOf(i)'
    BY <1>0, <2>1, PastStill, People DEF Alone, StaysLate
  <2>. QED  BY <2>2, <2>3 DEF Past
<1>11. CASE Stop
  <2>1. /\ UNCHANGED <<now, rows, occurred, late>> /\ \A i \in Ids : timer'[i] = None /\ task'[i].pc = "idle"
        /\ \A p \in Edits : task'[p].pc \in {"idle", "done"}
    BY <1>0, <1>11, StopCall DEF lapses
  <2>2. Told
    BY <2>1 DEF Rowed, Firing
  <2>3. ASSUME NEW i \in Ids PROVE PastOf(i)'
    BY <1>0, <2>1, PastStill DEF StaysLate
  <2>. QED  BY <2>2, <2>3 DEF Past
<1>12. CASE EventOver \/ Boot \/ Loaded \/ Tick
  <2>1. UNCHANGED <<rows, timer, task, occurred>> /\ (now' = now \/ now' = now + 1)
    BY <1>12 DEF EventOver, Boot, Loaded, Tick
  <2>2. ASSUME NEW i \in Ids PROVE StaysLate(i)
    <3>1. CASE Boot
      BY <1>s, <2>1, <3>1 DEF Boot, StaysLate, SchedulesShape, Serviced
    <3>2. CASE EventOver \/ Loaded \/ Tick
      BY <3>2 DEF EventOver, Loaded, Tick, lapses, StaysLate
    <3>. QED  BY <1>12, <3>1, <3>2
  <2>3. ASSUME NEW i \in Ids PROVE PastOf(i)'
    BY <1>0, <2>1, <2>2, PastStill
  <2>. QED  BY <1>0, <2>1, <2>3 DEF Past
<1>. QED  BY <1>1, <1>2, <1>3, <1>4, <1>5, <1>6, <1>7, <1>8, <1>9, <1>10, <1>11, <1>12, Schedulings DEF scheduleVars, lapses
-----------------------------------------------------------------------------
\* A fire finds its row's time at most Longest behind and writes a later one.
LEMMA NearStill ==
  ASSUME NEW i \in Ids, NearOf(i), StaysLate(i), rows'[i].fireAt = rows[i].fireAt, timer'[i] \in {timer[i], None},
         \/ task'[i] = task[i]
         \/ task'[i].pc = "idle"
         \/ TaskBusy(i) /\ task'[i].since = task[i].since,
         \A e \in Edits : Rearming(e, i) => task'[e] = task[e]
  PROVE  NearOf(i)'
BY DEF NearOf, Exists, Rearming, In, TaskBusy, StaysLate

LEMMA NearStep == SchedulesInv /\ [SchedulesNext]_scheduleVars => Near'
<1>. SUFFICES ASSUME SchedulesInv, [SchedulesNext]_scheduleVars PROVE Near'
  OBVIOUS
<1>0. /\ SchedulesShape /\ InTime /\ Past
      /\ (\A i \in Ids : NearOf(i))
  BY DEF SchedulesInv, Near
<1>s. SchedulesShape
  BY <1>0
<1>1. CASE UNCHANGED <<rows, timer, task>> /\ \A i \in Ids : StaysLate(i)
  BY <1>0, <1>1, NearStill DEF Near
<1>2. ASSUME NEW i \in Ids, Due(i) PROVE Near'
  <2>1. /\ UNCHANGED <<now, rows, late>> /\ timer[i] # None /\ timer'[i] = None /\ \A j \in Ids \ {i} : timer'[j] = timer[j]
        /\ \/ task' = task
           \/ timer[i] = now /\ Alone(i) /\ task'[i].pc = "fire" /\ task'[i].since = now
    BY <1>s, <1>2, DueCall DEF lapses
  <2>2. \A j \in Everyone \ {i} : task'[j] = task[j]
    BY <2>1 DEF Alone
  <2>3. ASSUME NEW j \in Ids \ {i} PROVE NearOf(j)'
    BY <1>0, <2>1, <2>2, <2>3, NearStill, People DEF StaysLate
  <2>4. NearOf(i)'
    <3>1. CASE task' = task
      BY <1>0, <2>1, <3>1, NearStill DEF StaysLate
    <3>2. CASE timer[i] = now /\ task'[i].since = now
      <4>1. ASSUME Exists(rows[i]), i \notin late PROVE now < rows[i].fireAt + Longest
        <5>1. rows[i].fireAt \in Nat /\ now \in Nat
          BY <1>s, <4>1, Typed
        <5>2. CASE rows[i].fireAt < now
          <6>1. PICK e \in Edits : Rearming(e, i) /\ task[e].since < rows[i].fireAt
            BY <1>0, <2>1, <3>2, <4>1, <5>2 DEF NearOf
          <6>2. now <= task[e].since + Longest /\ task[e].since \in Nat
            BY <1>0, <6>1, Typed, People DEF InTime, Rearming, In, TaskBusy
          <6>. QED  BY <5>1, <6>1, <6>2, People
        <5>. QED  BY <5>1, <5>2, People
      <4>. QED  BY <2>1, <3>2, <4>1 DEF NearOf
    <3>. QED  BY <2>1, <3>1, <3>2
  <2>. QED  BY <2>3, <2>4 DEF Near
<1>3. ASSUME NEW i \in Ids, Write(i) PROVE Near'
  <2>1. /\ Alone(i) /\ task'[i].pc = "idle"
        /\ rows' = Advanced(i, task[i].next) /\ task[i].next \in Nat
        /\ timer'[i] = task[i].next /\ \A j \in Ids \ {i} : timer'[j] = timer[j]
        /\ late' \in {late, late \ {i}}
    BY <1>s, <1>3, WriteCall
  <2>2. /\ \A j \in Ids \ {i} : rows'[j] = rows[j]
        /\ Exists(rows'[i]) => rows'[i].fireAt = task[i].next
        /\ rows' \in [Ids -> AnyRow]
    BY <1>s, <2>1, Rewriting
  <2>3. \A j \in Everyone \ {i} : task'[j] = task[j]
    BY <2>1 DEF Alone
  <2>4. ASSUME NEW j \in Ids \ {i} PROVE NearOf(j)'
    BY <1>0, <2>1, <2>2, <2>3, NearStill, People DEF StaysLate
  <2>5. NearOf(i)'
    BY <2>1, <2>2 DEF NearOf, TaskBusy
  <2>. QED  BY <2>4, <2>5 DEF Near
<1>4. ASSUME NEW i \in Ids, LoadOne(i) PROVE Near'
  <2>1. /\ task' = task /\ late' = late /\ ~TaskBusy(i) /\ Exists(rows[i])
        /\ \/ UNCHANGED <<rows, timer>>
           \/ \E n \in Nat : /\ timer' = [timer EXCEPT ![i] = n]
                             /\ (rows' = rows /\ n = rows[i].fireAt) \/ rows' = Advanced(i, n)
    BY <1>s, <1>4, LoadCall DEF lapses
  <2>2. ASSUME NEW n \in Nat, timer' = [timer EXCEPT ![i] = n],
               (rows' = rows /\ n = rows[i].fireAt) \/ rows' = Advanced(i, n)
        PROVE  Near'
    <3>1. timer'[i] = n /\ \A j \in Ids \ {i} : timer'[j] = timer[j]
      BY <1>s, <2>2, Typed
    <3>2. /\ \A j \in Ids \ {i} : rows'[j] = rows[j]
          /\ rows'[i].fireAt = n
      BY <1>s, <2>1, <2>2, Rewriting
    <3>3. NearOf(i)'
      BY <2>1, <3>1, <3>2 DEF NearOf, TaskBusy
    <3>4. \A j \in Ids \ {i} : NearOf(j)'
      BY <1>0, <2>1, <3>1, <3>2, NearStill DEF StaysLate
    <3>. QED  BY <3>3, <3>4 DEF Near
  <2>. QED  BY <1>1, <2>1, <2>2 DEF StaysLate
<1>5. ASSUME NEW p \in Tasks, Fires(p) PROVE Near'
  <2>1. /\ UNCHANGED <<rows, timer, late>> /\ Alone(p) /\ task[p].pc \in Firing \cup {"fire", "reread"}
        /\ task'[p].pc = (IF p \in Ids THEN "idle" ELSE "done") \/ task'[p].since = task[p].since
    BY <1>s, <1>5, FireCall
  <2>2. TaskBusy(p) /\ ~In(p, "rearm")
    BY <2>1 DEF TaskBusy, Firing, In
  <2>3. \A j \in Everyone \ {p} : task'[j] = task[j]
    BY <2>1 DEF Alone
  <2>4. ASSUME NEW i \in Ids PROVE NearOf(i)'
    <3>1. \A e \in Edits : Rearming(e, i) => task'[e] = task[e]
      BY <2>2, <2>3, People DEF Rearming
    <3>2. \/ task'[i] = task[i]
          \/ task'[i].pc = "idle"
          \/ TaskBusy(i) /\ task'[i].since = task[i].since
      BY <2>1, <2>2, <2>3, People
    <3>. QED  BY <1>0, <2>1, <3>1, <3>2, NearStill DEF StaysLate
  <2>. QED  BY <2>4 DEF Near
<1>6. ASSUME NEW e \in Edits, NEW i \in Ids, NEW t \in 0 .. Horizon, NEW k \in Rules, CreateSchedule(e, i, t, k) PROVE Near'
  <2>0. Created(e, i, t)
    BY <1>s, <1>6, CreateCall
  <2>1. /\ Alone(e) /\ task[e].pc = "idle" /\ late' \in {late, late \cup {i}}
        /\ rows[i] = NoRow /\ \A j \in Ids \ {i} : rows'[j] = rows[j]
        /\ rows'[i].fireAt = t /\ t \in Nat
        /\ timer'[i] = t /\ \A j \in Ids \ {i} : timer'[j] = timer[j]
    BY <2>0 DEF Created
  <2>2. (\A j \in Everyone \ {e} : task'[j] = task[j]) /\ ~In(e, "rearm")
    BY <2>1 DEF Alone, In
  <2>3. ~TaskBusy(i)
    BY <1>0, <2>1 DEF Past, PastOf
  <2>4. NearOf(i)'
    <3>1. ~TaskBusy(i)'
      BY <2>2, <2>3, People DEF TaskBusy
    <3>. QED  BY <2>1, <3>1 DEF NearOf
  <2>5. \A j \in Ids \ {i} : NearOf(j)'
    BY <1>0, <2>1, <2>2, NearStill, People DEF Rearming, StaysLate
  <2>. QED  BY <2>4, <2>5 DEF Near
<1>7. ASSUME NEW e \in Edits, Opens(e) PROVE Near'
  <2>1. /\ rows' = rows /\ late' = late /\ Alone(e) /\ task[e].pc = "idle"
        /\ \A i \in Ids : timer'[i] \in {timer[i], None}
    BY <1>s, <1>7, OpenCall DEF lapses
  <2>2. (\A j \in Everyone \ {e} : task'[j] = task[j]) /\ ~In(e, "rearm")
    BY <2>1 DEF Alone, In
  <2>. QED  BY <1>0, <2>1, <2>2, NearStill, People DEF Rearming, Near, StaysLate
<1>8. ASSUME NEW e \in Edits, NEW b \in Bodies, Put(e, b) PROVE Near'
  <2>1. PICK i \in Ids :
        /\ timer' = timer /\ task[e].pc = "put" /\ task[e].at = i /\ Alone(e) /\ task'[e].pc = "rearm"
        /\ task'[e].at = i /\ task'[e].since = task[e].since
        /\ rows' \in [Ids -> AnyRow] /\ \A j \in Ids \ {i} : rows'[j] = rows[j]
        /\ rows'[i].fireAt = rows[i].fireAt \/ rows'[i].fireAt > now \/ i \in late'
        /\ late' \in {late, late \cup {i}}
    BY <1>s, <1>8, RowPut
  <2>2. (\A j \in Everyone \ {e} : task'[j] = task[j]) /\ ~In(e, "rearm") /\ \A j \in Ids : task'[j] = task[j]
    BY <2>1, People DEF Alone, In
  <2>3. \A j \in Ids \ {i} : NearOf(j)'
    BY <1>0, <2>1, <2>2, NearStill, People DEF Rearming, StaysLate
  <2>4. NearOf(i)'
    <3>0. CASE i \in late'
      BY <3>0 DEF NearOf
    <3>1. CASE rows'[i].fireAt = rows[i].fireAt
      BY <1>0, <2>1, <2>2, <3>1, NearStill, People DEF Rearming, StaysLate
    <3>2. CASE rows'[i].fireAt > now
      <4>1. /\ task[e].since <= now
            /\ TaskBusy(i) => task[i].since <= now
            /\ now \in Nat /\ task[e].since \in Nat /\ task[i].since \in Nat
        <5>1. TaskBusy(e)
          BY <2>1 DEF TaskBusy
        <5>. QED  BY <1>0, <5>1, Typed, People DEF InTime
      <4>2. Exists(rows'[i]) => rows'[i].fireAt \in Nat
        BY <2>1 DEF AnyRow, SchedRow, Exists, NoRow, Deleted
      <4>3. Rearming(e, i)'
        BY <2>1 DEF Rearming, In
      <4>4. ASSUME Exists(rows'[i])
            PROVE  /\ task[e].since < rows'[i].fireAt
                   /\ TaskBusy(i) => task[i].since < rows'[i].fireAt + Longest
        BY <3>2, <4>1, <4>2, <4>4, People
      <4>5. TaskBusy(i)' <=> TaskBusy(i)
        BY <2>2 DEF TaskBusy
      <4>6. Exists(rows'[i]) /\ TaskBusy(i)' => task'[i].since < rows'[i].fireAt + Longest
        BY <2>2, <4>4, <4>5
      <4>. QED  BY <2>1, <4>3, <4>4, <4>6 DEF NearOf
    <3>. QED  BY <2>1, <3>0, <3>1, <3>2
  <2>. QED  BY <2>3, <2>4 DEF Near
<1>9. ASSUME NEW e \in Edits, Rearm(e) PROVE Near'
  <2>1. PICK i \in Ids :
        /\ rows' = rows /\ task[e].pc = "rearm" /\ task[e].at = i /\ Alone(e)
        /\ late' = IF TaskBusy(i) THEN late ELSE late \ {i}
        /\ timer'[i] \in {None, rows[i].fireAt} /\ \A j \in Ids \ {i} : timer'[j] = timer[j]
    BY <1>s, <1>9, RearmCall
  <2>2. (\A j \in Everyone \ {e} : task'[j] = task[j]) /\ (\A j \in Ids : task'[j] = task[j])
        /\ \A j \in Ids \ {i} : ~Rearming(e, j)
    BY <2>1, People DEF Alone, Rearming
  <2>3. \A j \in Ids \ {i} : NearOf(j)'
    BY <1>0, <2>1, <2>2, NearStill, People DEF Rearming, StaysLate
  <2>4. NearOf(i)'
    <3>1. NearOf(i) /\ rows[i].fireAt \in Nat \cup {None}
      BY <1>0, Typed
    <3>. QED  BY <2>1, <2>2, <3>1, People DEF NearOf, TaskBusy
  <2>. QED  BY <2>3, <2>4 DEF Near
<1>10. ASSUME NEW e \in Edits, Advance(e) PROVE Near'
  <2>1. PICK i \in Ids, n \in Nat :
        /\ now' = now /\ task[e].pc = "advance" /\ task[e].at = i /\ Alone(e) /\ task[e].next = n
        /\ rows' = Advanced(i, n)
        /\ timer' = IF n > now THEN [timer EXCEPT ![i] = n] ELSE timer
        /\ late' = IF n > now THEN late ELSE late \cup {i}
    BY <1>s, <1>10, AdvanceCall
  <2>2. /\ \A j \in Ids \ {i} : rows'[j] = rows[j]
        /\ Exists(rows'[i]) => rows'[i].fireAt = n
    BY <1>s, <2>1, Rewriting
  <2>3. TaskBusy(i) => task[i].since <= now
    BY <1>0, <2>1, People DEF InTime, In
  <2>5. (n > now => timer'[i] = n) /\ \A j \in Ids \ {i} : timer'[j] = timer[j]
    BY <1>s, <2>1, Typed
  <2>6. (\A j \in Everyone \ {e} : task'[j] = task[j]) /\ ~In(e, "rearm") /\ \A j \in Ids : task'[j] = task[j]
    BY <2>1, People DEF Alone, In
  <2>7. \A j \in Ids \ {i} : NearOf(j)'
    BY <1>0, <2>1, <2>2, <2>5, <2>6, NearStill, People DEF Rearming, StaysLate
  <2>8. NearOf(i)'
    <3>1. now \in Nat /\ task[i].since \in Nat
      BY <1>s, Typed, People
    <3>2. CASE n > now
      <4>1. TaskBusy(i) => task[i].since < n + Longest
        BY <2>3, <3>1, <3>2, People
      <4>. QED  BY <2>2, <2>5, <2>6, <3>2, <4>1 DEF NearOf, TaskBusy
    <3>3. CASE ~(n > now)
      BY <2>1, <3>3 DEF NearOf
    <3>. QED  BY <3>2, <3>3
  <2>. QED  BY <2>7, <2>8 DEF Near
<1>11. ASSUME NEW e \in Edits, DeleteRow(e) \/ Unlocking(e) PROVE Near'
  <2>1. /\ timer' = timer /\ late' = late /\ task[e].pc \in {"delete", "unlock"} /\ Alone(e)
        /\ \A j \in Ids : rows'[j].fireAt = rows[j].fireAt \/ ~Exists(rows'[j])
    <3>1. CASE DeleteRow(e)
      BY <1>s, <3>1, DeleteRowCall DEF lapses
    <3>2. CASE Unlocking(e)
      BY <1>s, <3>2, UnlockingCall DEF lapses
    <3>. QED  BY <1>11, <3>1, <3>2
  <2>2. (\A j \in Everyone \ {e} : task'[j] = task[j]) /\ ~In(e, "rearm") /\ \A j \in Ids : task'[j] = task[j]
    BY <2>1, People DEF Alone, In
  <2>3. ASSUME NEW i \in Ids PROVE NearOf(i)'
    <3>1. CASE ~Exists(rows'[i])
      BY <3>1 DEF NearOf
    <3>2. CASE rows'[i].fireAt = rows[i].fireAt
      BY <1>0, <2>1, <2>2, <3>2, NearStill, People DEF Rearming, StaysLate
    <3>. QED  BY <2>1, <3>1, <3>2
  <2>. QED  BY <2>3 DEF Near
<1>12. CASE Ask \/ AskAgain \/ Buy
  <2>1. UNCHANGED <<rows, timer, late>> /\ Alone(Buyer)
    BY <1>s, <1>12, BuyerCall DEF lapses
  <2>2. \A j \in Tasks : task'[j] = task[j]
    BY <2>1, People DEF Alone
  <2>. QED  BY <1>0, <2>1, <2>2, NearStill, People DEF Near, StaysLate
<1>13. CASE Stop
  <2>1. \A i \in Ids : timer'[i] = None /\ task'[i].pc = "idle"
    BY <1>s, <1>13, StopCall
  <2>. QED  BY <2>1 DEF Near, NearOf, TaskBusy
<1>14. CASE EventOver \/ Loaded \/ Tick
  BY <1>1, <1>14 DEF EventOver, Loaded, Tick, lapses, StaysLate
<1>15. CASE Boot
  <2>1. \A i \in Ids : StaysLate(i)
    BY <1>s, <1>15 DEF Boot, StaysLate, SchedulesShape, Serviced
  <2>. QED  BY <1>1, <1>15, <2>1 DEF Boot
<1>16. CASE UNCHANGED scheduleVars
  BY <1>1, <1>16 DEF scheduleVars, lapses, StaysLate
<1>. QED  BY <1>1, <1>2, <1>3, <1>4, <1>5, <1>6, <1>7, <1>8, <1>9, <1>10, <1>11, <1>12, <1>13, <1>14, <1>15, <1>16, Schedulings
-----------------------------------------------------------------------------
\* A task comes to write a time only by reading its row.
LEMMA ToWrite ==
  ASSUME SchedulesShape, [SchedulesNext]_scheduleVars, NEW i \in Ids, task'[i].pc = "write"
  PROVE  \/ task'[i] = task[i] /\ (i \in late => i \in late')
         \/ /\ task[i].pc = "reread" /\ rows[i].active /\ UNCHANGED <<now, rows, timer, quiet, late, service>>
            /\ task'[i].next = rows[i].fireAt + Period /\ task'[i].since = task[i].since
<1>1. ASSUME NEW j \in Ids, Due(j) PROVE task'[i] = task[i] /\ late' = late
  <2>1. late' = late /\ (task' = task \/ (Alone(j) /\ task'[j].pc = "fire"))
    BY <1>1, DueCall DEF lapses
  <2>. QED  BY <2>1, People DEF Alone
<1>2. ASSUME NEW j \in Ids, Write(j) PROVE task'[i] = task[i] /\ (i \in late => i \in late')
  <2>1. Alone(j) /\ task'[j].pc = "idle" /\ late' \in {late, late \ {j}}
    BY <1>2, WriteCall
  <2>. QED  BY <2>1, People DEF Alone
<1>3. ASSUME NEW p \in Tasks, Fires(p), ~(task'[i] = task[i] /\ late' = late)
      PROVE  /\ task[i].pc = "reread" /\ rows[i].active /\ UNCHANGED <<now, rows, timer, quiet, late, service>>
             /\ task'[i].next = rows[i].fireAt + Period /\ task'[i].since = task[i].since
  <2>1. Alone(p) /\ late' = late
    BY <1>3, FireCall
  <2>2. p = i
    BY <1>3, <2>1, People DEF Alone
  <2>. QED  BY <1>3, <2>2, FireCall
<1>4. ASSUME NEW e \in Edits,
             \/ \E j \in Ids, t \in 0 .. Horizon, k \in Rules : CreateSchedule(e, j, t, k)
             \/ \E b \in Bodies : Put(e, b)
             \/ Opens(e) \/ Rearm(e) \/ Advance(e) \/ DeleteRow(e) \/ Unlocking(e)
      PROVE  task'[i] = task[i] /\ (i \in late => i \in late')
  <2>1. Alone(e)
    BY <1>4, CreateCall, RowPut, OpenCall, RearmCall, AdvanceCall, DeleteRowCall, UnlockingCall DEF Created
  <2>2. task'[i] = task[i]
    BY <2>1, People DEF Alone
  <2>3. TaskBusy(i)
    BY <2>2 DEF TaskBusy
  <2>4. \/ late \subseteq late'
        \/ \E j \in Ids : ~TaskBusy(j) /\ late' = late \ {j}
    <3>1. CASE Rearm(e)
      BY <3>1, RearmCall
    <3>2. CASE \/ \E j \in Ids, t \in 0 .. Horizon, k \in Rules : CreateSchedule(e, j, t, k)
               \/ \E b \in Bodies : Put(e, b)
               \/ Advance(e)
      BY <3>2, CreateCall, RowPut, AdvanceCall DEF Created
    <3>3. CASE Opens(e) \/ DeleteRow(e) \/ Unlocking(e)
      BY <3>3, OpenCall, DeleteRowCall, UnlockingCall DEF lapses
    <3>. QED  BY <1>4, <3>1, <3>2, <3>3
  <2>. QED  BY <2>2, <2>3, <2>4
<1>5. CASE Ask \/ AskAgain \/ Buy
  <2>1. Alone(Buyer) /\ late' = late
    BY <1>5, BuyerCall DEF lapses
  <2>. QED  BY <2>1, People DEF Alone
<1>6. CASE Stop
  BY <1>6, StopCall
<1>7. CASE EventOver \/ Loaded \/ Tick \/ UNCHANGED scheduleVars
  BY <1>7 DEF EventOver, Loaded, Tick, scheduleVars, lapses
<1>8. ASSUME NEW j \in Ids, LoadOne(j) PROVE task'[i] = task[i] /\ late' = late
  BY <1>8, LoadCall DEF lapses
<1>9. CASE Boot
  BY <1>9 DEF Boot, SchedulesShape, Serviced, TaskBusy
<1>. QED  BY <1>1, <1>2, <1>3, <1>4, <1>5, <1>6, <1>7, <1>8, <1>9, Schedulings

\* A fire writes a time that is close to a period after its own.
LEMMA RewrittenStep == SchedulesInv /\ [SchedulesNext]_scheduleVars => Rewritten'
<1>. SUFFICES ASSUME SchedulesInv, [SchedulesNext]_scheduleVars, NEW i \in Ids, task'[i].pc = "write", i \notin late'
              PROVE  task'[i].next + Longest > task'[i].since + Period
  BY DEF Rewritten, In
<1>0. SchedulesShape /\ NearOf(i) /\ Rewritten
  BY DEF SchedulesInv, Near
<1>1. CASE task'[i] = task[i] /\ (i \in late => i \in late')
  BY <1>0, <1>1 DEF Rewritten, In
<1>2. CASE /\ task[i].pc = "reread" /\ rows[i].active /\ late' = late
           /\ task'[i].next = rows[i].fireAt + Period /\ task'[i].since = task[i].since
  <2>1. Exists(rows[i]) /\ rows[i].fireAt \in Nat /\ task[i].since \in Nat
    BY <1>0, <1>2, Typed, People
  <2>2. task[i].since < rows[i].fireAt + Longest
    BY <1>0, <1>2, <2>1 DEF NearOf, TaskBusy
  <2>. QED  BY <1>2, <2>1, <2>2, People
<1>. QED  BY <1>0, <1>1, <1>2, ToWrite
-----------------------------------------------------------------------------
\* A row with a time to come has its job, and a recurring one that is on has
\* one.
LEMMA ArmedStill ==
  ASSUME NEW i \in Ids, ArmedOf(i), rows'[i].fireAt = rows[i].fireAt, rows'[i].rule = rows[i].rule,
         rows'[i].active => rows[i].active, i \in late => i \in late', i \in missed => i \in missed',
         timer'[i] = timer[i], now' = now, up' # "down" => up # "down", i \in loading => i \in loading',
         TaskBusy(i) => TaskBusy(i)', \A e \in Edits : Editing(e, i) => task'[e] = task[e]
  PROVE  ArmedOf(i)'
<1>1. Edited(i) => Edited(i)'
  BY DEF Edited, Editing
<1>2. Comes(rows'[i], now') <=> Comes(rows[i], now)
  BY DEF Comes, Reaches, NextAfter
<1>. QED  BY <1>1, <1>2 DEF ArmedOf

\* A job that is armed for its row's time, one to come.
LEMMA ArmedAnew ==
  ASSUME SchedulesShape, NEW i \in Ids, timer'[i] \in Nat, rows'[i].active => timer'[i] = rows'[i].fireAt,
         Ample /\ i \notin late' => timer'[i] >= now'
  PROVE  ArmedOf(i)'
<1>1. timer'[i] # None
  BY DEF None
<1>. QED  BY <1>1 DEF ArmedOf

LEMMA ArmedStep == SchedulesInv /\ [SchedulesNext]_scheduleVars => Armed'
<1>. SUFFICES ASSUME SchedulesInv, [SchedulesNext]_scheduleVars PROVE Armed'
  OBVIOUS
<1>0. /\ SchedulesShape /\ InTime /\ Rewritten
      /\ \A i \in Ids : ArmedOf(i)
  BY DEF SchedulesInv, Armed
<1>s. SchedulesShape
  BY <1>0
<1>1. ASSUME UNCHANGED <<now, rows, timer, up, loading, late>>, missed \subseteq missed', NEW p \in Everyone, Alone(p),
             p \in Ids => TaskBusy(p)', p \in Edits => ~Editing(p, task[p].at)
      PROVE Armed'
  <2>1. \A q \in Everyone \ {p} : task'[q] = task[q]
    BY <1>1 DEF Alone
  <2>2. ASSUME NEW i \in Ids PROVE ArmedOf(i)'
    <3>1. TaskBusy(i) => TaskBusy(i)'
      BY <1>1, <2>1, People DEF TaskBusy
    <3>2. \A e \in Edits : Editing(e, i) => task'[e] = task[e]
      BY <1>1, <2>1, People DEF Editing
    <3>. QED  BY <1>0, <1>1, <3>1, <3>2, ArmedStill
  <2>. QED  BY <2>2 DEF Armed
<1>2. ASSUME NEW i \in Ids, Due(i) PROVE Armed'
  <2>1. /\ UNCHANGED <<now, rows, up, loading, late, missed>> /\ timer[i] # None /\ timer[i] <= now
        /\ timer'[i] = None /\ \A j \in Ids \ {i} : timer'[j] = timer[j]
        /\ \/ task' = task /\ (TaskBusy(i) \/ timer[i] < now)
           \/ Alone(i) /\ task'[i].pc = "fire"
    BY <1>s, <1>2, DueCall DEF service, lapses
  <2>2. \A j \in Everyone \ {i} : task'[j] = task[j]
    BY <2>1 DEF Alone
  <2>3. ASSUME NEW j \in Ids \ {i} PROVE ArmedOf(j)'
    <3>1. task'[j] = task[j] /\ \A e \in Edits : task'[e] = task[e]
      BY <2>2, People
    <3>. QED  BY <1>0, <2>1, <3>1, ArmedStill DEF TaskBusy
  <2>4. ArmedOf(i)'
    <3>1. Edited(i)' <=> Edited(i)
      BY <2>2, People DEF Edited, Editing
    <3>2. i \notin loading /\ up # "down" /\ rows[i].active /\ ~Edited(i) => ~(rows[i].fireAt > now)
      <4>1. timer[i] \in Nat /\ now \in Nat
        BY <1>s, <2>1, Typed
      <4>. QED  BY <1>0, <2>1, <4>1 DEF ArmedOf
    <3>3. Ample /\ i \notin late => TaskBusy(i)'
      <4>1. timer[i] \in Nat /\ now \in Nat
        BY <1>s, <2>1, Typed
      <4>2. Ample /\ i \notin late => timer[i] >= now
        BY <1>0, <2>1 DEF ArmedOf
      <4>3. Ample /\ i \notin late => ~(timer[i] < now)
        BY <4>1, <4>2
      <4>. QED  BY <2>1, <4>3 DEF TaskBusy
    <3>. QED  BY <2>1, <3>1, <3>2, <3>3 DEF ArmedOf
  <2>. QED  BY <2>3, <2>4 DEF Armed
<1>3. ASSUME NEW i \in Ids, Write(i) PROVE Armed'
  <2>1. /\ UNCHANGED <<now, up, loading>> /\ task[i].pc = "write" /\ Alone(i)
        /\ rows' = Advanced(i, task[i].next) /\ task[i].next \in Nat
        /\ timer'[i] = task[i].next /\ \A j \in Ids \ {i} : timer'[j] = timer[j]
        /\ late' = (IF task[i].next > now THEN late \ {i} ELSE late) /\ missed' = missed \ {i}
    BY <1>s, <1>3, WriteCall DEF service
  <2>2. /\ \A j \in Ids \ {i} : rows'[j] = rows[j]
        /\ rows'[i].active => rows'[i].fireAt = task[i].next
    BY <1>s, <2>1, Rewriting, Typed
  <2>3. ASSUME NEW j \in Ids \ {i} PROVE ArmedOf(j)'
    <3>1. task'[j] = task[j] /\ \A e \in Edits : task'[e] = task[e]
      BY <2>1, People DEF Alone
    <3>. QED  BY <1>0, <2>1, <2>2, <3>1, ArmedStill DEF TaskBusy
  <2>4. ASSUME Ample, i \notin late', ~(task[i].next > now) PROVE task[i].next >= now
    <3>0. i \notin late
      BY <2>1, <2>4
    <3>1. now <= task[i].since + Longest
      BY <1>0, <2>1 DEF InTime, TaskBusy, Tasks
    <3>2. task[i].next + Longest > task[i].since + Period
      BY <1>0, <2>1, <3>0 DEF Rewritten, In
    <3>3. now \in Nat /\ task[i].since \in Nat
      BY <1>s, Typed, People
    <3>. QED  BY <2>1, <2>4, <3>1, <3>2, <3>3, People DEF Ample
  <2>5. Ample /\ i \notin late' => timer'[i] >= now'
    <3>1. now \in Nat
      BY <1>s, Typed
    <3>. QED  BY <2>1, <2>4, <3>1
  <2>6. ArmedOf(i)'
    BY <1>s, <2>1, <2>2, <2>5, ArmedAnew
  <2>. QED  BY <2>3, <2>6 DEF Armed
<1>4. ASSUME NEW i \in Ids, LoadOne(i) PROVE Armed'
  <2>1. /\ UNCHANGED <<now, task, up, late, missed>> /\ loading' = loading \ {i} /\ Exists(rows[i]) /\ rows[i].fireAt \in Nat
        /\ \/ UNCHANGED <<rows, timer>> /\ rows[i].fireAt <= now /\ ~Comes(rows[i], now)
           \/ \E n \in Nat : /\ n > now /\ timer' = [timer EXCEPT ![i] = n]
                             /\ (rows' = rows /\ n = rows[i].fireAt) \/ rows' = Advanced(i, n)
    BY <1>s, <1>4, LoadCall DEF lapses
  <2>2. CASE UNCHANGED <<rows, timer>> /\ rows[i].fireAt <= now /\ ~Comes(rows[i], now)
    <3>1. ArmedOf(i)'
      BY <1>0, <1>s, <2>1, <2>2, Typed DEF ArmedOf
    <3>2. \A j \in Ids \ {i} : ArmedOf(j)'
      BY <1>0, <2>1, <2>2, ArmedStill DEF TaskBusy
    <3>. QED  BY <3>1, <3>2 DEF Armed
  <2>3. ASSUME NEW n \in Nat, n > now, timer' = [timer EXCEPT ![i] = n],
               (rows' = rows /\ n = rows[i].fireAt) \/ rows' = Advanced(i, n)
        PROVE  Armed'
    <3>1. timer'[i] = n /\ \A j \in Ids \ {i} : timer'[j] = timer[j]
      BY <1>s, <2>3, Typed
    <3>2. rows'[i].fireAt = n /\ \A j \in Ids \ {i} : rows'[j] = rows[j]
      BY <1>s, <2>1, <2>3, Rewriting
    <3>3. n >= now
      BY <1>s, <2>3, Typed
    <3>4. ArmedOf(i)'
      BY <1>s, <2>1, <3>1, <3>2, <3>3, ArmedAnew
    <3>5. \A j \in Ids \ {i} : ArmedOf(j)'
      BY <1>0, <2>1, <3>1, <3>2, ArmedStill DEF TaskBusy
    <3>. QED  BY <3>4, <3>5 DEF Armed
  <2>. QED  BY <2>1, <2>2, <2>3
<1>5. ASSUME NEW p \in Tasks, Fires(p) PROVE Armed'
  <2>1. /\ UNCHANGED <<now, rows, timer, up, loading, late>> /\ missed \subseteq missed' /\ Alone(p)
        /\ task[p].pc \in Firing \cup {"fire", "reread"}
        /\ \/ /\ task'[p].pc = IF p \in Ids THEN "idle" ELSE "done"
              /\ p \in Ids => ~rows[p].active \/ ~Comes(rows[p], rows[p].fireAt) \/ p \in missed'
           \/ TaskBusy(p)'
    BY <1>s, <1>5, FireCall DEF service, TaskBusy
  <2>2. CASE TaskBusy(p)' \/ p \in Edits
    BY <1>1, <2>1, <2>2, People DEF Editing, Firing
  <2>3. CASE p \in Ids /\ (~rows[p].active \/ ~Comes(rows[p], rows[p].fireAt) \/ p \in missed')
    <3>1. \A q \in Everyone \ {p} : task'[q] = task[q]
      BY <2>1 DEF Alone
    <3>2. \A e \in Edits : task'[e] = task[e]
      BY <2>3, <3>1, People
    <3>3. ASSUME NEW j \in Ids \ {p} PROVE ArmedOf(j)'
      <4>1. task'[j] = task[j]
        BY <3>1, People
      <4>. QED  BY <1>0, <2>1, <3>2, <4>1, ArmedStill DEF TaskBusy
    <3>4. ArmedOf(p)'
      <4>1. Edited(p)' <=> Edited(p)
        BY <3>2 DEF Edited, Editing
      <4>2. ArmedOf(p)
        BY <1>0, <2>3
      <4>3. ASSUME rows[p].active, Comes(rows[p], now), p \notin missed' PROVE rows[p].fireAt > now
        <5>1. rows[p].fireAt \in Nat /\ now \in Nat
          BY <1>s, <2>3, <4>3, Typed
        <5>2. ~Comes(rows[p], rows[p].fireAt)
          BY <2>3, <4>3
        <5>3. ~(rows[p].fireAt <= now)
          BY <4>3, <5>1, <5>2, ComesBefore
        <5>. QED  BY <5>1, <5>3
      <4>4. rows[p].fireAt > now => rows[p].fireAt # None
        BY <1>s, Typed DEF None
      <4>. QED  BY <2>1, <4>1, <4>2, <4>3, <4>4 DEF ArmedOf
    <3>. QED  BY <3>3, <3>4 DEF Armed
  <2>. QED  BY <2>1, <2>2, <2>3 DEF Tasks
<1>6. ASSUME NEW e \in Edits, NEW i \in Ids, NEW t \in 0 .. Horizon, NEW k \in Rules, CreateSchedule(e, i, t, k) PROVE Armed'
  <2>0. Created(e, i, t)
    BY <1>s, <1>6, CreateCall
  <2>1. /\ UNCHANGED <<now, up, loading, missed>> /\ Alone(e) /\ task[e].pc = "idle"
        /\ late' = IF t < now THEN late \cup {i} ELSE late
        /\ \A j \in Ids \ {i} : rows'[j] = rows[j]
        /\ rows'[i].fireAt = t /\ t \in Nat
        /\ timer'[i] = t /\ \A j \in Ids \ {i} : timer'[j] = timer[j]
    BY <2>0 DEF Created, service
  <2>2. (\A j \in Ids : task'[j] = task[j]) /\ \A d \in Edits, j \in Ids : Editing(d, j) => task'[d] = task[d]
    BY <2>1, People DEF Alone, Editing
  <2>3. i \notin late' => t >= now
    <3>1. now \in Nat
      BY <1>s, Typed
    <3>. QED  BY <2>1, <3>1
  <2>4. ArmedOf(i)'
    BY <1>s, <2>1, <2>3, ArmedAnew
  <2>5. \A j \in Ids \ {i} : ArmedOf(j)'
    BY <1>0, <2>1, <2>2, ArmedStill DEF TaskBusy
  <2>. QED  BY <2>4, <2>5 DEF Armed
<1>7. ASSUME NEW e \in Edits, Opens(e) PROVE Armed'
  <2>1. /\ UNCHANGED <<now, rows, up, loading, late, missed>> /\ Alone(e) /\ task[e].pc = "idle"
        /\ \A i \in Ids : timer'[i] = timer[i] \/ (timer'[i] = None /\ task'[e].pc = "delete" /\ task'[e].at = i)
    BY <1>s, <1>7, OpenCall DEF service, lapses
  <2>2. (\A j \in Ids : task'[j] = task[j]) /\ \A d \in Edits, j \in Ids : Editing(d, j) => task'[d] = task[d]
    BY <2>1, People DEF Alone, Editing
  <2>3. ASSUME NEW i \in Ids PROVE ArmedOf(i)'
    <3>1. CASE timer'[i] = timer[i]
      BY <1>0, <2>1, <2>2, <3>1, ArmedStill DEF TaskBusy
    <3>2. CASE timer'[i] = None /\ task'[e].pc = "delete" /\ task'[e].at = i
      <4>1. Edited(i)'
        BY <3>2 DEF Edited, Editing
      <4>. QED  BY <3>2, <4>1 DEF ArmedOf
    <3>. QED  BY <2>1, <3>1, <3>2
  <2>. QED  BY <2>3 DEF Armed
<1>8. ASSUME NEW e \in Edits, NEW b \in Bodies, Put(e, b) PROVE Armed'
  <2>1. PICK i \in Ids :
        /\ UNCHANGED <<now, timer, up, loading, missed>> /\ task[e].pc = "put" /\ Alone(e)
        /\ late \subseteq late'
        /\ task'[e].pc = "rearm" /\ task'[e].at = i
        /\ \A j \in Ids \ {i} : rows'[j] = rows[j]
    BY <1>s, <1>8, RowPut DEF service
  <2>2. (\A j \in Ids : task'[j] = task[j]) /\ \A d \in Edits, j \in Ids : Editing(d, j) => task'[d] = task[d]
    BY <2>1, People DEF Alone, Editing
  <2>3. ArmedOf(i)'
    <3>1. Edited(i)'
      BY <2>1 DEF Edited, Editing
    <3>2. ArmedOf(i)
      BY <1>0
    <3>. QED  BY <2>1, <3>1, <3>2 DEF ArmedOf
  <2>4. \A j \in Ids \ {i} : ArmedOf(j)'
    BY <1>0, <2>1, <2>2, ArmedStill DEF TaskBusy
  <2>. QED  BY <2>3, <2>4 DEF Armed
<1>9. ASSUME NEW e \in Edits, Rearm(e) PROVE Armed'
  <2>1. PICK i \in Ids :
        /\ UNCHANGED <<now, rows, up, loading>> /\ task[e].pc = "rearm" /\ task[e].at = i /\ Alone(e)
        /\ \A j \in Ids \ {i} : timer'[j] = timer[j]
        /\ \A j \in Ids \ {i} : (j \in late => j \in late') /\ (j \in missed => j \in missed')
        /\ \/ rows[i].fireAt > now /\ timer'[i] = rows[i].fireAt
           \/ /\ timer'[i] = None
              /\ \/ ~(rows[i].active /\ rows[i].fireAt > now) /\ (rows[i].active => ~Comes(rows[i], now))
                 \/ task'[e].pc = "advance" /\ task'[e].at = i
    BY <1>s, <1>9, RearmCall DEF service
  <2>2. (\A j \in Ids : task'[j] = task[j])
        /\ \A d \in Edits, j \in Ids \ {i} : Editing(d, j) => task'[d] = task[d]
    BY <2>1, People DEF Alone, Editing
  <2>3. ArmedOf(i)'
    <3>1. CASE rows[i].fireAt > now /\ timer'[i] = rows[i].fireAt
      <4>1. rows[i].fireAt \in Nat /\ rows[i].fireAt >= now
        BY <1>s, <3>1, Typed DEF None
      <4>. QED  BY <1>s, <2>1, <3>1, <4>1, ArmedAnew
    <3>2. CASE timer'[i] = None /\ ~(rows[i].active /\ rows[i].fireAt > now) /\ (rows[i].active => ~Comes(rows[i], now))
      BY <2>1, <3>2 DEF ArmedOf
    <3>3. CASE timer'[i] = None /\ task'[e].pc = "advance" /\ task'[e].at = i
      <4>1. Edited(i)'
        BY <3>3 DEF Edited, Editing
      <4>. QED  BY <3>3, <4>1 DEF ArmedOf
    <3>. QED  BY <2>1, <3>1, <3>2, <3>3
  <2>4. \A j \in Ids \ {i} : ArmedOf(j)'
    BY <1>0, <2>1, <2>2, ArmedStill DEF TaskBusy
  <2>. QED  BY <2>3, <2>4 DEF Armed
<1>10. ASSUME NEW e \in Edits, Advance(e) PROVE Armed'
  <2>1. PICK i \in Ids, n \in Nat :
        /\ UNCHANGED <<now, up, loading, missed>> /\ task[e].pc = "advance" /\ task[e].at = i /\ Alone(e)
        /\ task[e].next = n /\ rows' = Advanced(i, n)
        /\ timer' = IF n > now THEN [timer EXCEPT ![i] = n] ELSE timer
        /\ late' = IF n > now THEN late ELSE late \cup {i}
    BY <1>s, <1>10, AdvanceCall DEF service
  <2>2. /\ \A j \in Ids \ {i} : rows'[j] = rows[j]
        /\ rows'[i].active => rows'[i].fireAt = n
    BY <1>s, <2>1, Rewriting, Typed
  <2>4. (n > now => timer'[i] = n) /\ (~(n > now) => timer' = timer) /\ \A j \in Ids \ {i} : timer'[j] = timer[j]
    BY <1>s, <2>1, Typed
  <2>5. (\A j \in Ids : task'[j] = task[j])
        /\ \A d \in Edits, j \in Ids \ {i} : Editing(d, j) => task'[d] = task[d]
    BY <2>1, People DEF Alone, Editing
  <2>7. ArmedOf(i)'
    <3>1. CASE n > now
      <4>1. n >= now
        BY <1>s, <3>1, Typed
      <4>. QED  BY <1>s, <2>1, <2>2, <2>4, <3>1, <4>1, ArmedAnew
    <3>2. CASE ~(n > now)
      <4>1. i \in late' /\ now' = now /\ (rows'[i].active => ~(rows'[i].fireAt > now))
        BY <2>1, <2>2, <3>2
      <4>. QED  BY <4>1 DEF ArmedOf
    <3>. QED  BY <3>1, <3>2
  <2>8. \A j \in Ids \ {i} : ArmedOf(j)'
    BY <1>0, <2>1, <2>2, <2>4, <2>5, ArmedStill DEF TaskBusy
  <2>. QED  BY <2>7, <2>8 DEF Armed
<1>11. ASSUME NEW e \in Edits, DeleteRow(e) PROVE Armed'
  <2>1. PICK i \in Ids :
        /\ UNCHANGED <<now, timer, up, loading, late, missed>> /\ task[e].pc = "delete" /\ task[e].at = i /\ Alone(e)
        /\ ~rows'[i].active /\ \A j \in Ids \ {i} : rows'[j] = rows[j]
    BY <1>s, <1>11, DeleteRowCall DEF service, lapses
  <2>2. (\A j \in Ids : task'[j] = task[j])
        /\ \A d \in Edits, j \in Ids \ {i} : Editing(d, j) => task'[d] = task[d]
    BY <2>1, People DEF Alone, Editing
  <2>3. ArmedOf(i)'
    <3>1. ArmedOf(i)
      BY <1>0
    <3>. QED  BY <2>1, <3>1 DEF ArmedOf
  <2>4. \A j \in Ids \ {i} : ArmedOf(j)'
    BY <1>0, <2>1, <2>2, ArmedStill DEF TaskBusy
  <2>. QED  BY <2>3, <2>4 DEF Armed
<1>12. ASSUME NEW e \in Edits, Unlocking(e) PROVE Armed'
  <2>1. /\ UNCHANGED <<now, timer, up, loading, late, missed>> /\ task[e].pc = "unlock" /\ Alone(e)
        /\ \A i \in Ids : rows'[i].fireAt = rows[i].fireAt /\ rows'[i].rule = rows[i].rule /\ rows'[i].active = rows[i].active
    BY <1>s, <1>12, UnlockingCall DEF service, lapses
  <2>2. (\A j \in Ids : task'[j] = task[j]) /\ \A d \in Edits, j \in Ids : Editing(d, j) => task'[d] = task[d]
    BY <2>1, People DEF Alone, Editing
  <2>. QED  BY <1>0, <2>1, <2>2, ArmedStill DEF TaskBusy, Armed
<1>13. CASE Ask \/ AskAgain \/ Buy
  <2>1. UNCHANGED <<now, rows, timer, up, loading, late, missed>> /\ Alone(Buyer)
    BY <1>s, <1>13, BuyerCall DEF service, lapses
  <2>. QED  BY <1>1, <2>1, People
<1>14. CASE Stop
  <2>1. up' = "down" /\ \A i \in Ids : timer'[i] = None
    BY <1>s, <1>14, StopCall
  <2>. QED  BY <2>1 DEF Armed, ArmedOf
<1>15. CASE Boot
  <2>1. /\ UNCHANGED <<rows, timer>> /\ up = "down" /\ loading' = {i \in Ids : rows[i].active}
    BY <1>15 DEF Boot
  <2>2. \A i \in Ids : timer[i] = None
    BY <1>s, <2>1 DEF SchedulesShape, Serviced
  <2>. QED  BY <2>1, <2>2 DEF Armed, ArmedOf
<1>16. CASE EventOver \/ Loaded \/ UNCHANGED scheduleVars
  <2>1. UNCHANGED <<now, rows, timer, task, loading, late, missed>> /\ (up' # "down" => up # "down")
    BY <1>16 DEF EventOver, Loaded, scheduleVars, service, lapses
  <2>. QED  BY <1>0, <2>1, ArmedStill DEF TaskBusy, Armed
<1>17. CASE Tick
  <2>1. /\ UNCHANGED <<rows, timer, task, up, loading, late, missed>> /\ now' = now + 1 /\ now \in Nat /\ up # "loading"
        /\ up = "up" => \A i \in Ids : timer[i] = None \/ timer[i] > now
    BY <1>s, <1>17, Typed DEF Tick, service, lapses
  <2>2. ASSUME NEW i \in Ids PROVE ArmedOf(i)'
    <3>1. Edited(i)' <=> Edited(i)
      BY <2>1 DEF Edited, Editing
    <3>2. rows[i].fireAt > now' => rows[i].fireAt > now
      BY <1>s, <2>1, Typed DEF None
    <3>3. timer[i] # None => timer[i] >= now'
      <4>1. up = "up" \/ up = "down"
        BY <1>s, <2>1 DEF SchedulesShape, SchedulesType
      <4>2. timer[i] # None => timer[i] > now /\ timer[i] \in Nat
        BY <1>s, <2>1, <4>1, Typed DEF SchedulesShape, Serviced
      <4>. QED  BY <2>1, <4>2
    <3>4. ArmedOf(i)
      BY <1>0
    <3>5. rows[i].active /\ Comes(rows[i], now') => Comes(rows[i], now)
      <4>1. rows[i].active => rows[i].fireAt \in Nat
        BY <1>s, Typed
      <4>2. now' \in Nat /\ now <= now'
        BY <2>1
      <4>. QED  BY <2>1, <4>1, <4>2, ComesBefore
    <3>. QED  BY <2>1, <3>1, <3>2, <3>3, <3>4, <3>5 DEF ArmedOf, TaskBusy
  <2>. QED  BY <2>2 DEF Armed
<1>. QED  BY <1>2, <1>3, <1>4, <1>5, <1>6, <1>7, <1>8, <1>9, <1>10, <1>11, <1>12, <1>13, <1>14, <1>15, <1>16, <1>17, Schedulings
-----------------------------------------------------------------------------
\* What a fire does to the purchase.
LEMMA FirePaid ==
  ASSUME SchedulesShape, NEW p \in Tasks, Fires(p)
  PROVE  /\ paid = "none" => paid' = "none"
         /\ paid' = "on" => paid = "on" /\ task'[p].pc # "clear"
         /\ paid' = "lost_early" => \/ paid = "lost_early"
                                    \/ paid = "on" /\ task[p].pc = "clear" /\ task[Buyer].since < task[p].since
<1>1. /\ task[p].pc \in {"fire", "list", "clear", "load", "mark", "reread"}
      /\ p \in Everyone /\ "clear" \in TaskLabels
  BY FireCall, People DEF Firing, TaskLabels
<1>2. CASE List(p)
  <2>1. paid' = IF paid = "on" THEN "refunded" ELSE paid
    BY <1>2 DEF List
  <2>. QED  BY <2>1
<1>3. CASE ClearList(p)
  <2>1. /\ task[p].pc = "clear"
        /\ \/ paid' = IF paid # "on" THEN paid
                      ELSE IF task[Buyer].since < task[p].since THEN "lost_early" ELSE "lost_late"
           \/ EndTask(p) /\ paid' = paid
    BY <1>3 DEF ClearList, In
  <2>2. EndTask(p) => task'[p].pc # "clear"
    BY <1>1, Finished
  <2>. QED  BY <2>1, <2>2
<1>4. CASE Enter(p) \/ Activate(p) \/ Mark(p) \/ (p \in Ids /\ Reread(p))
  <2>1. paid' = paid /\ task[p].pc \in {"fire", "load", "mark", "reread"}
    BY <1>4 DEF Enter, Activate, Mark, Reread, In
  <2>2. task'[p].pc # "clear"
    BY <2>1, FireCall
  <2>. QED  BY <2>1, <2>2
<1>. QED  BY <1>2, <1>3, <1>4 DEF Fires

\* What is paid for was bought by the purchase, which is over.
LEMMA BoughtStep == SchedulesInv /\ [SchedulesNext]_scheduleVars => Bought'
<1>. SUFFICES ASSUME SchedulesInv, [SchedulesNext]_scheduleVars PROVE Bought'
  OBVIOUS
<1>s. SchedulesShape /\ Bought
  BY DEF SchedulesInv
<1>0. ASSUME paid = "none" => paid' = "none", In(Buyer, "done") => task'[Buyer] = task[Buyer] PROVE Bought'
  BY <1>s, <1>0 DEF Bought, In
<1>1. ASSUME NEW p \in Tasks, Alone(p), paid = "none" => paid' = "none" PROVE Bought'
  BY <1>0, <1>1, People DEF Alone, Everyone
<1>2. ASSUME NEW i \in Ids, Due(i) \/ Write(i) \/ LoadOne(i) PROVE Bought'
  <2>1. paid' = paid /\ (Alone(i) \/ task' = task)
    BY <1>s, <1>2, DueCall, WriteCall, LoadCall
  <2>. QED  BY <1>0, <1>1, <2>1, People
<1>3. ASSUME NEW p \in Tasks, Fires(p) PROVE Bought'
  BY <1>s, <1>1, <1>3, FireCall, FirePaid
<1>4. ASSUME NEW e \in Edits,
             \/ \E j \in Ids, t \in 0 .. Horizon, k \in Rules : CreateSchedule(e, j, t, k)
             \/ \E b \in Bodies : Put(e, b)
             \/ Opens(e) \/ Rearm(e) \/ Advance(e) \/ DeleteRow(e) \/ Unlocking(e)
      PROVE  Bought'
  <2>1. paid' = paid /\ Alone(e)
    BY <1>s, <1>4, CreateCall, RowPut, OpenCall, RearmCall, AdvanceCall, DeleteRowCall, UnlockingCall DEF Created
  <2>. QED  BY <1>1, <2>1, People
<1>5. CASE Ask \/ AskAgain \/ Buy
  BY <1>s, <1>5, BuyerCall DEF Bought, In
<1>6. CASE Stop
  BY <1>s, <1>0, <1>6, StopCall DEF In
<1>7. CASE EventOver \/ Boot \/ Loaded \/ Tick \/ UNCHANGED scheduleVars
  BY <1>0, <1>7 DEF EventOver, Boot, Loaded, Tick, scheduleVars
<1>. QED  BY <1>2, <1>3, <1>4, <1>5, <1>6, <1>7, Schedulings
-----------------------------------------------------------------------------
\* As long as no admin has interfered.
LEMMA CalmStill ==
  ASSUME NEW i \in Ids, CalmOf(i), rows'[i] = rows[i], timer'[i] \in {timer[i], None}, task'[i] = task[i],
         TaskBusy(Buyer)' => TaskBusy(Buyer), task'[Buyer].since = task[Buyer].since,
         paid' = "on" => paid = "on"
  PROVE  CalmOf(i)'
BY DEF CalmOf, TaskBusy, In

LEMMA CalmStep == SchedulesInv /\ [SchedulesNext]_scheduleVars => Calm'
<1>. SUFFICES ASSUME SchedulesInv, [SchedulesNext]_scheduleVars, Quiet' PROVE Calm'
  BY DEF Calm
<1>0. SchedulesShape /\ InTime /\ Bought /\ Calm
  BY DEF SchedulesInv
<1>s. SchedulesShape
  BY <1>0
<1>1. ASSUME UNCHANGED <<rows, timer, task, quiet>>, paid' = paid, late' \subseteq late PROVE Calm'
  <2>1. Quiet => \A i \in Ids : CalmOf(i)'
    BY <1>0, <1>1, CalmStill DEF Calm, TaskBusy
  <2>. QED  BY <1>0, <1>1, <2>1 DEF Calm, Quiet, In
<1>2. ASSUME NEW e \in Edits,
             \/ \E j \in Ids, t \in 0 .. Horizon, k \in Rules : CreateSchedule(e, j, t, k)
             \/ \E b \in Bodies : Put(e, b)
             \/ Opens(e) \/ Rearm(e) \/ Advance(e) \/ DeleteRow(e) \/ Unlocking(e)
      PROVE  FALSE
  <2>1. quiet' = FALSE \/ (quiet' = quiet /\ task[e].pc # "idle")
    BY <1>s, <1>2, CreateCall, RowPut, OpenCall, RearmCall, AdvanceCall, DeleteRowCall, UnlockingCall DEF Created
  <2>2. quiet' = quiet /\ task[e].pc # "idle"
    BY <2>1 DEF Quiet
  <2>. QED  BY <1>0, <2>2 DEF Calm, Quiet, In
<1>3. ASSUME NEW p \in Ids, Alone(p), quiet' = quiet, late' \subseteq late,
             \A j \in Ids \ {p} : rows'[j] = rows[j] /\ timer'[j] = timer[j],
             paid' = "on" => paid = "on", paid' = "lost_early" => paid = "lost_early",
             Quiet /\ CalmOf(p) => CalmOf(p)'
      PROVE  Calm'
  <2>1. \A q \in Everyone \ {p} : task'[q] = task[q]
    BY <1>3 DEF Alone
  <2>2. (\A e \in Edits : task'[e] = task[e]) /\ task'[Buyer] = task[Buyer] /\ \A j \in Ids \ {p} : task'[j] = task[j]
    BY <2>1, People
  <2>3. Quiet
    BY <1>3 DEF Quiet
  <2>4. paid # "lost_early" /\ late = {} /\ (\A e \in Edits : In(e, "idle")) /\ \A i \in Ids : CalmOf(i)
    BY <1>0, <2>3 DEF Calm
  <2>5. \A j \in Ids \ {p} : CalmOf(j)'
    BY <1>3, <2>2, <2>4, CalmStill DEF TaskBusy
  <2>6. CalmOf(p)'
    BY <1>3, <2>3, <2>4
  <2>. QED  BY <1>3, <2>2, <2>4, <2>5, <2>6 DEF Calm, In
<1>4. ASSUME NEW i \in Ids, Due(i) PROVE Calm'
  <2>1. /\ UNCHANGED <<now, rows, paid, quiet, late>> /\ timer[i] # None
        /\ timer'[i] = None /\ \A j \in Ids \ {i} : timer'[j] = timer[j]
        /\ \/ task' = task
           \/ timer[i] = now /\ Alone(i) /\ task'[i].pc = "fire" /\ task'[i].since = now
    BY <1>s, <1>4, DueCall DEF lapses
  <2>2. Alone(i)
    BY <2>1 DEF Alone
  <2>3. ASSUME Quiet, CalmOf(i) PROVE CalmOf(i)'
    <3>1. CASE task' = task
      BY <2>1, <2>3, <3>1, CalmStill DEF TaskBusy
    <3>2. CASE timer[i] = now /\ task'[i].pc = "fire" /\ task'[i].since = now
      <4>1. task'[Buyer] = task[Buyer]
        BY <2>2, People DEF Alone
      <4>2. TaskBusy(Buyer) => now <= task[Buyer].since
        <5>1. TaskBusy(Buyer) => now <= task[Buyer].since + Longest
          BY <1>0 DEF InTime
        <5>2. TaskBusy(Buyer) => now <= task[Buyer].since \/ now > task[Buyer].since + Longest
          BY <2>1, <2>3, <3>2 DEF CalmOf
        <5>3. now \in Nat /\ task[Buyer].since \in Nat
          BY <1>s, Typed, People
        <5>. QED  BY <5>1, <5>2, <5>3, People
      <4>3. rows[i].fireAt = now /\ Exists(rows[i])
        BY <2>1, <2>3, <3>2 DEF CalmOf, Exists
      <4>. QED  BY <2>1, <2>3, <3>2, <4>1, <4>2, <4>3 DEF CalmOf, TaskBusy, In
    <3>. QED  BY <2>1, <3>1, <3>2
  <2>. QED  BY <1>3, <2>1, <2>2, <2>3
<1>5. ASSUME NEW i \in Ids, Write(i) PROVE Calm'
  <2>1. /\ UNCHANGED <<now, paid, quiet>> /\ task[i].pc = "write" /\ Alone(i) /\ task'[i].pc = "idle"
        /\ rows' = Advanced(i, task[i].next) /\ task[i].next \in Nat
        /\ timer'[i] = task[i].next /\ \A j \in Ids \ {i} : timer'[j] = timer[j]
        /\ late' \subseteq late
    BY <1>s, <1>5, WriteCall
  <2>2. /\ \A j \in Ids \ {i} : rows'[j] = rows[j]
        /\ Exists(rows'[i]) <=> Exists(rows[i])
        /\ Exists(rows[i]) => rows'[i].fireAt = task[i].next /\ ~rows'[i].lockOff
        /\ rows'[i].active = rows[i].active
    BY <1>s, <2>1, Rewriting
  <2>3. ASSUME Quiet, CalmOf(i) PROVE CalmOf(i)'
    <3>1. /\ Exists(rows[i]) /\ task[i].next = task[i].since + Period
          /\ rows[i].active
      BY <2>1, <2>3 DEF CalmOf, TaskBusy, In
    <3>2. task'[Buyer] = task[Buyer]
      BY <2>1, People DEF Alone
    <3>3. TaskBusy(Buyer) => task[i].next > task[Buyer].since + Longest
      <4>1. TaskBusy(Buyer) => task[Buyer].since <= now
        BY <1>0 DEF InTime
      <4>2. now <= task[i].since + Longest
        BY <1>0, <2>1 DEF InTime, TaskBusy, Tasks
      <4>3. now \in Nat /\ task[Buyer].since \in Nat /\ task[i].since \in Nat
        BY <1>s, Typed, People
      <4>4. Longest + Longest < Period
        BY <2>3 DEF Quiet, Ample
      <4>. QED  BY <3>1, <4>1, <4>2, <4>3, <4>4, People
    <3>4. ~TaskBusy(i)' /\ ~In(i, "write")' /\ ~In(i, "clear")'
      BY <2>1 DEF TaskBusy, In
    <3>. QED  BY <2>1, <2>2, <3>1, <3>2, <3>3, <3>4 DEF CalmOf, TaskBusy
  <2>. QED  BY <1>3, <2>1, <2>2, <2>3
<1>6. ASSUME NEW i \in Ids, LoadOne(i) PROVE Calm'
  <2>1. /\ UNCHANGED <<now, task, paid, quiet, late>> /\ ~TaskBusy(i) /\ ~TaskBusy(Buyer)
        /\ Exists(rows[i]) /\ rows[i].active
        /\ \/ UNCHANGED <<rows, timer>>
           \/ \E n \in Nat : /\ timer' = [timer EXCEPT ![i] = n]
                             /\ (rows' = rows /\ n = rows[i].fireAt) \/ rows' = Advanced(i, n)
    BY <1>s, <1>6, LoadCall DEF SchedulesShape, Serviced, lapses
  <2>2. ASSUME NEW n \in Nat, timer' = [timer EXCEPT ![i] = n],
               (rows' = rows /\ n = rows[i].fireAt) \/ rows' = Advanced(i, n)
        PROVE  Calm'
    <3>1. timer'[i] = n /\ \A j \in Ids \ {i} : timer'[j] = timer[j]
      BY <1>s, <2>2, Typed
    <3>2. /\ rows'[i].fireAt = n /\ \A j \in Ids \ {i} : rows'[j] = rows[j]
          /\ rows'[i].active /\ (~rows[i].lockOff => ~rows'[i].lockOff)
      BY <1>s, <2>1, <2>2, Rewriting
    <3>3. ASSUME Quiet, CalmOf(i) PROVE CalmOf(i)'
      <4>1. ~TaskBusy(i)' /\ ~In(i, "write")' /\ ~In(i, "clear")' /\ ~TaskBusy(Buyer)'
        BY <2>1 DEF TaskBusy, In
      <4>. QED  BY <2>1, <3>1, <3>2, <3>3, <4>1 DEF CalmOf
    <3>. QED  BY <1>3, <2>1, <3>1, <3>2, <3>3 DEF Alone
  <2>. QED  BY <1>1, <2>1, <2>2
<1>7. ASSUME NEW p \in Tasks, Fires(p) PROVE Calm'
  <2>1. /\ UNCHANGED <<now, rows, timer, quiet, late>> /\ Alone(p) /\ task[p].pc \in Firing \cup {"fire", "reread"}
        /\ \/ task'[p].pc = IF p \in Ids THEN "idle" ELSE "done"
           \/ /\ task'[p].since = task[p].since
              /\ task'[p].pc # "write" \/ task'[p].next = rows[p].fireAt + Period
    BY <1>s, <1>7, FireCall
  <2>2. Quiet
    BY <2>1 DEF Quiet
  <2>3. p \in Ids
    BY <1>0, <2>1, <2>2 DEF Calm, In, Tasks, Firing
  <2>4. CalmOf(p)
    BY <1>0, <2>2, <2>3 DEF Calm
  <2>5. TaskBusy(p)
    BY <2>1 DEF TaskBusy, Firing
  <2>6. paid' = "on" => paid = "on" /\ task'[p].pc # "clear"
    BY <1>s, <1>7, FirePaid
  <2>7. paid' = "lost_early" => paid = "lost_early"
    <3>1. paid' = "lost_early" => \/ paid = "lost_early"
                                  \/ paid = "on" /\ task[p].pc = "clear" /\ task[Buyer].since < task[p].since
      BY <1>s, <1>7, FirePaid
    <3>2. paid = "on" /\ task[p].pc = "clear" => task[p].since <= task[Buyer].since
      BY <2>4 DEF CalmOf, In
    <3>3. task[p].since \in Nat /\ task[Buyer].since \in Nat
      BY <1>s, <2>3, Typed, People
    <3>. QED  BY <3>1, <3>2, <3>3
  <2>8. CalmOf(p)'
    <3>1. task'[Buyer] = task[Buyer]
      BY <2>1, <2>3, People DEF Alone
    <3>2. ~TaskBusy(p)' \/ (task'[p].since = task[p].since /\ (task'[p].pc # "write" \/ task'[p].next = rows[p].fireAt + Period))
      BY <2>1, <2>3 DEF TaskBusy
    <3>3. CASE ~TaskBusy(p)'
      BY <2>1, <2>4, <3>1, <3>3 DEF CalmOf, TaskBusy, In
    <3>4. CASE task'[p].since = task[p].since /\ (task'[p].pc # "write" \/ task'[p].next = rows[p].fireAt + Period)
      BY <2>1, <2>4, <2>5, <2>6, <3>1, <3>4 DEF CalmOf, TaskBusy, In
    <3>. QED  BY <3>2, <3>3, <3>4
  <2>. QED  BY <1>3, <2>1, <2>3, <2>6, <2>7, <2>8
<1>8. CASE Ask \/ AskAgain \/ Buy
  <2>1. /\ UNCHANGED <<now, rows, timer, quiet, late>> /\ Alone(Buyer) /\ task[Buyer].pc # "done"
        /\ \/ task'[Buyer].pc = "done" /\ paid' = paid
           \/ ~PreFireLocked /\ task'[Buyer].since = now /\ paid' = paid
           \/ /\ task[Buyer].pc \in {"asked", "buying"} /\ task'[Buyer].since = task[Buyer].since
              /\ paid' \in {paid, "on"}
    BY <1>s, <1>8, BuyerCall DEF lapses
  <2>2. (\A e \in Edits : task'[e] = task[e]) /\ \A j \in Ids : task'[j] = task[j]
    BY <2>1, People DEF Alone
  <2>3. paid = "none"
    BY <1>0, <2>1 DEF Bought, In
  <2>4. Quiet
    BY <2>1 DEF Quiet
  <2>5. paid # "lost_early" /\ late = {} /\ (\A e \in Edits : In(e, "idle")) /\ \A i \in Ids : CalmOf(i)
    BY <1>0, <2>4 DEF Calm
  <2>6. ASSUME NEW i \in Ids PROVE CalmOf(i)'
    <3>0. /\ CalmOf(i) /\ task'[i] = task[i] /\ rows'[i] = rows[i] /\ timer'[i] = timer[i]
          /\ now \in Nat /\ task[i].since \in Nat
      BY <1>s, <2>1, <2>2, <2>5, Typed, People
    <3>1. CASE task'[Buyer].pc = "done" /\ paid' = paid
      BY <2>3, <3>0, <3>1 DEF CalmOf, TaskBusy, In
    <3>2. CASE ~PreFireLocked /\ task'[Buyer].since = now /\ paid' = paid
      <4>1. timer[i] # None => timer[i] <= now \/ timer[i] > now + Longest
        <5>1. timer[i] # None => /\ timer[i] = rows[i].fireAt /\ timer[i] \in Nat
                                 /\ Exists(rows[i]) /\ rows[i].active /\ ~rows[i].lockOff
          BY <1>s, <3>0, Typed DEF CalmOf, Exists
        <5>2. ~InWindow(rows[i])
          BY <3>2 DEF PreFireLocked
        <5>3. timer[i] # None => ~(timer[i] - PreFire <= now /\ now < timer[i])
          BY <5>1, <5>2 DEF InWindow
        <5>4. Longest <= PreFire /\ PreFire \in Nat
          BY <2>4, SchedulesAssumption DEF Quiet
        <5>5. timer[i] # None => timer[i] \in Nat
          BY <5>1
        <5>. QED  BY <3>0, <5>3, <5>4, <5>5, People
      <4>2. TaskBusy(i) => task[i].since <= now
        BY <1>0 DEF InTime, Tasks
      <4>. QED  BY <2>3, <3>0, <3>2, <4>1, <4>2 DEF CalmOf, TaskBusy, In
    <3>3. CASE task[Buyer].pc \in {"asked", "buying"} /\ task'[Buyer].since = task[Buyer].since
      BY <3>0, <3>3 DEF CalmOf, TaskBusy, In
    <3>. QED  BY <2>1, <3>1, <3>2, <3>3
  <2>. QED  BY <2>1, <2>2, <2>3, <2>5, <2>6 DEF Calm, In
<1>9. CASE Stop
  <2>1. /\ UNCHANGED <<rows, paid, quiet, late>> /\ \A i \in Ids : timer'[i] = None /\ task'[i].pc = "idle"
        /\ \A e \in Edits \cup {Buyer} : task'[e].pc \in {"idle", "done"} /\ (task[e].pc = "idle" => task'[e] = task[e])
    BY <1>s, <1>9, StopCall DEF lapses
  <2>2. Quiet
    BY <2>1 DEF Quiet
  <2>3. \A i \in Ids : CalmOf(i)'
    BY <1>0, <2>1, <2>2 DEF Calm, CalmOf, TaskBusy, In
  <2>. QED  BY <1>0, <2>1, <2>2, <2>3 DEF Calm, In
<1>10. CASE EventOver \/ Boot \/ Loaded \/ Tick \/ UNCHANGED scheduleVars
  BY <1>1, <1>10 DEF EventOver, Boot, Loaded, Tick, scheduleVars, lapses
<1>. QED  BY <1>2, <1>4, <1>5, <1>6, <1>7, <1>8, <1>9, <1>10, Schedulings
-----------------------------------------------------------------------------
LEMMA InitSchedules == SchedulesInit => SchedulesInv
<1>. SUFFICES ASSUME SchedulesInit PROVE SchedulesInv
  OBVIOUS
<1>1. /\ now = 0 /\ event = FALSE /\ lock = Nobody /\ paid = "none" /\ quiet = TRUE
      /\ task = [p \in Everyone |-> IdleTask] /\ occurred = [i \in Ids |-> {}]
      /\ up = "up" /\ loading = {} /\ restarts = 0 /\ late = {} /\ missed = {}
      /\ rows \in [Ids -> {ScheduleRow(t, k) : t \in PreFire + 1 .. Horizon, k \in Rules} \cup {NoRow}]
      /\ timer = [i \in Ids |-> rows[i].fireAt]
  BY DEF SchedulesInit, Everyone
<1>2. ASSUME NEW i \in Ids
      PROVE  /\ rows[i] \in SchedRow \cup {NoRow}
             /\ rows[i].fireAt \in Nat \cup {None}
             /\ rows[i] = NoRow => rows[i].fireAt = None
             /\ Exists(rows[i]) => rows[i].active /\ ~rows[i].lockOff
             /\ Exists(rows[i]) => rows[i].fireAt > now /\ rows[i].fireAt \in Nat
             /\ ~Exists(rows[i]) => ~rows[i].active
  <2>1. CASE rows[i] = NoRow
    BY <2>1 DEF NoRow, Exists, None
  <2>2. ASSUME NEW t \in PreFire + 1 .. Horizon, NEW k \in Rules, rows[i] = ScheduleRow(t, k)
        PROVE  /\ rows[i] \in SchedRow
               /\ rows[i].fireAt = t /\ rows[i].active /\ ~rows[i].lockOff /\ t \in Nat /\ t > 0
    <3>1. PreFire \in Nat /\ Horizon \in Nat
      BY SchedulesAssumption
    <3>2. t \in Nat /\ t > 0
      BY <3>1
    <3>. QED  BY <2>2, <3>2, People DEF ScheduleRow, SchedRow
  <2>3. rows[i] = NoRow \/ \E t \in PreFire + 1 .. Horizon, k \in Rules : rows[i] = ScheduleRow(t, k)
    BY <1>1
  <2>4. ASSUME NEW t \in PreFire + 1 .. Horizon, NEW k \in Rules, rows[i] = ScheduleRow(t, k)
        PROVE  rows[i].fireAt # None
    BY <2>2, <2>4 DEF None
  <2>5. ASSUME NEW t \in PreFire + 1 .. Horizon, NEW k \in Rules, rows[i] = ScheduleRow(t, k)
        PROVE  rows[i] # NoRow
    BY <2>4, <2>5 DEF NoRow
  <2>. QED  BY <1>1, <2>1, <2>2, <2>3, <2>4, <2>5 DEF Exists
<1>3. \A p \in Everyone : task[p] = IdleTask /\ ~TaskBusy(p) /\ task[p].pc = "idle"
  BY <1>1 DEF TaskBusy, IdleTask
<1>4. SchedulesShape
  <2>1. SchedulesType
    <3>1. task \in [Tasks \cup {Buyer} -> [pc : TaskLabels, at : Ids \cup {Nobody}, since : Nat, next : Nat]]
      BY <1>1 DEF Everyone, IdleTask, TaskLabels
    <3>2. rows \in [Ids -> AnyRow]
      BY <1>1, <1>2 DEF AnyRow
    <3>3. timer \in [Ids -> Nat \cup {None}] /\ occurred \in [Ids -> SUBSET Nat]
      BY <1>1, <1>2
    <3>4. \A p \in Tasks : lock = p <=> task[p].pc \in Firing
      BY <1>1, <1>3, People DEF Firing, Tasks
    <3>5. now \in 0 .. MaxTime /\ restarts \in 0 .. MaxRestarts
      BY <1>1, SchedulesAssumption
    <3>. QED  BY <1>1, <3>1, <3>2, <3>3, <3>4, <3>5 DEF SchedulesType, AnyRow
  <2>2. Labelled
    BY <1>3, People DEF Labelled, Rowed, Firing
  <2>3. Serviced
    BY <1>1, <1>3, People DEF Serviced
  <2>. QED  BY <2>1, <2>2, <2>3 DEF SchedulesShape
<1>5. InTime /\ Rewritten /\ Bought
  BY <1>1, <1>3, People DEF InTime, Rewritten, Bought, In, Everyone
<1>6. Past
  BY <1>1, <1>2, <1>3, People DEF Past, PastOf, Rowed, Firing
<1>7. Near
  BY <1>1, <1>2, <1>3, People DEF Near, NearOf, Exists
<1>8. Armed
  <2>. SUFFICES ASSUME NEW i \in Ids PROVE ArmedOf(i)
    BY DEF Armed
  <2>1. timer[i] = rows[i].fireAt /\ (rows[i].active => Exists(rows[i]))
    BY <1>1, <1>2
  <2>2. Exists(rows[i]) => timer[i] >= now
    BY <1>1, <1>2, <2>1
  <2>. QED  BY <2>1, <2>2 DEF ArmedOf, Exists
<1>9. Calm
  <2>1. ASSUME NEW i \in Ids PROVE CalmOf(i)
    BY <1>1, <1>2, <1>3, People DEF CalmOf, In
  <2>. QED  BY <1>1, <1>3, <2>1, People DEF Calm, In
<1>. QED  BY <1>4, <1>5, <1>6, <1>7, <1>8, <1>9 DEF SchedulesInv

LEMMA SchedulesStep == SchedulesInv /\ [SchedulesNext]_scheduleVars => SchedulesInv'
BY SchedulesShapeStep, InTimeStep, PastStep, NearStep, RewrittenStep, ArmedStep, BoughtStep, CalmStep DEF SchedulesInv

LEMMA ArmedClaim ==
  ASSUME SchedulesInv, up = "up", NEW i \in Ids, rows[i].active, Settled(i)
  PROVE  /\ rows[i].fireAt > now => timer[i] = rows[i].fireAt
         /\ Ample /\ i \notin late \cup missed /\ Comes(rows[i], now) => timer[i] # None
<1>0. SchedulesShape /\ Armed
  BY DEF SchedulesInv
<1>1. ~TaskBusy(i) /\ ~Edited(i)
  BY DEF Settled, Edited, Editing, TaskBusy
<1>2. loading = {}
  BY <1>0 DEF SchedulesShape, Serviced
<1>. QED  BY <1>0, <1>1, <1>2 DEF Armed, ArmedOf

\* What holds of every reachable state.
LEMMA SchedulesClaims ==
  ASSUME Ample, Longest <= PreFire
  PROVE  SchedulesInv => SchedulesSafe
<1>. SUFFICES ASSUME SchedulesInv PROVE SchedulesSafe
  OBVIOUS
<1>0. SchedulesShape /\ Armed /\ Calm
  BY DEF SchedulesInv
<1>1. SchedulesType
  BY <1>0 DEF SchedulesShape
<1>3. FutureArmed
  BY ArmedClaim DEF FutureArmed
<1>4. RecurringArmed
  BY ArmedClaim DEF RecurringArmed
<1>5. EarlyPurchaseRefunded
  BY <1>0 DEF Calm, Quiet, EarlyPurchaseRefunded
<1>. QED  BY <1>1, <1>3, <1>4, <1>5 DEF SchedulesSafe

\* A schedule with a time to come has its job for that time, whatever the
\* times are, whatever admins edit, and however often the service restarts.
THEOREM FutureArmedCorrect == SchedulesSpec => []FutureArmed
<1>1. SchedulesInv => FutureArmed
  BY ArmedClaim DEF FutureArmed
<1>. QED  BY <1>1, InitSchedules, SchedulesStep, PTL DEF SchedulesSpec

\* Whatever admins edit, one after another or at once, whatever rules they
\* give, whichever clears are refused, and however often the service restarts:
\* a schedule with a time to come has its job for that time; one that is on
\* and whose rule has an occurrence to come has a job, unless it was given a
\* time that was over or its last timed fire broke off, and was neither edited
\* since nor the service restarted; and a purchase let in before the lock
\* closed is refunded by the event's clear.  It takes that requests and fires
\* are short against a period and no longer than the pre-fire lock (15 minutes
\* unless configured).
THEOREM SchedulesSafeCorrect ==
  ASSUME Ample, Longest <= PreFire
  PROVE  SchedulesSpec => []SchedulesSafe
<1>1. SchedulesInv => SchedulesSafe
  BY SchedulesClaims
<1>. QED  BY <1>1, InitSchedules, SchedulesStep, PTL DEF SchedulesSpec

\* No occurrence is fired twice by the timer, whatever the times are, unless
\* an admin sets the schedule back to a time that is over.
LEMMA FiredOnceStep ==
  SchedulesInv /\ [SchedulesNext]_scheduleVars =>
    [\A i \in Ids : Activate(i) /\ i \notin late => task[i].since \notin occurred[i]]_scheduleVars
<1>. SUFFICES ASSUME SchedulesInv, NEW i \in Ids, Activate(i), i \notin late PROVE task[i].since \notin occurred[i]
  OBVIOUS
<1>1. SchedulesShape /\ PastOf(i) /\ task[i].pc = "load"
  BY DEF SchedulesInv, Past, Activate, In
<1>2. \A o \in occurred[i] : o < task[i].since
  BY <1>1 DEF PastOf
<1>. QED  BY <1>1, <1>2, Typed, People

THEOREM FiredOnceCorrect == SchedulesSpec => FiredOnce
BY InitSchedules, SchedulesStep, FiredOnceStep, PTL DEF SchedulesSpec, FiredOnce
=============================================================================
