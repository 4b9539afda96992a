------------------------------ MODULE RulesProofs ------------------------------
(***************************************************************************)
(* Theorems about the look-ups and the rules without a state of their own: *)
(* what is picked for a film or an episode, what a timeline shows, and     *)
(* what becomes of streams, tags, titles and links that are laid out.      *)
(***************************************************************************)
EXTENDS Lookups, Rules, FiniteFacts, SequenceTheorems

-----------------------------------------------------------------------------
(***************************************************************************)
(* Look-ups.  What is picked from a list is a work of it that is similar   *)
(* to what was asked for, and one of the year if there is one (BestPicks,  *)
(* PickPicks); OMDb is asked by the number that gives or its answer is     *)
(* held against the title (FindsAre).                                      *)
(***************************************************************************)
\* What TMDb's list gives: a work that is similar, and one of the year if one is.
PickedFrom(b, q, list, year) ==
  IF Fits(q, list) = {} THEN b = None
  ELSE b # None /\ \E i \in Preferred(q, list, year) : b = list[i]

LEMMA ListsAre ==
  ASSUME NEW list \in Lists
  PROVE  DOMAIN list \subseteq Nat /\ \A i \in DOMAIN list : list[i] \in Works /\ list[i] \in Nat /\ list[i] # None
<1>1. PICK n \in 0 .. 2 : list \in [1 .. n -> Works]
  BY DEF Lists
<1>2. \A w \in Works : w \in Nat /\ w # None
  BY LookupsAssumption DEF None
<1>. QED  BY <1>1, <1>2

LEMMA PreferredAre ==
  ASSUME NEW q, NEW list, NEW year, Fits(q, list) # {}
  PROVE  Preferred(q, list, year) # {} /\ Preferred(q, list, year) \subseteq Fits(q, list)
BY DEF Preferred, OfYear

LEMMA BestPicks ==
  ASSUME NEW q, NEW list \in Lists, NEW year
  PROVE  PickedFrom(Best(q, list, year), q, list, year)
<1>1. CASE Fits(q, list) = {}
  BY <1>1 DEF Best, PickedFrom
<1>2. CASE Fits(q, list) # {}
  <2>1. PICK S : S = Preferred(q, list, year)
    OBVIOUS
  <2>2. S # {} /\ S \subseteq DOMAIN list /\ S \subseteq Nat
    BY <1>2, <2>1, ListsAre, PreferredAre DEF Fits
  <2>3. \E x \in S : \A y \in S : x <= y
    BY <2>2, NatMin
  <2>4. Min(S) \in S
    BY <2>3 DEF Min
  <2>5. Best(q, list, year) = list[Min(S)]
    BY <1>2, <2>1 DEF Best
  <2>6. list[Min(S)] # None
    BY <2>2, <2>4, ListsAre
  <2>. QED  BY <1>2, <2>1, <2>4, <2>5, <2>6 DEF PickedFrom
<1>. QED  BY <1>1, <1>2

LEMMA PickPicks ==
  ASSUME NEW q, NEW list \in Lists, NEW year
  PROVE  PickedFrom(Pick(q, list, year), q, list, year)
<1>1. CASE Fits(q, list) = {}
  BY <1>1 DEF Pick, PickedFrom
<1>2. CASE Fits(q, list) # {}
  <2>1. PICK S : S = Preferred(q, list, year)
    OBVIOUS
  <2>2. S # {} /\ S \subseteq DOMAIN list
    BY <1>2, <2>1, PreferredAre DEF Fits
  <2>3. PICK T : T = {list[i] : i \in S}
    OBVIOUS
  <2>4. T # {} /\ T \subseteq Nat /\ None \notin T
    BY <2>2, <2>3, ListsAre
  <2>5. \E x \in T : \A y \in T : x <= y
    BY <2>4, NatMin
  <2>6. Min(T) \in T
    BY <2>5 DEF Min
  <2>7. Pick(q, list, year) = Min(T)
    BY <1>2, <2>1, <2>3 DEF Pick
  <2>8. Min(T) # None /\ \E i \in S : Min(T) = list[i]
    BY <2>3, <2>4, <2>6
  <2>. QED  BY <1>2, <2>1, <2>7, <2>8 DEF PickedFrom
<1>. QED  BY <1>1, <1>2

LEMMA PickedFits ==
  ASSUME NEW q, NEW list \in Lists, NEW year, NEW b, PickedFrom(b, q, list, year)
  PROVE  /\ b # None => b \in Works /\ Similar(q.name, q.films[b].name)
         /\ OfYear(q, list, year) # {} => b # None /\ q.films[b].year = year
<1>1. CASE Fits(q, list) = {}
  BY <1>1 DEF PickedFrom, OfYear
<1>2. CASE Fits(q, list) # {}
  <2>1. PICK i \in Preferred(q, list, year) : b = list[i]
    BY <1>2 DEF PickedFrom
  <2>2. b # None
    BY <1>2 DEF PickedFrom
  <2>3. i \in Fits(q, list) /\ i \in DOMAIN list
    BY <1>2, <2>1, PreferredAre DEF Fits
  <2>4. b \in Works /\ Similar(q.name, q.films[b].name)
    BY <2>1, <2>3, ListsAre DEF Fits
  <2>5. OfYear(q, list, year) # {} => q.films[b].year = year
    BY <2>1 DEF Preferred, OfYear
  <2>. QED  BY <2>2, <2>4, <2>5
<1>. QED  BY <1>1, <1>2

\* A film as it is asked for.
LEMMA FilmAskedAre ==
  ASSUME NEW q \in FilmAsked
  PROVE  /\ q.of = "film" /\ q.first \in Lists /\ q.second \in Lists /\ q.year \in {0, 1} /\ q.broken \in FilmCalls
         /\ \A w \in Works : q.films[w] \in Film
         /\ q.titled \in Works \cup {None} /\ q.other \in Works \cup {None}
         /\ q.year = 0 => q.other = None
BY DEF FilmAsked

LEMMA ToolFinds ==
  ASSUME NEW q \in FilmAsked
  PROVE  LET w == ToolTmdb(q)
         IN /\ w # None => w \in Works /\ Similar(q.name, q.films[w].name)
            /\ q.broken # "search" /\ OfYear(q, q.first, q.year) # {} => w # None /\ q.films[w].year = q.year
<1>. DEFINE used == IF q.first # <<>> \/ q.year = 0 \/ q.broken = "again" THEN q.first ELSE q.second
<1>1. used \in Lists
  BY FilmAskedAre
<1>2. OfYear(q, q.first, q.year) # {} => q.first # <<>>
  BY DEF OfYear, Fits
<1>3. ToolTmdb(q) = IF q.broken = "search" THEN None ELSE Best(q, used, q.year)
  BY DEF ToolTmdb
<1>4. OfYear(q, q.first, q.year) # {} => used = q.first
  BY <1>2
<1>. HIDE DEF used
<1>5. PickedFrom(Best(q, used, q.year), q, used, q.year)
  BY <1>1, BestPicks
<1>6. PICK b : b = Best(q, used, q.year)
  OBVIOUS
<1>7. /\ b # None => b \in Works /\ Similar(q.name, q.films[b].name)
      /\ OfYear(q, used, q.year) # {} => b # None /\ q.films[b].year = q.year
  BY <1>1, <1>5, <1>6, PickedFits
<1>. QED  BY <1>3, <1>4, <1>6, <1>7

LEMMA SiteFinds ==
  ASSUME NEW q \in FilmAsked
  PROVE  LET w == SiteTmdb(q)
         IN /\ w # None => w \in Works /\ Similar(q.name, q.films[w].name)
            /\ q.broken # "search" /\ OfYear(q, q.first, q.year) # {} => w # None /\ q.films[w].year = q.year
<1>1. q.first \in Lists /\ q.second \in Lists
  BY FilmAskedAre
<1>2. PICK b : b = Pick(q, q.first, q.year)
  OBVIOUS
<1>3. PICK c : c = Pick(q, q.second, 0)
  OBVIOUS
<1>4. PickedFrom(b, q, q.first, q.year) /\ PickedFrom(c, q, q.second, 0)
  BY <1>1, <1>2, <1>3, PickPicks
<1>5. /\ b # None => b \in Works /\ Similar(q.name, q.films[b].name)
      /\ OfYear(q, q.first, q.year) # {} => b # None /\ q.films[b].year = q.year
  BY <1>1, <1>4, PickedFits
<1>6. c # None => c \in Works /\ Similar(q.name, q.films[c].name)
  BY <1>1, <1>4, PickedFits
<1>7. SiteTmdb(q) = IF q.broken = "search" THEN None
                    ELSE IF b # None \/ q.year = 0 \/ q.broken = "again" THEN b ELSE c
  BY <1>2, <1>3 DEF SiteTmdb
<1>. QED  BY <1>5, <1>6, <1>7

FilmInv == inquiry.of = "film" => inquiry \in FilmAsked

LEMMA FindsAre ==
  ASSUME NEW q \in FilmAsked, NEW f \in Finds(q)
  PROVE  /\ f[1] # None => f[1] \in Works /\ Similar(q.name, q.films[f[1]].name)
         /\ q.broken # "search" /\ OfYear(q, q.first, q.year) # {} => f[1] # None /\ q.films[f[1]].year = q.year
         /\ f[2] = ToolOmdb(q, f[1]) \/ f[2] = SiteOmdb(q, f[1])
<1>1. CASE f = <<ToolTmdb(q), ToolOmdb(q, ToolTmdb(q))>>
  <2>1. PICK w : w = ToolTmdb(q)
    OBVIOUS
  <2>2. f[1] = w /\ f[2] = ToolOmdb(q, w)
    BY <1>1, <2>1
  <2>3. /\ w # None => w \in Works /\ Similar(q.name, q.films[w].name)
        /\ q.broken # "search" /\ OfYear(q, q.first, q.year) # {} => w # None /\ q.films[w].year = q.year
    BY <2>1, ToolFinds
  <2>. QED  BY <2>2, <2>3
<1>2. CASE f = <<SiteTmdb(q), SiteOmdb(q, SiteTmdb(q))>>
  <2>1. PICK w : w = SiteTmdb(q)
    OBVIOUS
  <2>2. f[1] = w /\ f[2] = SiteOmdb(q, w)
    BY <1>2, <2>1
  <2>3. /\ w # None => w \in Works /\ Similar(q.name, q.films[w].name)
        /\ q.broken # "search" /\ OfYear(q, q.first, q.year) # {} => w # None /\ q.films[w].year = q.year
    BY <2>1, SiteFinds
  <2>. QED  BY <2>2, <2>3
<1>. QED  BY <1>1, <1>2 DEF Finds

LEMMA FilmInvSafe == FilmInv => FilmFits /\ OneFilm
<1>. SUFFICES ASSUME inquiry.of = "film", FilmInv PROVE FilmFits /\ OneFilm
  BY DEF FilmFits, OneFilm
<1>1. PICK q \in FilmAsked : q = inquiry
  BY DEF FilmInv
<1>2. FilmFits
  <2>. SUFFICES ASSUME NEW f \in Finds(q)
       PROVE /\ f[1] # None => Similar(q.name, q.films[f[1]].name)
             /\ (f[1] = None /\ f[2] # None) => Similar(q.name, q.films[f[2]].name)
             /\ (q.broken # "search" /\ {w \in {q.first[i] : i \in DOMAIN q.first} : q.films[w].year = q.year /\ Similar(q.name, q.films[w].name)} # {})
                  => f[1] # None /\ q.films[f[1]].year = q.year
    BY <1>1 DEF FilmFits
  <2>1. ASSUME f[1] = None, f[2] # None PROVE Similar(q.name, q.films[f[2]].name)
    <3>1. Number(q, None) = None
      BY DEF Number
    <3>2. CASE f[2] = ToolOmdb(q, None)
      BY <2>1, <3>2 DEF ToolOmdb, Suits
    <3>3. CASE f[2] = SiteOmdb(q, None)
      BY <2>1, <3>1, <3>3 DEF SiteOmdb, Suits
    <3>. QED  BY <2>1, <3>2, <3>3, FindsAre
  <2>2. ASSUME NEW i \in DOMAIN q.first, q.films[q.first[i]].year = q.year, Similar(q.name, q.films[q.first[i]].name)
        PROVE  OfYear(q, q.first, q.year) # {}
    <3>1. q.first[i] \in Works
      BY FilmAskedAre, ListsAre
    <3>2. q.films[q.first[i]] \in Film
      BY <3>1, FilmAskedAre
    <3>3. q.year # 0
      BY <2>2, <3>2 DEF Film
    <3>4. i \in OfYear(q, q.first, q.year)
      BY <2>2, <3>3 DEF OfYear, Fits
    <3>. QED  BY <3>4
  <2>. QED  BY <2>1, <2>2, FindsAre
<1>3. OneFilm
  <2>. SUFFICES ASSUME NEW f \in Finds(q),
                       Merged(q, f[1], f[2]).title # None, Merged(q, f[1], f[2]).number # None,
                       Merged(q, f[1], f[2]).title # Merged(q, f[1], f[2]).number, q.broken # "detail"
       PROVE q.year # 0 /\ ~q.films[Merged(q, f[1], f[2]).title].known /\ f[2] = ToolOmdb(q, f[1])
    BY <1>1 DEF OneFilm
  <2>1. PICK w, o : w = f[1] /\ o = f[2]
    OBVIOUS
  <2>2. Number(q, w) = w
    BY DEF Number
  <2>3. w # None /\ o # None /\ o # w /\ Merged(q, f[1], f[2]).title = w
    BY <2>1, <2>2 DEF Merged
  <2>4. CASE o = SiteOmdb(q, w)
    BY <2>2, <2>3, <2>4 DEF SiteOmdb, ByNumber
  <2>5. CASE o = ToolOmdb(q, w)
    <3>1. ToolAsks(q, w) = ByNumber(q, w)
      BY <2>2, <2>3 DEF ToolAsks
    <3>2. o = IF ToolAsks(q, w) # None THEN ToolAsks(q, w) ELSE Again(q)
      BY <2>3, <2>5 DEF ToolOmdb
    <3>3. ~q.films[w].known /\ o = Again(q)
      BY <2>3, <3>1, <3>2 DEF ByNumber
    <3>4. q.other # None
      BY <2>3, <3>3 DEF Again
    <3>5. q.year # 0
      BY <3>4, FilmAskedAre
    <3>. QED  BY <2>1, <2>3, <2>5, <3>3, <3>5
  <2>. QED  BY <2>1, <2>4, <2>5, FindsAre
<1>. QED  BY <1>2, <1>3

(***************************************************************************)
(* A run keeps each show it looked up under its name, what it did not find *)
(* too, and never changes what it keeps: so whatever it gave an episode is *)
(* still there, and the number OMDb was asked by is told of the show the   *)
(* episode got.                                                            *)
(***************************************************************************)
\* A show is taken from a list, or none is.
LEMMA BestShowIs ==
  ASSUME NEW key, NEW list \in Lists, NEW year
  PROVE  BestShow(key, list, year) \in Works \cup {None}
<1>1. PICK fit : fit = {i \in DOMAIN list : Similar(key, inquiry.shows[list[i]].name)}
  OBVIOUS
<1>2. PICK ofYear : ofYear = {i \in fit : BegunIn(list[i]) = year}
  OBVIOUS
<1>3. PICK S : S = IF ofYear # {} THEN ofYear ELSE fit
  OBVIOUS
<1>4. BestShow(key, list, year) = IF fit = {} THEN None ELSE list[Min(S)]
  BY <1>1, <1>2, <1>3 DEF BestShow
<1>5. CASE fit # {}
  <2>1. S # {} /\ S \subseteq DOMAIN list /\ S \subseteq Nat
    BY <1>1, <1>2, <1>3, <1>5, ListsAre
  <2>2. \E x \in S : \A y \in S : x <= y
    BY <2>1, NatMin
  <2>3. Min(S) \in S
    BY <2>2 DEF Min
  <2>4. list[Min(S)] \in Works
    BY <2>1, <2>3, ListsAre
  <2>. QED  BY <1>4, <1>5, <2>4
<1>. QED  BY <1>4, <1>5

LEMMA LookedUpIs ==
  ASSUME NEW key, NEW d \in LookedUp(key)
  PROVE  d.show \in Works \cup {None}
<1>1. CASE d = Entry0
  BY <1>1 DEF Entry0
<1>2. CASE d # Entry0
  <2>1. PICK list \in Lists, year \in {0, 1, 2} : \E e \in ShowDetails(BestShow(key, list, year)) : d \in WithOmdb(e)
    BY <1>2 DEF LookedUp
  <2>2. PICK w : w = BestShow(key, list, year)
    OBVIOUS
  <2>3. PICK e \in ShowDetails(w) : d \in WithOmdb(e)
    BY <2>1, <2>2
  <2>4. PICK n, k : e = [show |-> w, named |-> n, number |-> k]
    BY <2>3 DEF ShowDetails
  <2>5. d = e \/ \E m : d = [e EXCEPT !.number = m]
    BY <2>3 DEF WithOmdb
  <2>6. d.show = w
    BY <2>4, <2>5
  <2>. QED  BY <2>2, <2>6, BestShowIs
<1>. QED  BY <1>1, <1>2

\* A run keeps each show it looked up under its name, what it did not find too.
ServedFromShelf == \A a \in served : a.key \in DOMAIN shelf /\ a.got = shelf[a.key]
ShelfOfWorks == \A k \in DOMAIN shelf : shelf[k].show \in Works \cup {None}

LookInv == ServedFromShelf /\ ShelfOfWorks /\ RightEpisode /\ LookupsType /\ FilmInv

LEMMA LookInitially == LookupsInit => LookInv
BY DEF LookupsInit, LookInv, ServedFromShelf, ShelfOfWorks, RightEpisode, LookupsType, FilmInv, NotAsked, NoEpisode

LEMMA EpisodeLooked ==
  ASSUME LookInv, NEW key \in Asked, NEW s \in {1, 2}, LookEpisode(key, s)
  PROVE  LookInv'
<1>1. PICK d \in IF key \in DOMAIN shelf THEN {shelf[key]} ELSE LookedUp(key) :
        /\ shelf' = IF key \in DOMAIN shelf THEN shelf ELSE Keep(key, d)
        /\ served' = served \cup {[key |-> key, got |-> d]}
        /\ IF d.show = None THEN latest' = NoEpisode
           ELSE \E from \in {{}} \cup {{t} : t \in SeasonsTried(s)}, o \in OmdbEpisode(d) :
                  latest' = [show |-> d.show, season |-> s, from |-> from, omdb |-> o]
  BY DEF LookEpisode
<1>2. key \in DOMAIN shelf' /\ shelf'[key] = d
  BY <1>1 DEF Keep
<1>3. \A k \in DOMAIN shelf : k \in DOMAIN shelf' /\ shelf'[k] = shelf[k]
  BY <1>1 DEF Keep
<1>4. ServedFromShelf'
  BY <1>1, <1>2, <1>3 DEF LookInv, ServedFromShelf
<1>7. inquiry' = inquiry /\ FilmInv'
  BY DEF LookEpisode, LookInv, FilmInv
<1>8. DOMAIN shelf' = DOMAIN shelf \cup {key} /\ DOMAIN shelf' \subseteq Asked
  BY <1>1 DEF Keep, LookInv, LookupsType
<1>9. d.show \in Works \cup {None}
  BY <1>1, LookedUpIs DEF LookInv, ShelfOfWorks
<1>10. ShelfOfWorks'
  BY <1>2, <1>3, <1>8, <1>9 DEF LookInv, ShelfOfWorks
<1>5. CASE d.show = None
  BY <1>1, <1>4, <1>5, <1>7, <1>8, <1>10 DEF LookInv, LookupsType, RightEpisode, NoEpisode
<1>6. CASE d.show # None
  <2>1. PICK from \in {{}} \cup {{t} : t \in SeasonsTried(s)}, o \in OmdbEpisode(d) :
          latest' = [show |-> d.show, season |-> s, from |-> from, omdb |-> o]
    BY <1>1, <1>6
  <2>2. from \subseteq {s} \cup (IF s = 1 THEN {0} ELSE {})
    BY DEF SeasonsTried
  <2>3. o = None \/ o = d.number \/ d.number = None
    BY DEF OmdbEpisode
  <2>4. o \in {None, d.show} \/ d.number # d.show
    BY <1>6, <2>3
  <2>5. o \in {None, d.show} \/ \E k \in DOMAIN shelf' : shelf'[k].show = d.show /\ shelf'[k].number # d.show
    BY <1>2, <2>4
  <2>6. latest'.show = d.show /\ latest'.season = s /\ latest'.from = from /\ latest'.omdb = o
    BY <2>1
  <2>7. RightEpisode'
    BY <2>2, <2>5, <2>6 DEF RightEpisode
  <2>8. LookupsType'
    BY <1>7, <1>8, <1>9, <2>6 DEF LookInv, LookupsType
  <2>. QED  BY <1>4, <1>7, <1>10, <2>7, <2>8 DEF LookInv
<1>. QED  BY <1>5, <1>6

\* What is asked leaves what a run has looked up.
LEMMA Inquired ==
  ASSUME LookInv, UNCHANGED <<shelf, served, latest>>,
         inquiry'.of \in {"nothing", "film", "episode", "title", "hosted", "piped", "run"}, inquiry'.of = "film" => inquiry' \in FilmAsked
  PROVE  LookInv'
BY DEF LookInv, ServedFromShelf, ShelfOfWorks, RightEpisode, LookupsType, FilmInv

LEMMA SiteLooked ==
  ASSUME LookInv, NEW s \in {1, 2}, SiteEpisode(s)
  PROVE  LookInv'
<1>1. UNCHANGED <<inquiry, shelf, served>>
  BY DEF SiteEpisode
<1>2. ServedFromShelf' /\ ShelfOfWorks' /\ FilmInv'
  BY <1>1 DEF LookInv, ServedFromShelf, ShelfOfWorks, FilmInv
<1>3. PICK list \in Lists : IF list = <<>> THEN latest' = NoEpisode
        ELSE \E from \in {{}, {s}} : latest' = [show |-> list[1], season |-> s, from |-> from, omdb |-> None]
  BY DEF SiteEpisode
<1>4. CASE list = <<>>
  BY <1>1, <1>2, <1>3, <1>4 DEF LookInv, LookupsType, RightEpisode, NoEpisode
<1>5. CASE list # <<>>
  <2>1. 1 \in DOMAIN list
    <3>1. PICK n \in 0 .. 2 : list \in [1 .. n -> Works]
      BY DEF Lists
    <3>2. n # 0
      BY <1>5, <3>1
    <3>. QED  BY <3>1, <3>2
  <2>2. list[1] \in Works
    BY <2>1, ListsAre
  <2>3. PICK from \in {{}, {s}} : latest' = [show |-> list[1], season |-> s, from |-> from, omdb |-> None]
    BY <1>3, <1>5
  <2>4. latest'.show \in Works /\ latest'.from \subseteq {latest'.season} /\ latest'.omdb = None
    BY <2>2, <2>3
  <2>. QED  BY <1>1, <1>2, <2>4 DEF LookInv, LookupsType, RightEpisode
<1>. QED  BY <1>4, <1>5

LEMMA LookInductive == LookInv /\ [LookupsNext]_lookupVars => LookInv'
<1>. SUFFICES ASSUME LookInv, [LookupsNext]_lookupVars PROVE LookInv'
  OBVIOUS
<1>1. CASE \E s \in {1, 2} : SiteEpisode(s)
  BY <1>1, SiteLooked
<1>2. CASE \E key \in Asked, s \in {1, 2} : LookEpisode(key, s)
  BY <1>2, EpisodeLooked
<1>3. CASE TakeFilm
  <2>1. inquiry' \in FilmAsked /\ UNCHANGED <<shelf, served, latest>>
    BY <1>3 DEF TakeFilm
  <2>2. inquiry'.of = "film"
    BY <2>1 DEF FilmAsked
  <2>. QED  BY <2>1, <2>2, Inquired
<1>4. CASE TakeEpisode
  <2>1. inquiry'.of = "episode" /\ UNCHANGED <<shelf, served, latest>>
    BY <1>4 DEF TakeEpisode
  <2>. QED  BY <2>1, Inquired
<1>5. CASE TakeTitle
  <2>1. inquiry'.of = "title" /\ UNCHANGED <<shelf, served, latest>>
    BY <1>5 DEF TakeTitle
  <2>. QED  BY <2>1, Inquired
<1>6. CASE TakeHosted
  <2>1. inquiry'.of = "hosted" /\ UNCHANGED <<shelf, served, latest>>
    BY <1>6 DEF TakeHosted
  <2>. QED  BY <2>1, Inquired
<1>7. CASE TakePiped
  <2>1. inquiry'.of = "piped" /\ UNCHANGED <<shelf, served, latest>>
    BY <1>7 DEF TakePiped
  <2>. QED  BY <2>1, Inquired
<1>8. CASE TakeRun
  <2>1. inquiry'.of = "run" /\ UNCHANGED <<shelf, served, latest>>
    BY <1>8 DEF TakeRun
  <2>. QED  BY <2>1, Inquired
<1>9. CASE UNCHANGED lookupVars
  <2>1. inquiry' = inquiry /\ UNCHANGED <<shelf, served, latest>>
    BY <1>9 DEF lookupVars
  <2>. QED  BY <2>1, Inquired DEF LookInv, LookupsType, FilmInv
<1>. QED  BY <1>1, <1>2, <1>3, <1>4, <1>5, <1>6, <1>7, <1>8, <1>9 DEF LookupsNext

LEMMA LookInvSafe == LookInv => LookupsType /\ FilmFits /\ OneFilm /\ OneSeries /\ RightEpisode
<1>. SUFFICES ASSUME LookInv PROVE LookupsType /\ FilmFits /\ OneFilm /\ OneSeries /\ RightEpisode
  OBVIOUS
<1>1. OneSeries
  BY DEF LookInv, ServedFromShelf, OneSeries
<1>2. FilmFits /\ OneFilm
  BY FilmInvSafe DEF LookInv
<1>. QED  BY <1>1, <1>2 DEF LookInv
-----------------------------------------------------------------------------
(***************************************************************************)
(* Rules.  The timeline of any table over any range is what each instant   *)
(* gets.  The windows rule.between is asked for are those that overlap the *)
(* range (OccurrencesAre); the best by rank is the one with the best claim *)
(* (WinnersAre); and the winners stay from one cut to the next, since at   *)
(* the first time they are others a window begins or ends (SameStretch).   *)
(***************************************************************************)
\* A schedule of a table.
Scheduled(s) ==
  /\ s.id \in Nat /\ s.scope \in Scopes /\ s.start \in Nat /\ s.end \in Nat
  /\ s.every \in Nat /\ s.lasts \in Nat /\ s.priority \in Int /\ Sane(s)

LEMMA TimetableIs ==
  ASSUME NEW table, Timetable(table)
  PROVE  (\A s \in table : Scheduled(s)) /\ \A s, q \in table : s.id = q.id => s = q
BY DEF Timetable, Scheduled

\* All windows of s, whenever.
Begins(s) == {u \in Nat : s.start <= u /\ u < s.end /\ IF s.every = 0 THEN u = s.start ELSE (u - s.start) % s.every = 0}
Closes(s, u) == IF s.every = 0 THEN s.end ELSE Min({u + s.lasts, s.end})
Window(s, u) == [s |-> s, start |-> u, end |-> Closes(s, u)]
WindowsOf(s) == {Window(s, u) : u \in Begins(s)}
OpenAt(o, t) == o.start <= t /\ t < o.end

LEMMA LesserOf ==
  ASSUME NEW a \in Int, NEW b \in Int
  PROVE  /\ Min({a, b}) \in {a, b} /\ Min({a, b}) <= a /\ Min({a, b}) <= b
<1>1. \E x \in {a, b} : \A y \in {a, b} : x <= y
  OBVIOUS
<1>. QED  BY <1>1 DEF Min

LEMMA ClosesIs ==
  ASSUME NEW s, Scheduled(s), NEW u \in Begins(s)
  PROVE  /\ Closes(s, u) \in Nat /\ u \in Nat /\ u < Closes(s, u)
         /\ s.every # 0 => Closes(s, u) <= u + s.lasts
<1>1. u \in Nat /\ u < s.end /\ s.start <= u /\ s.start \in Nat /\ s.end \in Nat /\ s.lasts \in Nat
  BY DEF Begins, Scheduled
<1>2. CASE s.every = 0
  BY <1>1, <1>2 DEF Closes
<1>3. CASE s.every # 0
  <2>1. s.lasts > 0
    BY <1>3 DEF Scheduled, Sane
  <2>2. Closes(s, u) = Min({u + s.lasts, s.end})
    BY <1>3 DEF Closes
  <2>3. u + s.lasts \in Int /\ s.end \in Int
    BY <1>1
  <2>4. Closes(s, u) \in {u + s.lasts, s.end} /\ Closes(s, u) <= u + s.lasts
    BY <2>2, <2>3, LesserOf
  <2>. QED  BY <2>1, <2>4, <1>1
<1>. QED  BY <1>2, <1>3

LEMMA WindowIs ==
  ASSUME NEW s, Scheduled(s), NEW o \in WindowsOf(s)
  PROVE  o.s = s /\ o.start \in Nat /\ o.end \in Nat /\ o.start < o.end /\ o.start \in Begins(s) /\ o.end = Closes(s, o.start)
<1>1. PICK u \in Begins(s) : o = Window(s, u)
  BY DEF WindowsOf
<1>. QED  BY <1>1, ClosesIs DEF Window

\* What rule.between is asked from one length back is what overlaps the range.
LEMMA OccurrencesAre ==
  ASSUME NEW s, Scheduled(s), NEW from \in Nat, NEW to \in Nat, from < to
  PROVE  Occurrences(s, from, to) = {o \in WindowsOf(s) : o.end > from /\ o.start < to}
<1>1. s.start \in Nat /\ s.end \in Nat /\ s.every \in Nat /\ s.lasts \in Nat /\ s.end > s.start
  BY DEF Scheduled, Sane
<1>2. CASE s.every = 0
  <2>1. Begins(s) = {s.start}
    BY <1>1, <1>2 DEF Begins
  <2>2. Closes(s, s.start) = s.end
    BY <1>2 DEF Closes
  <2>. DEFINE w == [s |-> s, start |-> s.start, end |-> s.end]
  <2>3. WindowsOf(s) = {w}
    BY <2>1, <2>2 DEF WindowsOf, Window
  <2>4. Occurrences(s, from, to) = IF s.end <= from \/ s.start >= to THEN {} ELSE {w}
    BY <1>2 DEF Occurrences
  <2>5. w.end = s.end /\ w.start = s.start
    OBVIOUS
  <2>. HIDE DEF w
  <2>. QED  BY <1>1, <2>3, <2>4, <2>5
<1>3. CASE s.every # 0
  <2>. DEFINE starts == {t \in from - s.lasts .. to : s.every > 0 /\ t >= s.start /\ (t - s.start) % s.every = 0}
              found == {Window(s, t) : t \in {u \in starts : u < s.end}}
  <2>1. Occurrences(s, from, to) = {o \in found : o.end > from /\ o.start < to}
    BY <1>3 DEF Occurrences, Window, Closes
  <2>2. ASSUME NEW u, u \in starts, u < s.end
        PROVE  u \in Begins(s)
    BY <1>1, <1>3, <2>2 DEF Begins
  <2>3. ASSUME NEW u \in Begins(s), Closes(s, u) > from, u < to
        PROVE  u \in starts /\ u < s.end
    <3>1. u \in Nat /\ Closes(s, u) \in Nat /\ Closes(s, u) <= u + s.lasts
      BY <1>3, ClosesIs
    <3>2. u >= from - s.lasts /\ u <= to
      BY <3>1, <2>3, <1>1
    <3>3. u >= s.start /\ u < s.end /\ (u - s.start) % s.every = 0 /\ s.every > 0
      BY <1>1, <1>3 DEF Begins
    <3>. QED  BY <3>1, <3>2, <3>3, <1>1
  <2>. HIDE DEF starts
  <2>4. \A o \in found : o \in WindowsOf(s)
    BY <2>2 DEF WindowsOf
  <2>5. \A o \in WindowsOf(s) : o.end > from /\ o.start < to => o \in found
    <3>. SUFFICES ASSUME NEW o \in WindowsOf(s), o.end > from, o.start < to
                  PROVE  o \in found
      OBVIOUS
    <3>1. PICK u \in Begins(s) : o = Window(s, u)
      BY DEF WindowsOf
    <3>2. o.end = Closes(s, u) /\ o.start = u
      BY <3>1 DEF Window
    <3>. QED  BY <3>1, <3>2, <2>3
  <2>. HIDE DEF found
  <2>. QED  BY <2>1, <2>4, <2>5
<1>. QED  BY <1>2, <1>3
-----------------------------------------------------------------------------
AllWindows(table) == UNION {WindowsOf(s) : s \in table}
OpenIn(table, t, c) == {o \in AllWindows(table) : o.s.scope = c /\ OpenAt(o, t)}

LEMMA AllWindowsAre ==
  ASSUME NEW table, Timetable(table), NEW o \in AllWindows(table)
  PROVE  /\ o.s \in table /\ o \in WindowsOf(o.s) /\ Scheduled(o.s)
         /\ o.start \in Nat /\ o.end \in Nat /\ o.start < o.end
<1>1. PICK s \in table : o \in WindowsOf(s)
  BY DEF AllWindows
<1>2. Scheduled(s)
  BY TimetableIs
<1>. QED  BY <1>1, <1>2, WindowIs

LEMMA OverlappingAre ==
  ASSUME NEW table, Timetable(table), NEW from \in Nat, NEW to \in Nat, from < to
  PROVE  UNION {Occurrences(s, from, to) : s \in table} = {o \in AllWindows(table) : o.end > from /\ o.start < to}
<1>1. \A s \in table : Occurrences(s, from, to) = {o \in WindowsOf(s) : o.end > from /\ o.start < to}
  BY OccurrencesAre, TimetableIs
<1>. QED  BY <1>1 DEF AllWindows

LEMMA ActiveIs ==
  ASSUME NEW table, Timetable(table), NEW t \in Nat, NEW c
  PROVE  ActiveAt(table, t, c) = {o \in OpenIn(table, t, c) : \A p \in OpenIn(table, t, c) : ~Before(Rank(p), Rank(o))}
<1>. DEFINE open == {o \in UNION {Occurrences(s, t, t + 1) : s \in table} : o.s.scope = c /\ o.start <= t /\ t < o.end}
<1>1. ActiveAt(table, t, c) = {o \in open : \A p \in open : ~Before(Rank(p), Rank(o))}
  BY DEF ActiveAt
<1>2. UNION {Occurrences(s, t, t + 1) : s \in table} = {o \in AllWindows(table) : o.end > t /\ o.start < t + 1}
  BY OverlappingAre
<1>3. \A o \in AllWindows(table) : o.start \in Nat /\ o.end \in Nat
  BY AllWindowsAre
<1>4. open = OpenIn(table, t, c)
  BY <1>2, <1>3 DEF OpenIn, OpenAt
<1>. HIDE DEF open
<1>. QED  BY <1>1, <1>4

Span(o) == o.end - o.start
Outranks(p, o) ==
  \/ p.s.priority > o.s.priority
  \/ p.s.priority = o.s.priority /\ Span(p) < Span(o)
  \/ p.s.priority = o.s.priority /\ Span(p) = Span(o) /\ p.s.id > o.s.id

LEMMA BeforeIs ==
  ASSUME NEW table, Timetable(table), NEW o \in AllWindows(table), NEW p \in AllWindows(table)
  PROVE  Before(Rank(p), Rank(o)) <=> Outranks(p, o)
<1>1. /\ o.s.priority \in Int /\ p.s.priority \in Int /\ o.s.id \in Nat /\ p.s.id \in Nat
      /\ Span(o) \in Int /\ Span(p) \in Int
  BY AllWindowsAre DEF Scheduled, Span
<1>. DEFINE a == Rank(p)  b == Rank(o)
<1>2. /\ a[1] = -p.s.priority /\ a[2] = Span(p) /\ a[3] = -p.s.id
      /\ b[1] = -o.s.priority /\ b[2] = Span(o) /\ b[3] = -o.s.id
  BY DEF Rank, Span
<1>. HIDE DEF a, b
<1>3. Before(a, b) <=> \/ a[1] < b[1]
                       \/ a[1] = b[1] /\ a[2] < b[2]
                       \/ a[1] = b[1] /\ a[2] = b[2] /\ a[3] < b[3]
  <2>1. 1 .. 3 = {1, 2, 3} /\ 1 .. 1 - 1 = {} /\ 1 .. 2 - 1 = {1} /\ 1 .. 3 - 1 = {1, 2}
    OBVIOUS
  <2>. QED  BY <2>1 DEF Before
<1>. QED  BY <1>1, <1>2, <1>3 DEF Outranks, a, b
-----------------------------------------------------------------------------
\* The reference.
Shortest(s, t) == Min({w.end - w.start : w \in Opened(s, t)})
OpenOf(table, t, c) == {s \in table : s.scope = c /\ Opened(s, t) # {}}
Better(s, q, t) ==
  \/ s.priority > q.priority
  \/ s.priority = q.priority /\ Shortest(s, t) < Shortest(q, t)
  \/ s.priority = q.priority /\ Shortest(s, t) = Shortest(q, t) /\ s.id > q.id
Wins(table, s, t, c) == s \in OpenOf(table, t, c) /\ \A q \in OpenOf(table, t, c) \ {s} : Better(s, q, t)

LEMMA OpenedIs ==
  ASSUME NEW s, Scheduled(s), NEW t \in Nat
  PROVE  /\ \A w \in Opened(s, t) : \E o \in WindowsOf(s) : OpenAt(o, t) /\ o.start = w.start /\ o.end = w.end
         /\ \A o \in WindowsOf(s) : OpenAt(o, t) => \E w \in Opened(s, t) : o.start = w.start /\ o.end = w.end
<1>1. s.start \in Nat /\ s.end \in Nat /\ s.every \in Nat /\ s.lasts \in Nat
  BY DEF Scheduled
<1>2. \A u : u \in Started(s, t) <=> u \in Begins(s) /\ u <= t
  BY <1>1 DEF Started, Begins
<1>3. ASSUME NEW w \in Opened(s, t)
      PROVE  \E o \in WindowsOf(s) : OpenAt(o, t) /\ o.start = w.start /\ o.end = w.end
  <2>1. w.start \in Started(s, t) /\ w.end \in OpenEnds(s, t) /\ w.end = Closes(s, w.start)
    BY DEF Opened, Closes
  <2>2. t < w.end
    BY <2>1 DEF OpenEnds
  <2>3. w.start \in Begins(s) /\ w.start <= t
    BY <2>1, <1>2
  <2>4. Window(s, w.start) \in WindowsOf(s)
    BY <2>3 DEF WindowsOf
  <2>5. Window(s, w.start).start = w.start /\ Window(s, w.start).end = w.end
    BY <2>1 DEF Window
  <2>. QED  BY <2>2, <2>3, <2>4, <2>5 DEF OpenAt
<1>4. ASSUME NEW o \in WindowsOf(s), OpenAt(o, t)
      PROVE  \E w \in Opened(s, t) : o.start = w.start /\ o.end = w.end
  <2>1. o.start \in Begins(s) /\ o.end = Closes(s, o.start) /\ o.start <= t /\ t < o.end
    BY <1>4, WindowIs DEF OpenAt
  <2>2. o.start \in Started(s, t)
    BY <2>1, <1>2
  <2>3. o.end \in OpenEnds(s, t)
    BY <2>1, <2>2 DEF OpenEnds, Closes
  <2>. DEFINE w == [start |-> o.start, end |-> o.end]
  <2>4. w \in [start : Started(s, t), end : OpenEnds(s, t)]
    BY <2>2, <2>3
  <2>5. w.end = Closes(s, w.start) /\ w.start = o.start /\ w.end = o.end
    BY <2>1
  <2>. HIDE DEF w
  <2>6. w \in Opened(s, t)
    BY <2>4, <2>5 DEF Opened, Closes
  <2>. QED  BY <2>5, <2>6
<1>. QED  BY <1>3, <1>4

LEMMA LengthIs ==
  ASSUME NEW s, Scheduled(s), NEW t \in Nat, Opened(s, t) # {}
  PROVE  /\ \E o \in WindowsOf(s) : OpenAt(o, t) /\ Span(o) = Shortest(s, t)
         /\ \A o \in WindowsOf(s) : OpenAt(o, t) => Shortest(s, t) <= Span(o)
<1>. DEFINE spans == {w.end - w.start : w \in Opened(s, t)}
<1>1. \A w \in Opened(s, t) : \E o \in WindowsOf(s) : OpenAt(o, t) /\ o.start = w.start /\ o.end = w.end
  BY OpenedIs
<1>2. \A o \in WindowsOf(s) : OpenAt(o, t) => \E w \in Opened(s, t) : o.start = w.start /\ o.end = w.end
  BY OpenedIs
<1>3. \A o \in WindowsOf(s) : Span(o) \in Nat
  BY WindowIs DEF Span
<1>4. \A x \in spans : \E o \in WindowsOf(s) : OpenAt(o, t) /\ Span(o) = x
  BY <1>1 DEF Span
<1>5. \A o \in WindowsOf(s) : OpenAt(o, t) => Span(o) \in spans
  BY <1>2 DEF Span
<1>6. spans # {}
  OBVIOUS
<1>7. Shortest(s, t) = Min(spans)
  BY DEF Shortest
<1>. HIDE DEF spans
<1>8. spans \subseteq Nat
  BY <1>3, <1>4
<1>9. \E x \in spans : \A y \in spans : x <= y
  BY <1>6, <1>8, NatMin
<1>10. Min(spans) \in spans /\ \A y \in spans : Min(spans) <= y
  BY <1>9 DEF Min
<1>. QED  BY <1>4, <1>5, <1>7, <1>10
-----------------------------------------------------------------------------
\* Who wins by rank is who has the best claim.
LEMMA WinnersAre ==
  ASSUME NEW table, Timetable(table), NEW t \in Nat, NEW c \in Scopes
  PROVE  Winners(table, t)[c] = {s.id : s \in {q \in table : Wins(table, q, t, c)}}
<1>. DEFINE open == OpenIn(table, t, c)
            first == {o \in open : \A p \in open : ~Before(Rank(p), Rank(o))}
<1>1. Winners(table, t)[c] = {o.s.id : o \in first}
  BY ActiveIs DEF Winners
<1>2. first = {o \in open : \A p \in open : ~Outranks(p, o)}
  BY BeforeIs DEF OpenIn
<1>3. \A o \in open : /\ o.s \in OpenOf(table, t, c) /\ Scheduled(o.s) /\ o.s \in table /\ o \in WindowsOf(o.s)
                      /\ OpenAt(o, t) /\ Span(o) \in Int
                      /\ Shortest(o.s, t) <= Span(o)
  <2>. SUFFICES ASSUME NEW o \in open
                PROVE  /\ o.s \in OpenOf(table, t, c) /\ Scheduled(o.s) /\ o.s \in table /\ o \in WindowsOf(o.s)
                       /\ OpenAt(o, t) /\ Span(o) \in Int
                       /\ Shortest(o.s, t) <= Span(o)
    OBVIOUS
  <2>1. /\ o.s \in table /\ o \in WindowsOf(o.s) /\ Scheduled(o.s) /\ o.s.scope = c /\ OpenAt(o, t)
        /\ o.start \in Nat /\ o.end \in Nat
    BY AllWindowsAre DEF OpenIn
  <2>2. Opened(o.s, t) # {}
    BY <2>1, OpenedIs
  <2>3. Shortest(o.s, t) <= Span(o)
    BY <2>1, <2>2, LengthIs
  <2>. QED  BY <2>1, <2>2, <2>3 DEF OpenOf, Span
<1>4. \A s \in OpenOf(table, t, c) :
        Shortest(s, t) \in Int /\ s.priority \in Int /\ s.id \in Nat
        /\ \E o \in open : o.s = s /\ Span(o) = Shortest(s, t)
  <2>. SUFFICES ASSUME NEW s \in OpenOf(table, t, c)
                PROVE  Shortest(s, t) \in Int /\ s.priority \in Int /\ s.id \in Nat
                       /\ \E o \in open : o.s = s /\ Span(o) = Shortest(s, t)
    OBVIOUS
  <2>1. s \in table /\ Scheduled(s) /\ s.scope = c /\ Opened(s, t) # {}
    BY TimetableIs DEF OpenOf
  <2>2. PICK o \in WindowsOf(s) : OpenAt(o, t) /\ Span(o) = Shortest(s, t)
    BY <2>1, LengthIs
  <2>3. o.s = s /\ Span(o) \in Int
    BY <2>1, WindowIs DEF Span
  <2>4. o \in open
    BY <2>1, <2>2, <2>3 DEF OpenIn, AllWindows
  <2>. QED  BY <2>1, <2>2, <2>3, <2>4 DEF Scheduled
<1>. HIDE DEF open, first
<1>5. ASSUME NEW o \in first
      PROVE  Wins(table, o.s, t, c)
  <2>1. o \in open /\ \A p \in open : ~Outranks(p, o)
    BY <1>2
  <2>2. o.s \in OpenOf(table, t, c) /\ o.s \in table /\ Span(o) \in Int /\ Shortest(o.s, t) <= Span(o)
    BY <1>3, <2>1
  <2>3. Shortest(o.s, t) = Span(o)
    <3>1. PICK p \in open : p.s = o.s /\ Span(p) = Shortest(o.s, t)
      BY <1>4, <2>2
    <3>2. ~(Span(p) < Span(o))
      BY <2>1, <3>1 DEF Outranks
    <3>. QED  BY <1>4, <2>2, <3>1, <3>2
  <2>4. ASSUME NEW q \in OpenOf(table, t, c) \ {o.s}
        PROVE  Better(o.s, q, t)
    <3>1. PICK p \in open : p.s = q /\ Span(p) = Shortest(q, t)
      BY <1>4
    <3>2. ~Outranks(p, o)
      BY <2>1
    <3>3. q \in table /\ q.id # o.s.id
      BY <2>2, TimetableIs DEF OpenOf
    <3>4. /\ o.s.priority \in Int /\ q.priority \in Int /\ o.s.id \in Nat /\ q.id \in Nat
          /\ Shortest(q, t) \in Int /\ Shortest(o.s, t) \in Int
      BY <1>4, <2>2
    <3>. QED  BY <2>3, <3>1, <3>2, <3>3, <3>4 DEF Outranks, Better
  <2>. QED  BY <2>2, <2>4 DEF Wins
<1>6. ASSUME NEW s \in table, Wins(table, s, t, c)
      PROVE  \E o \in first : o.s = s
  <2>1. s \in OpenOf(table, t, c) /\ \A q \in OpenOf(table, t, c) \ {s} : Better(s, q, t)
    BY <1>6 DEF Wins
  <2>2. PICK o \in open : o.s = s /\ Span(o) = Shortest(s, t)
    BY <1>4, <2>1
  <2>3. ASSUME NEW p \in open, Outranks(p, o) PROVE FALSE
    <3>1. p.s \in OpenOf(table, t, c) /\ Span(p) \in Int /\ Shortest(p.s, t) <= Span(p)
      BY <1>3
    <3>2. /\ s.priority \in Int /\ p.s.priority \in Int /\ s.id \in Nat /\ p.s.id \in Nat
          /\ Shortest(p.s, t) \in Int /\ Shortest(s, t) \in Int
      BY <1>4, <2>1, <3>1
    <3>3. CASE p.s = s
      BY <2>2, <2>3, <3>1, <3>2, <3>3 DEF Outranks
    <3>4. CASE p.s # s
      <4>1. Better(s, p.s, t)
        BY <2>1, <3>1, <3>4
      <4>. QED  BY <4>1, <2>2, <2>3, <3>1, <3>2 DEF Outranks, Better
    <3>. QED  BY <3>3, <3>4
  <2>4. o \in first
    BY <1>2, <2>3
  <2>. QED  BY <2>2, <2>4
<1>7. \A o \in first : o.s \in table
  BY <1>2, <1>3
<1>. QED  BY <1>1, <1>5, <1>6, <1>7
-----------------------------------------------------------------------------
\* The timeline in named parts.
Overlapping(table, from, to) == UNION {Occurrences(s, from, to) : s \in table}
Points(table, from, to) ==
  {from} \cup {p \in {o.start : o \in Overlapping(table, from, to)} \cup {o.end : o \in Overlapping(table, from, to)} :
                 from < p /\ p < to}
PointBefore(table, from, to, p) == Max({q \in Points(table, from, to) : q < p})
Cuts(table, from, to) ==
  {p \in Points(table, from, to) :
     p = from \/ Winners(table, p) # Winners(table, PointBefore(table, from, to, p))}
CutAfter(table, from, to, p) == Min({q \in Cuts(table, from, to) : q > p} \cup {to})
Stretch(table, from, to, p) ==
  [start |-> p, end |-> CutAfter(table, from, to, p), winners |-> Winners(table, p)]

LEMMA TimelineIs ==
  ASSUME NEW table, NEW from, NEW to
  PROVE  /\ Timeline(table, from, to).segments = {Stretch(table, from, to, p) : p \in Cuts(table, from, to)}
         /\ Timeline(table, from, to).shadowed =
              {o.s.id : o \in Overlapping(table, from, to)}
                \ UNION {Winners(table, p)[c] : p \in Points(table, from, to), c \in Scopes}
BY DEF Timeline, Stretch, CutAfter, Cuts, PointBefore, Points, Overlapping

\* Between two points nothing changes.
LEMMA SameBetween ==
  ASSUME NEW table, Timetable(table), NEW from \in Nat, NEW to \in Nat, NEW p \in Nat, NEW t \in Nat,
         from <= p, p <= t, t < to, \A q \in Points(table, from, to) : ~(p < q /\ q <= t)
  PROVE  Winners(table, t) = Winners(table, p)
<1>1. Overlapping(table, from, to) = {o \in AllWindows(table) : o.end > from /\ o.start < to}
  BY OverlappingAre DEF Overlapping
<1>2. ASSUME NEW o \in AllWindows(table) PROVE OpenAt(o, t) <=> OpenAt(o, p)
  <2>1. o.start \in Nat /\ o.end \in Nat /\ o.start < o.end
    BY AllWindowsAre
  <2>2. ASSUME OpenAt(o, t) PROVE OpenAt(o, p)
    <3>1. o \in Overlapping(table, from, to)
      BY <1>1, <2>1, <2>2 DEF OpenAt
    <3>2. ~(p < o.start)
      <4>. SUFFICES ASSUME p < o.start PROVE FALSE
        OBVIOUS
      <4>1. o.start \in Points(table, from, to)
        BY <2>1, <2>2, <3>1 DEF Points, OpenAt
      <4>. QED  BY <4>1, <2>2 DEF OpenAt
    <3>. QED  BY <2>1, <2>2, <3>2 DEF OpenAt
  <2>3. ASSUME OpenAt(o, p) PROVE OpenAt(o, t)
    <3>1. o \in Overlapping(table, from, to)
      BY <1>1, <2>1, <2>3 DEF OpenAt
    <3>2. ~(o.end <= t)
      <4>. SUFFICES ASSUME o.end <= t PROVE FALSE
        OBVIOUS
      <4>1. o.end \in Points(table, from, to)
        BY <2>1, <2>3, <3>1 DEF Points, OpenAt
      <4>. QED  BY <4>1, <2>1, <2>3 DEF OpenAt
    <3>. QED  BY <2>1, <2>3, <3>2 DEF OpenAt
  <2>. QED  BY <2>2, <2>3
<1>3. \A c : OpenIn(table, t, c) = OpenIn(table, p, c)
  BY <1>2 DEF OpenIn
<1>4. \A c : ActiveAt(table, t, c) = ActiveAt(table, p, c)
  BY <1>3, ActiveIs
<1>. QED  BY <1>4 DEF Winners

LEMMA PointsAre ==
  ASSUME NEW table, Timetable(table), NEW from \in Nat, NEW to \in Nat, from < to
  PROVE  /\ Points(table, from, to) \subseteq {t \in Nat : from <= t /\ t < to}
         /\ from \in Points(table, from, to)
         /\ Cuts(table, from, to) \subseteq Points(table, from, to) /\ from \in Cuts(table, from, to)
<1>1. \A o \in Overlapping(table, from, to) : o.start \in Nat /\ o.end \in Nat
  BY OverlappingAre, AllWindowsAre DEF Overlapping
<1>. QED  BY <1>1 DEF Points, Cuts

\* A set of times up to one has a last.
LEMMA LastOf ==
  ASSUME NEW S, S \subseteq Nat, S # {}, NEW t \in Nat, \A x \in S : x <= t
  PROVE  /\ \E x \in S : \A y \in S : x >= y
         /\ Max(S) \in S /\ \A y \in S : Max(S) >= y
<1>1. IsFiniteSet(0 .. t)
  BY FS_Interval
<1>2. IsFiniteSet(S)
  <2>1. S \subseteq 0 .. t
    OBVIOUS
  <2>. QED  BY <1>1, <2>1, FS_Subset
<1>3. \E x \in S : \A y \in S : x >= y
  BY <1>2, NatMax
<1>. QED  BY <1>3 DEF Max

LEMMA PointBeforeIs ==
  ASSUME NEW table, Timetable(table), NEW from \in Nat, NEW to \in Nat, from < to,
         NEW p \in Points(table, from, to), p # from
  PROVE  LET b == PointBefore(table, from, to, p)
         IN b \in Points(table, from, to) /\ b < p /\ \A q \in Points(table, from, to) : q < p => q <= b
<1>. DEFINE S == {q \in Points(table, from, to) : q < p}
<1>1. /\ p \in Nat /\ from < p /\ \A q \in Points(table, from, to) : q \in Nat
      /\ from \in Points(table, from, to)
  BY PointsAre
<1>2. S \subseteq Nat /\ S # {} /\ \A x \in S : x <= p
  <2>1. from \in S
    BY <1>1
  <2>2. \A x \in S : x \in Nat /\ x < p
    BY <1>1
  <2>. HIDE DEF S
  <2>. QED  BY <1>1, <2>1, <2>2
<1>3. PointBefore(table, from, to, p) = Max(S)
  BY DEF PointBefore
<1>4. Max(S) \in S /\ \A y \in S : Max(S) >= y
  <2>. HIDE DEF S
  <2>. QED  BY <1>1, <1>2, LastOf
<1>. QED  BY <1>1, <1>3, <1>4

\* Between two cuts the winners stay: at the first time they were others there
\* is a point, and it is a cut.
LEMMA SameStretch ==
  ASSUME NEW table, Timetable(table), NEW from \in Nat, NEW to \in Nat, NEW p \in Nat, NEW t \in Nat,
         from <= p, p <= t, t < to, \A q \in Cuts(table, from, to) : ~(p < q /\ q <= t)
  PROVE  Winners(table, t) = Winners(table, p)
<1>. DEFINE Others == {u \in Nat : p <= u /\ u <= t /\ Winners(table, u) # Winners(table, p)}
<1>. SUFFICES ASSUME Others # {} PROVE FALSE
  OBVIOUS
<1>1. PICK u \in Others : \A v \in Others : u <= v
  <2>1. Others \subseteq Nat
    OBVIOUS
  <2>. HIDE DEF Others
  <2>. QED  BY <2>1, NatMin
<1>2. u \in Nat /\ p < u /\ u <= t /\ Winners(table, u) # Winners(table, p) /\ u # 0
  BY <1>1
<1>3. Winners(table, u - 1) = Winners(table, p)
  BY <1>1, <1>2
<1>4. u - 1 \in Nat /\ from <= u - 1 /\ u - 1 <= u /\ u < to /\ u > from
  BY <1>2
<1>. HIDE DEF Others
<1>5. u \in Points(table, from, to)
  <2>. SUFFICES ASSUME u \notin Points(table, from, to) PROVE FALSE
    OBVIOUS
  <2>1. \A q \in Points(table, from, to) : q \in Nat
    BY <1>4, PointsAre
  <2>2. \A q \in Points(table, from, to) : ~(u - 1 < q /\ q <= u)
    BY <1>2, <2>1
  <2>3. Winners(table, u) = Winners(table, u - 1)
    BY <1>2, <1>4, <2>2, SameBetween
  <2>. QED  BY <1>2, <1>3, <2>3
<1>6. PICK b : b = PointBefore(table, from, to, u)
  OBVIOUS
<1>7. b \in Points(table, from, to) /\ b < u /\ \A q \in Points(table, from, to) : q < u => q <= b
  BY <1>4, <1>5, <1>6, PointBeforeIs
<1>8. b \in Nat /\ from <= b /\ \A q \in Points(table, from, to) : q \in Nat
  BY <1>4, <1>7, PointsAre
<1>9. Winners(table, u - 1) = Winners(table, b)
  <2>1. b <= u - 1 /\ u - 1 < to /\ \A q \in Points(table, from, to) : ~(b < q /\ q <= u - 1)
    BY <1>2, <1>4, <1>7, <1>8
  <2>. QED  BY <1>4, <1>8, <2>1, SameBetween
<1>10. u \in Cuts(table, from, to)
  BY <1>2, <1>3, <1>5, <1>6, <1>9 DEF Cuts
<1>. QED  BY <1>2, <1>10

LEMMA CutAfterIs ==
  ASSUME NEW table, Timetable(table), NEW from \in Nat, NEW to \in Nat, from < to, NEW p \in Nat
  PROVE  LET a == CutAfter(table, from, to, p)
         IN /\ a \in Nat /\ a <= to /\ (a = to \/ (a \in Cuts(table, from, to) /\ a > p))
            /\ \A q \in Cuts(table, from, to) : q > p => a <= q
<1>. DEFINE S == {q \in Cuts(table, from, to) : q > p} \cup {to}
<1>1. S \subseteq Nat /\ S # {}
  BY PointsAre
<1>2. CutAfter(table, from, to, p) = Min(S)
  BY DEF CutAfter
<1>3. Min(S) \in S /\ \A y \in S : Min(S) <= y
  <2>. HIDE DEF S
  <2>1. \E x \in S : \A y \in S : x <= y
    BY <1>1, NatMin
  <2>. QED  BY <2>1 DEF Min
<1>. QED  BY <1>1, <1>2, <1>3

-----------------------------------------------------------------------------
\* An instant is in one stretch, which says who wins then.
StretchesAt(table, from, to, t) ==
  {g \in {Stretch(table, from, to, p) : p \in Cuts(table, from, to)} : g.start <= t /\ t < g.end}

LEMMA StretchAt ==
  ASSUME NEW table, Timetable(table), NEW from \in Nat, NEW to \in Nat, NEW t \in from .. to - 1
  PROVE  \E p \in Cuts(table, from, to) :
           /\ StretchesAt(table, from, to, t) = {Stretch(table, from, to, p)}
           /\ Winners(table, p) = Winners(table, t)
<1>. DEFINE S == {q \in Cuts(table, from, to) : q <= t}
<1>1. t \in Nat /\ from <= t /\ t < to /\ from < to
  OBVIOUS
<1>2. \A q \in Cuts(table, from, to) : q \in Nat /\ from <= q /\ q < to
  BY <1>1, PointsAre
<1>3. from \in Cuts(table, from, to)
  BY <1>1, PointsAre
<1>4. PICK p \in S : \A q \in S : p >= q
  <2>1. from \in S
    BY <1>1, <1>3
  <2>2. \A x \in S : x \in Nat /\ x <= t
    BY <1>2
  <2>. HIDE DEF S
  <2>. QED  BY <1>1, <2>1, <2>2, LastOf
<1>5. /\ p \in Cuts(table, from, to) /\ p \in Nat /\ from <= p /\ p <= t
      /\ \A q \in Cuts(table, from, to) : ~(p < q /\ q <= t)
  BY <1>2, <1>4
<1>. HIDE DEF S
<1>6. Winners(table, p) = Winners(table, t)
  BY <1>1, <1>5, SameStretch
<1>7. ASSUME NEW q \in Cuts(table, from, to)
      PROVE  q <= t /\ t < CutAfter(table, from, to, q) <=> q = p
  <2>1. PICK a : a = CutAfter(table, from, to, q)
    OBVIOUS
  <2>2. /\ a \in Nat /\ (a = to \/ (a \in Cuts(table, from, to) /\ a > q))
        /\ \A u \in Cuts(table, from, to) : u > q => a <= u
    BY <1>1, <1>2, <2>1, CutAfterIs
  <2>3. ASSUME q = p PROVE q <= t /\ t < a
    BY <1>1, <1>2, <1>5, <2>2, <2>3
  <2>4. ASSUME q <= t, t < a, q # p PROVE FALSE
    <3>1. q < p
      BY <1>2, <1>5, <2>4
    <3>. QED  BY <1>1, <1>5, <2>2, <2>4, <3>1
  <2>. QED  BY <2>1, <2>3, <2>4
<1>8. \A q : Stretch(table, from, to, q).start = q /\ Stretch(table, from, to, q).end = CutAfter(table, from, to, q)
  BY DEF Stretch
<1>9. StretchesAt(table, from, to, t) = {Stretch(table, from, to, p)}
  <2>1. \A g \in StretchesAt(table, from, to, t) : g = Stretch(table, from, to, p)
    BY <1>7, <1>8 DEF StretchesAt
  <2>2. Stretch(table, from, to, p) \in StretchesAt(table, from, to, t)
    BY <1>5, <1>7, <1>8 DEF StretchesAt
  <2>. QED  BY <2>1, <2>2
<1>. QED  BY <1>5, <1>6, <1>9

\* Neighbours differ.
LEMMA NeighboursDiffer ==
  ASSUME NEW table, Timetable(table), NEW from \in Nat, NEW to \in Nat, from < to,
         NEW p \in Cuts(table, from, to), NEW q \in Cuts(table, from, to), CutAfter(table, from, to, p) = q
  PROVE  Winners(table, p) # Winners(table, q)
<1>1. /\ \A u \in Cuts(table, from, to) : u \in Nat /\ from <= u /\ u < to /\ u \in Points(table, from, to)
      /\ \A u \in Points(table, from, to) : u \in Nat
  BY PointsAre
<1>2. q > p /\ \A u \in Cuts(table, from, to) : u > p => q <= u
  BY <1>1, CutAfterIs
<1>3. PICK b : b = PointBefore(table, from, to, q)
  OBVIOUS
<1>4. q # from /\ p \in Points(table, from, to)
  BY <1>1, <1>2
<1>5. b \in Points(table, from, to) /\ b < q /\ \A u \in Points(table, from, to) : u < q => u <= b
  BY <1>1, <1>3, <1>4, PointBeforeIs
<1>6. Winners(table, q) # Winners(table, b)
  BY <1>3, <1>4 DEF Cuts
<1>7. p <= b /\ b < to /\ b \in Nat /\ \A u \in Cuts(table, from, to) : ~(p < u /\ u <= b)
  BY <1>1, <1>2, <1>4, <1>5
<1>8. Winners(table, b) = Winners(table, p)
  BY <1>1, <1>7, SameStretch
<1>. QED  BY <1>6, <1>8

\* What comes in the range is open at some time of it.
LEMMA EverOpen ==
  ASSUME NEW table, Timetable(table), NEW from \in Nat, NEW to \in Nat, from < to, NEW s \in table
  PROVE  (\E o \in Overlapping(table, from, to) : o.s = s) <=> \E t \in from .. to - 1 : Opened(s, t) # {}
<1>1. Overlapping(table, from, to) = {o \in AllWindows(table) : o.end > from /\ o.start < to}
  BY OverlappingAre DEF Overlapping
<1>2. Scheduled(s)
  BY TimetableIs
<1>3. ASSUME NEW o \in Overlapping(table, from, to), o.s = s
      PROVE  \E t \in from .. to - 1 : Opened(s, t) # {}
  <2>1. o \in WindowsOf(s) /\ o.start \in Nat /\ o.end \in Nat /\ o.start < o.end /\ o.end > from /\ o.start < to
    BY <1>1, <1>3, AllWindowsAre
  <2>2. PICK t \in from .. to - 1 : OpenAt(o, t)
    <3>1. CASE o.start < from
      BY <2>1, <3>1 DEF OpenAt
    <3>2. CASE o.start >= from
      BY <2>1, <3>2 DEF OpenAt
    <3>. QED  BY <2>1, <3>1, <3>2
  <2>3. t \in Nat
    BY <2>2
  <2>. QED  BY <1>2, <2>1, <2>2, <2>3, OpenedIs
<1>4. ASSUME NEW t \in from .. to - 1, Opened(s, t) # {}
      PROVE  \E o \in Overlapping(table, from, to) : o.s = s
  <2>1. t \in Nat /\ from <= t /\ t < to
    OBVIOUS
  <2>2. PICK o \in WindowsOf(s) : OpenAt(o, t)
    BY <1>2, <1>4, <2>1, OpenedIs
  <2>3. o.s = s /\ o.start \in Nat /\ o.end \in Nat
    BY <1>2, WindowIs
  <2>4. o \in AllWindows(table)
    BY DEF AllWindows
  <2>. QED  BY <1>1, <2>1, <2>2, <2>3, <2>4 DEF OpenAt
<1>. QED  BY <1>3, <1>4

Reference(table, t, c) == {s.id : s \in {q \in table : Wins(table, q, t, c)}}

LEMMA TimelineTrueIs ==
  ASSUME NEW table, NEW from, NEW to
  PROVE  TimelineTrue(table, from, to) <=>
           LET line == Timeline(table, from, to)
               at(t) == {g \in line.segments : g.start <= t /\ t < g.end}
           IN /\ \A t \in from .. to - 1 : /\ Cardinality(at(t)) = 1
                                           /\ \A g \in at(t), c \in Scopes : g.winners[c] = Reference(table, t, c)
              /\ \A g, h \in line.segments : g.end = h.start => g.winners # h.winners
              /\ line.shadowed = {s.id : s \in {q \in table : (\E t \in from .. to - 1 : Opened(q, t) # {})
                                      /\ \A t \in from .. to - 1, c \in Scopes : ~Wins(table, q, t, c)}}
BY DEF TimelineTrue, Reference, Wins, Better, OpenOf, Shortest

\* What an admin is shown of any table over any range is what each instant
\* gets: schedule.timeline and active_at against a schedule read instant by
\* instant (motd/schedule.py).
THEOREM TimelineCorrect ==
  ASSUME NEW table, Timetable(table), NEW from \in Nat, NEW to \in Nat, from < to
  PROVE  TimelineTrue(table, from, to)
<1>1. PICK segments : segments = Timeline(table, from, to).segments
  OBVIOUS
<1>2. segments = {Stretch(table, from, to, p) : p \in Cuts(table, from, to)}
  BY <1>1, TimelineIs
<1>3. \A p : /\ Stretch(table, from, to, p).start = p /\ Stretch(table, from, to, p).winners = Winners(table, p)
             /\ Stretch(table, from, to, p).end = CutAfter(table, from, to, p)
  BY DEF Stretch
<1>4. ASSUME NEW t \in from .. to - 1
      PROVE  LET at == {g \in segments : g.start <= t /\ t < g.end}
             IN Cardinality(at) = 1 /\ \A g \in at, c \in Scopes : g.winners[c] = Reference(table, t, c)
  <2>1. PICK p \in Cuts(table, from, to) :
          /\ StretchesAt(table, from, to, t) = {Stretch(table, from, to, p)}
          /\ Winners(table, p) = Winners(table, t)
    BY StretchAt
  <2>2. {g \in segments : g.start <= t /\ t < g.end} = {Stretch(table, from, to, p)}
    BY <1>2, <2>1 DEF StretchesAt
  <2>3. Cardinality({Stretch(table, from, to, p)}) = 1
    BY FS_Singleton
  <2>4. \A c \in Scopes : Winners(table, t)[c] = Reference(table, t, c)
    <3>1. t \in Nat
      OBVIOUS
    <3>. QED  BY <3>1, WinnersAre DEF Reference
  <2>. QED  BY <1>3, <2>1, <2>2, <2>3, <2>4
<1>5. \A g, h \in segments : g.end = h.start => g.winners # h.winners
  <2>. SUFFICES ASSUME NEW g \in segments, NEW h \in segments, g.end = h.start
                PROVE  g.winners # h.winners
    OBVIOUS
  <2>1. PICK p \in Cuts(table, from, to) : g = Stretch(table, from, to, p)
    BY <1>2
  <2>2. PICK q \in Cuts(table, from, to) : h = Stretch(table, from, to, q)
    BY <1>2
  <2>3. CutAfter(table, from, to, p) = q
    BY <1>3, <2>1, <2>2
  <2>4. Winners(table, p) # Winners(table, q)
    BY <2>3, NeighboursDiffer
  <2>. QED  BY <1>3, <2>1, <2>2, <2>4
<1>6. Timeline(table, from, to).shadowed =
        {s.id : s \in {q \in table : (\E t \in from .. to - 1 : Opened(q, t) # {})
                          /\ \A t \in from .. to - 1, c \in Scopes : ~Wins(table, q, t, c)}}
  <2>. DEFINE won == UNION {Winners(table, p)[c] : p \in Points(table, from, to), c \in Scopes}
              comes == {o.s.id : o \in Overlapping(table, from, to)}
  <2>1. Timeline(table, from, to).shadowed = comes \ won
    BY TimelineIs
  <2>2. comes = {s.id : s \in {q \in table : \E t \in from .. to - 1 : Opened(q, t) # {}}}
    <3>1. \A o \in Overlapping(table, from, to) : o.s \in table
      BY OverlappingAre, AllWindowsAre DEF Overlapping
    <3>2. \A s \in table : (\E o \in Overlapping(table, from, to) : o.s = s) <=> \E t \in from .. to - 1 : Opened(s, t) # {}
      BY EverOpen
    <3>. QED  BY <3>1, <3>2
  <2>3. \A s \in table : s.id \in won <=> \E t \in from .. to - 1, c \in Scopes : Wins(table, s, t, c)
    <3>. SUFFICES ASSUME NEW s \in table
                  PROVE  s.id \in won <=> \E t \in from .. to - 1, c \in Scopes : Wins(table, s, t, c)
      OBVIOUS
    <3>1. \A t \in from .. to - 1, c \in Scopes : s.id \in Winners(table, t)[c] <=> Wins(table, s, t, c)
      <4>1. \A t \in from .. to - 1 : t \in Nat
        OBVIOUS
      <4>2. \A t \in from .. to - 1, c \in Scopes : Winners(table, t)[c] = Reference(table, t, c)
        BY <4>1, WinnersAre DEF Reference
      <4>3. \A t, c : s.id \in Reference(table, t, c) <=> Wins(table, s, t, c)
        BY TimetableIs DEF Reference
      <4>. QED  BY <4>2, <4>3
    <3>2. \A p \in Points(table, from, to) : p \in from .. to - 1
      BY PointsAre
    <3>3. ASSUME NEW t \in from .. to - 1
          PROVE  \E p \in Points(table, from, to) : Winners(table, p) = Winners(table, t)
      <4>1. \A p \in Cuts(table, from, to) : p \in Points(table, from, to)
        BY PointsAre
      <4>. QED  BY <4>1, StretchAt
    <3>. QED  BY <3>1, <3>2, <3>3
  <2>. HIDE DEF won
  <2>. QED  BY <2>1, <2>2, <2>3
<1>. QED  BY <1>1, <1>4, <1>5, <1>6, TimelineTrueIs

-----------------------------------------------------------------------------
(***************************************************************************)
(* The rules that lay out a list.  A set that is in one order from end to  *)
(* end (Chain) is laid out in exactly that order and whole (ChainLaidOut,  *)
(* LayoutHasAll), which is what Arranged gives; streams, places and titles *)
(* are each such a chain.                                                  *)
(***************************************************************************)
\* An order of a finite set, as a set of pairs, has a last member.
Chain(S, G) ==
  /\ \A x, y, z \in S : <<x, y>> \in G /\ <<y, z>> \in G => <<x, z>> \in G
  /\ \A x, y \in S : x # y => <<x, y>> \in G \/ <<y, x>> \in G
  /\ \A x \in S : <<x, x>> \notin G
LastIn(S, G, m) == m \in S /\ \A y \in S \ {m} : <<y, m>> \in G

LEMMA ChainHasLast ==
  ASSUME NEW S, IsFiniteSet(S), NEW G, Chain(S, G), S # {}
  PROVE  \E m \in S : LastIn(S, G, m)
<1>. DEFINE Endless == {T \in SUBSET S : T # {} /\ ~\E m \in T : LastIn(T, G, m)}
            sizes == {Cardinality(T) : T \in Endless}
<1>. SUFFICES ASSUME Endless # {} PROVE FALSE
  OBVIOUS
<1>1. \A T \in Endless : IsFiniteSet(T) /\ Cardinality(T) \in Nat
  BY FS_Subset, FS_CardinalityType
<1>2. PICK n \in sizes : \A k \in sizes : n <= k
  <2>1. sizes \subseteq Nat /\ sizes # {}
    BY <1>1
  <2>. HIDE DEF sizes
  <2>. QED  BY <2>1, NatMin
<1>3. PICK T \in Endless : Cardinality(T) = n
  OBVIOUS
<1>4. PICK x \in T : TRUE
  OBVIOUS
<1>. DEFINE U == T \ {x}
<1>5. Cardinality(U) = n - 1 /\ n \in Nat
  BY <1>1, <1>3, <1>4, FS_RemoveElement
<1>6. U # {}
  <2>1. ~LastIn(T, G, x)
    BY <1>4
  <2>. QED  BY <2>1, <1>4 DEF LastIn
<1>7. U \notin Endless
  <2>. SUFFICES ASSUME U \in Endless PROVE FALSE
    OBVIOUS
  <2>1. Cardinality(U) \in sizes
    OBVIOUS
  <2>. HIDE DEF sizes, U
  <2>2. n <= Cardinality(U)
    BY <1>2, <2>1
  <2>. QED  BY <1>5, <2>2
<1>8. PICK m \in U : LastIn(U, G, m)
  BY <1>6, <1>7
<1>9. m \in T /\ m # x /\ T \subseteq S
  OBVIOUS
<1>10. <<x, m>> \in G => LastIn(T, G, m)
  BY <1>8, <1>9 DEF LastIn
<1>11. <<m, x>> \in G => LastIn(T, G, x)
  <2>. SUFFICES ASSUME <<m, x>> \in G, NEW y \in T \ {x} PROVE <<y, x>> \in G
    BY <1>4 DEF LastIn
  <2>1. CASE y = m
    BY <2>1
  <2>2. CASE y # m
    <3>1. <<y, m>> \in G
      BY <1>8, <2>2 DEF LastIn
    <3>2. y \in S /\ m \in S /\ x \in S
      BY <1>9, <1>4
    <3>. QED  BY <3>1, <3>2 DEF Chain
  <2>. QED  BY <2>1, <2>2
<1>12. <<x, m>> \in G \/ <<m, x>> \in G
  BY <1>4, <1>9 DEF Chain
<1>. QED  BY <1>3, <1>4, <1>9, <1>10, <1>11, <1>12

\* So it can be laid out in order; any such layout has all of it, once.
LaidOut(s, S, G) == s \in [1 .. Cardinality(S) -> S] /\ \A i, j \in DOMAIN s : i < j => <<s[i], s[j]>> \in G

LEMMA ChainLaidOut ==
  ASSUME NEW S, IsFiniteSet(S), NEW G, Chain(S, G)
  PROVE  \E s : LaidOut(s, S, G)
<1>. DEFINE Bad == {T \in SUBSET S : ~\E s : LaidOut(s, T, G)}
            sizes == {Cardinality(T) : T \in Bad}
<1>. SUFFICES ASSUME Bad # {} PROVE FALSE
  OBVIOUS
<1>1. \A T \in Bad : IsFiniteSet(T) /\ Cardinality(T) \in Nat
  BY FS_Subset, FS_CardinalityType
<1>2. PICK n \in sizes : \A k \in sizes : n <= k
  <2>1. sizes \subseteq Nat /\ sizes # {}
    BY <1>1
  <2>. HIDE DEF sizes
  <2>. QED  BY <2>1, NatMin
<1>3. PICK T \in Bad : Cardinality(T) = n
  OBVIOUS
<1>4. T # {}
  <2>. SUFFICES ASSUME T = {} PROVE FALSE
    OBVIOUS
  <2>1. Cardinality(T) = 0
    BY FS_EmptySet
  <2>2. 1 .. 0 = {}
    OBVIOUS
  <2>3. <<>> \in [1 .. 0 -> T] /\ \A i, j \in DOMAIN <<>> : i < j => <<(<<>>)[i], (<<>>)[j]>> \in G
    BY <2>2
  <2>4. LaidOut(<<>>, T, G)
    BY <2>1, <2>3 DEF LaidOut
  <2>. QED  BY <2>4, <1>3
<1>5. T \subseteq S /\ Chain(T, G)
  BY DEF Chain
<1>6. PICK m \in T : LastIn(T, G, m)
  BY <1>1, <1>4, <1>5, ChainHasLast
<1>. DEFINE U == T \ {m}
<1>7. Cardinality(U) = n - 1 /\ n \in Nat
  BY <1>1, <1>3, <1>6, FS_RemoveElement
<1>8. U \notin Bad
  <2>. SUFFICES ASSUME U \in Bad PROVE FALSE
    OBVIOUS
  <2>1. Cardinality(U) \in sizes
    OBVIOUS
  <2>. HIDE DEF sizes, U
  <2>2. n <= Cardinality(U)
    BY <1>2, <2>1
  <2>. QED  BY <1>7, <2>2
<1>9. PICK s : LaidOut(s, U, G)
  BY <1>5, <1>8
<1>10. n - 1 \in Nat
  <2>1. IsFiniteSet(U)
    BY <1>1, FS_Subset
  <2>2. Cardinality(U) \in Nat
    BY <2>1, FS_CardinalityType
  <2>. QED  BY <1>7, <2>2
<1>11. s \in [1 .. n - 1 -> U] /\ \A i, j \in 1 .. n - 1 : i < j => <<s[i], s[j]>> \in G
  BY <1>7, <1>9 DEF LaidOut
<1>. DEFINE t == [i \in 1 .. n |-> IF i = n THEN m ELSE s[i]]
<1>12. \A i \in 1 .. n : i = n \/ i \in 1 .. n - 1
  BY <1>7
<1>13. t \in [1 .. n -> T]
  BY <1>6, <1>11, <1>12
<1>14. \A i, j \in DOMAIN t : i < j => <<t[i], t[j]>> \in G
  <2>. SUFFICES ASSUME NEW i \in 1 .. n, NEW j \in 1 .. n, i < j PROVE <<t[i], t[j]>> \in G
    OBVIOUS
  <2>1. i # n /\ i \in 1 .. n - 1
    BY <1>7
  <2>2. t[i] = s[i] /\ s[i] \in U
    BY <1>11, <2>1
  <2>3. CASE j = n
    <3>1. t[j] = m
      BY <2>3
    <3>. QED  BY <2>2, <3>1, <1>6 DEF LastIn
  <2>4. CASE j # n
    <3>1. j \in 1 .. n - 1 /\ t[j] = s[j]
      BY <1>12, <2>4
    <3>. QED  BY <2>1, <2>2, <3>1, <1>11
  <2>. QED  BY <2>3, <2>4
<1>. HIDE DEF t
<1>15. LaidOut(t, T, G)
  BY <1>3, <1>13, <1>14 DEF LaidOut
<1>. QED  BY <1>3, <1>15

LEMMA LayoutHasAll ==
  ASSUME NEW S, IsFiniteSet(S), NEW G, Chain(S, G), NEW s, LaidOut(s, S, G)
  PROVE  /\ Cardinality(S) \in Nat /\ s \in Seq(S) /\ Len(s) = Cardinality(S)
         /\ \A x \in S : \E i \in DOMAIN s : s[i] = x
         /\ \A i, j \in DOMAIN s : i # j => s[i] # s[j]
<1>1. Cardinality(S) \in Nat
  BY FS_CardinalityType
<1>2. PICK n \in Nat : n = Cardinality(S)
  BY <1>1
<1>3. s \in [1 .. n -> S] /\ DOMAIN s = 1 .. n /\ \A i, j \in 1 .. n : i < j => <<s[i], s[j]>> \in G
  BY <1>2 DEF LaidOut
<1>4. \A i, j \in 1 .. n : i # j => s[i] # s[j]
  <2>. SUFFICES ASSUME NEW i \in 1 .. n, NEW j \in 1 .. n, i < j, s[i] = s[j] PROVE FALSE
    OBVIOUS
  <2>1. <<s[i], s[i]>> \in G /\ s[i] \in S
    BY <1>3
  <2>. QED  BY <2>1 DEF Chain
<1>5. s \in Injection(1 .. n, S)
  BY <1>3, <1>4 DEF Injection, IsInjective
<1>6. IsFiniteSet(1 .. n) /\ Cardinality(1 .. n) = n
  BY FS_Interval
<1>7. s \in Surjection(1 .. n, S)
  BY <1>2, <1>5, <1>6, FS_Injection
<1>8. s \in Seq(S) /\ Len(s) = n
  BY <1>3
<1>. QED  BY <1>2, <1>3, <1>4, <1>7, <1>8 DEF Surjection
-----------------------------------------------------------------------------
\* Streams as they are offered, and the orders they are tried in.
OfferOf(fs, n) == n \in Nat /\ fs \in [1 .. n -> Stream]
Before1(fs, i, j) == Higher(fs[i], fs[j]) \/ (~Higher(fs[j], fs[i]) /\ i < j)
Before2(fs, i, j) == Higher(fs[j], fs[i]) \/ (~Higher(fs[i], fs[j]) /\ i < j)

LEMMA HigherIs ==
  ASSUME NEW fs, NEW n, OfferOf(fs, n)
  PROVE  \A i \in 1 .. n : fs[i].height \in Nat /\ fs[i].rate \in Nat /\ i \in Nat
<1>0. Heights \subseteq Nat
  BY RulesAssumption
<1>1. \A f \in Stream : f.height \in Nat /\ f.rate \in Nat
  <2>. SUFFICES ASSUME NEW f \in Stream PROVE f.height \in Nat /\ f.rate \in Nat
    OBVIOUS
  <2>1. f.height \in Heights
    BY DEF Stream
  <2>2. f.rate \in {0, 1}
    BY DEF Stream
  <2>3. f.height \in Nat
    BY ONLY <2>1, <1>0
  <2>4. f.rate \in Nat
    BY ONLY <2>2
  <2>. QED  BY <2>3, <2>4
<1>. QED  BY <1>1 DEF OfferOf

LEMMA BestChain ==
  ASSUME NEW fs, NEW n, OfferOf(fs, n), NEW S, S \subseteq 1 .. n
  PROVE  Chain(S, {p \in S \X S : Before1(fs, p[1], p[2])})
<1>. DEFINE G == {p \in S \X S : Before1(fs, p[1], p[2])}
<1>1. \A i, j \in S : <<i, j>> \in G <=> Before1(fs, i, j)
  OBVIOUS
<1>2. \A i \in S : fs[i].height \in Nat /\ fs[i].rate \in Nat /\ i \in Nat
  BY HigherIs
<1>. HIDE DEF G
<1>3. ASSUME NEW i \in S, NEW j \in S, NEW k \in S, Before1(fs, i, j), Before1(fs, j, k)
      PROVE  Before1(fs, i, k)
  <2>1. PICK hi, hj, hk : hi = fs[i].height /\ hj = fs[j].height /\ hk = fs[k].height
    OBVIOUS
  <2>2. PICK ri, rj, rk : ri = fs[i].rate /\ rj = fs[j].rate /\ rk = fs[k].rate
    OBVIOUS
  <2>3. {hi, hj, hk, ri, rj, rk, i, j, k} \subseteq Nat
    BY <1>2, <2>1, <2>2
  <2>. QED  BY <1>3, <2>1, <2>2, <2>3 DEF Before1, Higher
<1>4. ASSUME NEW i \in S, NEW j \in S, i # j
      PROVE  Before1(fs, i, j) \/ Before1(fs, j, i)
  <2>1. PICK hi, hj, ri, rj : hi = fs[i].height /\ hj = fs[j].height /\ ri = fs[i].rate /\ rj = fs[j].rate
    OBVIOUS
  <2>2. {hi, hj, ri, rj, i, j} \subseteq Nat
    BY <1>2, <2>1
  <2>. QED  BY <1>4, <2>1, <2>2 DEF Before1, Higher
<1>5. ASSUME NEW i \in S PROVE ~Before1(fs, i, i)
  <2>1. fs[i].height \in Nat /\ fs[i].rate \in Nat /\ i \in Nat
    BY <1>2
  <2>. QED  BY <2>1 DEF Before1, Higher
<1>6. Chain(S, G)
  BY <1>1, <1>3, <1>4, <1>5 DEF Chain
<1>. QED  BY <1>6 DEF G

LEMMA LeastChain ==
  ASSUME NEW fs, NEW n, OfferOf(fs, n), NEW S, S \subseteq 1 .. n
  PROVE  Chain(S, {p \in S \X S : Before2(fs, p[1], p[2])})
<1>. DEFINE G == {p \in S \X S : Before2(fs, p[1], p[2])}
<1>1. \A i, j \in S : <<i, j>> \in G <=> Before2(fs, i, j)
  OBVIOUS
<1>2. \A i \in S : fs[i].height \in Nat /\ fs[i].rate \in Nat /\ i \in Nat
  BY HigherIs
<1>. HIDE DEF G
<1>3. ASSUME NEW i \in S, NEW j \in S, NEW k \in S, Before2(fs, i, j), Before2(fs, j, k)
      PROVE  Before2(fs, i, k)
  <2>1. PICK hi, hj, hk : hi = fs[i].height /\ hj = fs[j].height /\ hk = fs[k].height
    OBVIOUS
  <2>2. PICK ri, rj, rk : ri = fs[i].rate /\ rj = fs[j].rate /\ rk = fs[k].rate
    OBVIOUS
  <2>3. {hi, hj, hk, ri, rj, rk, i, j, k} \subseteq Nat
    BY <1>2, <2>1, <2>2
  <2>. QED  BY <1>3, <2>1, <2>2, <2>3 DEF Before2, Higher
<1>4. ASSUME NEW i \in S, NEW j \in S, i # j
      PROVE  Before2(fs, i, j) \/ Before2(fs, j, i)
  <2>1. PICK hi, hj, ri, rj : hi = fs[i].height /\ hj = fs[j].height /\ ri = fs[i].rate /\ rj = fs[j].rate
    OBVIOUS
  <2>2. {hi, hj, ri, rj, i, j} \subseteq Nat
    BY <1>2, <2>1
  <2>. QED  BY <1>4, <2>1, <2>2 DEF Before2, Higher
<1>5. ASSUME NEW i \in S PROVE ~Before2(fs, i, i)
  <2>1. fs[i].height \in Nat /\ fs[i].rate \in Nat /\ i \in Nat
    BY <1>2
  <2>. QED  BY <2>1 DEF Before2, Higher
<1>6. Chain(S, G)
  BY <1>1, <1>3, <1>4, <1>5 DEF Chain
<1>. QED  BY <1>6 DEF G

\* A list of all of S, each once.
Lists1(s, S) ==
  /\ s \in Seq(S)
  /\ \A x \in S : \E i \in DOMAIN s : s[i] = x
  /\ \A i, j \in DOMAIN s : i # j => s[i] # s[j]

LEMMA BestFirstIs ==
  ASSUME NEW fs, NEW n, OfferOf(fs, n), NEW S, S \subseteq 1 .. n
  PROVE  /\ Lists1(BestFirst(fs, S), S)
         /\ \A i, j \in DOMAIN BestFirst(fs, S) : i < j => ~Higher(fs[BestFirst(fs, S)[j]], fs[BestFirst(fs, S)[i]])
<1>1. IsFiniteSet(S)
  <2>1. IsFiniteSet(1 .. n)
    BY FS_Interval DEF OfferOf
  <2>. QED  BY <2>1, FS_Subset
<1>2. PICK G : G = {p \in S \X S : Before1(fs, p[1], p[2])}
  OBVIOUS
<1>3. Chain(S, G)
  BY <1>2, BestChain
<1>4. \A i, j \in S : <<i, j>> \in G <=> Before1(fs, i, j)
  BY <1>2
<1>5. \A s \in [1 .. Cardinality(S) -> S] :
        (\A i, j \in DOMAIN s : i < j => Higher(fs[s[i]], fs[s[j]]) \/ (~Higher(fs[s[j]], fs[s[i]]) /\ s[i] < s[j]))
          <=> LaidOut(s, S, G)
  BY <1>4 DEF LaidOut, Before1
<1>6. \E s \in [1 .. Cardinality(S) -> S] : LaidOut(s, S, G)
  BY <1>1, <1>3, ChainLaidOut DEF LaidOut
<1>7. PICK b : b = BestFirst(fs, S)
  OBVIOUS
<1>8. b = CHOOSE s \in [1 .. Cardinality(S) -> S] :
            \A i, j \in DOMAIN s : i < j => Higher(fs[s[i]], fs[s[j]]) \/ (~Higher(fs[s[j]], fs[s[i]]) /\ s[i] < s[j])
  BY <1>7 DEF BestFirst, Arranged
<1>9. LaidOut(b, S, G)
  BY <1>5, <1>6, <1>8
<1>10. Lists1(b, S)
  BY <1>1, <1>3, <1>9, LayoutHasAll DEF Lists1
<1>11. \A i \in S : fs[i].height \in Nat /\ fs[i].rate \in Nat
  BY HigherIs
<1>12. \A i, j \in DOMAIN b : i < j => ~Higher(fs[b[j]], fs[b[i]])
  <2>. SUFFICES ASSUME NEW i \in DOMAIN b, NEW j \in DOMAIN b, i < j PROVE ~Higher(fs[b[j]], fs[b[i]])
    OBVIOUS
  <2>1. <<b[i], b[j]>> \in G /\ b[i] \in S /\ b[j] \in S
    BY <1>9 DEF LaidOut
  <2>2. Before1(fs, b[i], b[j])
    BY <2>1, <1>4
  <2>3. PICK g, h : g = fs[b[i]] /\ h = fs[b[j]]
    OBVIOUS
  <2>4. g.height \in Nat /\ g.rate \in Nat /\ h.height \in Nat /\ h.rate \in Nat
    BY <2>1, <2>3, <1>11
  <2>5. ~(Higher(g, h) /\ Higher(h, g))
    BY <2>4 DEF Higher
  <2>. QED  BY <2>2, <2>3, <2>5 DEF Before1
<1>. QED  BY <1>7, <1>10, <1>12

LEMMA LeastFirstIs ==
  ASSUME NEW fs, NEW n, OfferOf(fs, n), NEW S, S \subseteq 1 .. n
  PROVE  Lists1(LeastFirst(fs, S), S)
<1>1. IsFiniteSet(S)
  <2>1. IsFiniteSet(1 .. n)
    BY FS_Interval DEF OfferOf
  <2>. QED  BY <2>1, FS_Subset
<1>2. PICK G : G = {p \in S \X S : Before2(fs, p[1], p[2])}
  OBVIOUS
<1>3. Chain(S, G)
  BY <1>2, LeastChain
<1>4. \A i, j \in S : <<i, j>> \in G <=> Before2(fs, i, j)
  BY <1>2
<1>5. \A s \in [1 .. Cardinality(S) -> S] :
        (\A i, j \in DOMAIN s : i < j => Higher(fs[s[j]], fs[s[i]]) \/ (~Higher(fs[s[i]], fs[s[j]]) /\ s[i] < s[j]))
          <=> LaidOut(s, S, G)
  BY <1>4 DEF LaidOut, Before2
<1>6. \E s \in [1 .. Cardinality(S) -> S] : LaidOut(s, S, G)
  BY <1>1, <1>3, ChainLaidOut DEF LaidOut
<1>7. PICK b : b = LeastFirst(fs, S)
  OBVIOUS
<1>8. b = CHOOSE s \in [1 .. Cardinality(S) -> S] :
            \A i, j \in DOMAIN s : i < j => Higher(fs[s[j]], fs[s[i]]) \/ (~Higher(fs[s[i]], fs[s[j]]) /\ s[i] < s[j])
  BY <1>7 DEF LeastFirst, Arranged
<1>9. LaidOut(b, S, G)
  BY <1>5, <1>6, <1>8
<1>. QED  BY <1>1, <1>3, <1>7, <1>9, LayoutHasAll DEF Lists1
-----------------------------------------------------------------------------
\* A list of tries of one kind: none twice, and none within the cap after one
\* that is over it or worse.
TriedWell(fs, cap, s) ==
  \A a, b \in DOMAIN s : (a < b /\ s[a] \in DOMAIN fs /\ s[b] \in DOMAIN fs) =>
    /\ s[a] # s[b]
    /\ (cap = 0 \/ fs[s[b]].height <= cap) =>
          (cap = 0 \/ fs[s[a]].height <= cap) /\ ~Higher(fs[s[b]], fs[s[a]])

\* s is x, then y.
InTurn(s, x, y) == s = x \o y

LEMMA InTurnIs ==
  ASSUME NEW T, NEW x \in Seq(T), NEW y \in Seq(T), NEW s, InTurn(s, x, y)
  PROVE  /\ Len(x) \in Nat /\ Len(y) \in Nat /\ DOMAIN x = 1 .. Len(x) /\ DOMAIN y = 1 .. Len(y)
         /\ s \in Seq(T) /\ Len(s) = Len(x) + Len(y) /\ DOMAIN s = 1 .. Len(x) + Len(y)
         /\ \A i \in 1 .. Len(x) + Len(y) : s[i] = IF i <= Len(x) THEN x[i] ELSE y[i - Len(x)]
<1>1. s \in Seq(T) /\ Len(s) = Len(x) + Len(y) /\ \A i \in 1 .. Len(x) + Len(y) : s[i] = IF i <= Len(x) THEN x[i] ELSE y[i - Len(x)]
  BY ConcatProperties DEF InTurn
<1>. QED  BY <1>1

Covers(s, S) == \A x \in S : \E i \in DOMAIN s : s[i] = x

LEMMA WithinThenOver ==
  ASSUME NEW fs, NEW n, OfferOf(fs, n), NEW cap, NEW S, S \subseteq 1 .. n, NEW over, Lists1(over, Over(fs, S, cap)),
         NEW b, b = BestFirst(fs, Within(fs, S, cap)), NEW s, InTurn(s, b, over)
  PROVE  s \in Seq(S) /\ TriedWell(fs, cap, s) /\ Covers(s, S)
<1>. DEFINE W == Within(fs, S, cap)  V == Over(fs, S, cap)
<1>1. W \subseteq S /\ V \subseteq S /\ W \subseteq 1 .. n /\ S = W \cup V /\ W \cap V = {}
  BY DEF Within, Over
<1>2. \A x \in V : ~(cap = 0 \/ fs[x].height <= cap)
  BY DEF Within, Over
<1>3. \A x \in W : cap = 0 \/ fs[x].height <= cap
  BY DEF Within
<1>4. b = BestFirst(fs, W)
  OBVIOUS
<1>5. Lists1(b, W) /\ \A i, j \in DOMAIN b : i < j => ~Higher(fs[b[j]], fs[b[i]])
  BY <1>1, <1>4, BestFirstIs
<1>6. Lists1(over, V)
  OBVIOUS
<1>7. b \in Seq(S) /\ over \in Seq(S) /\ b \in Seq(W) /\ over \in Seq(V)
  <2>1. b \in Seq(W) /\ over \in Seq(V)
    BY <1>5, <1>6 DEF Lists1
  <2>. QED  BY <2>1, <1>1
<1>. HIDE DEF W, V
<1>9. /\ s \in Seq(S) /\ Len(s) = Len(b) + Len(over)
      /\ \A i \in 1 .. Len(b) + Len(over) : s[i] = IF i <= Len(b) THEN b[i] ELSE over[i - Len(b)]
  BY <1>7, InTurnIs
<1>10. Len(b) \in Nat /\ Len(over) \in Nat /\ DOMAIN b = 1 .. Len(b) /\ DOMAIN over = 1 .. Len(over) /\ DOMAIN s = 1 .. Len(s)
  BY <1>7, <1>9
<1>11. \A x \in S : \E i \in DOMAIN s : s[i] = x
  <2>. SUFFICES ASSUME NEW x \in S PROVE \E i \in DOMAIN s : s[i] = x
    OBVIOUS
  <2>1. CASE x \in W
    <3>1. PICK i \in DOMAIN b : b[i] = x
      BY <2>1, <1>5 DEF Lists1
    <3>2. i \in 1 .. Len(b) + Len(over) /\ i <= Len(b)
      BY <1>10
    <3>. QED  BY <3>1, <3>2, <1>9, <1>10
  <2>2. CASE x \in V
    <3>1. PICK i \in DOMAIN over : over[i] = x
      BY <2>2, <1>6 DEF Lists1
    <3>2. Len(b) + i \in 1 .. Len(b) + Len(over) /\ ~(Len(b) + i <= Len(b)) /\ (Len(b) + i) - Len(b) = i
      BY <1>10
    <3>. QED  BY <3>1, <3>2, <1>9, <1>10
  <2>. QED  BY <2>1, <2>2, <1>1
<1>12. TriedWell(fs, cap, s)
  <2>. SUFFICES ASSUME NEW k \in DOMAIN s, NEW l \in DOMAIN s, k < l
                PROVE  /\ s[k] # s[l]
                       /\ (cap = 0 \/ fs[s[l]].height <= cap) =>
                            (cap = 0 \/ fs[s[k]].height <= cap) /\ ~Higher(fs[s[l]], fs[s[k]])
    BY DEF TriedWell
  <2>1. k \in 1 .. Len(b) + Len(over) /\ l \in 1 .. Len(b) + Len(over)
    BY <1>9, <1>10
  <2>2. CASE l <= Len(b)
    <3>1. k \in DOMAIN b /\ l \in DOMAIN b /\ s[k] = b[k] /\ s[l] = b[l] /\ k # l
      BY <2>1, <2>2, <1>9, <1>10
    <3>2. b[k] \in W
      BY <3>1, <1>7, <1>10
    <3>. QED  BY <3>1, <3>2, <1>3, <1>5 DEF Lists1
  <2>3. CASE ~(l <= Len(b))
    <3>1. l - Len(b) \in DOMAIN over /\ s[l] = over[l - Len(b)]
      BY <2>1, <2>3, <1>9, <1>10
    <3>2. s[l] \in V
      BY <3>1, <1>7, <1>10
    <3>3. s[k] # s[l]
      <4>1. CASE k <= Len(b)
        <5>1. s[k] \in W
          BY <4>1, <2>1, <1>7, <1>9, <1>10
        <5>. QED  BY <5>1, <3>2, <1>1
      <4>2. CASE ~(k <= Len(b))
        <5>1. k - Len(b) \in DOMAIN over /\ s[k] = over[k - Len(b)] /\ k - Len(b) # l - Len(b)
          BY <4>2, <2>1, <1>9, <1>10
        <5>. QED  BY <5>1, <3>1, <1>6 DEF Lists1
      <4>. QED  BY <4>1, <4>2
    <3>. QED  BY <3>2, <3>3, <1>2
  <2>. QED  BY <2>2, <2>3
<1>. QED  BY <1>9, <1>11, <1>12 DEF Covers
-----------------------------------------------------------------------------
\* What is tried, in its four parts.
Apart(fs, cap) ==
  LET v == Carrying(fs, "v")
  IN IF v = {} \/ Carrying(fs, "a") = {} THEN <<>>
     ELSE BestFirst(fs, Within(fs, v, cap)) \o LeastFirst(fs, Over(fs, v, cap)) \o <<0>>
Whole(fs, S, cap) == BestFirst(fs, Within(fs, S, cap)) \o BestFirst(fs, Over(fs, S, cap))
Tagged(s, how) == [k \in DOMAIN s |-> [how |-> how, of |-> s[k]]]
Unsortable(fs, cap) ==
  \E S \in {Carrying(fs, "v"), Carrying(fs, "av")} : ~Sorted(fs, Within(fs, S, cap)) \/ ~Sorted(fs, Over(fs, S, cap))

LEMMA SelectorsAre ==
  ASSUME NEW fs, NEW cap
  PROVE  Selectors(fs, cap) =
           IF fs = <<>> \/ Unsortable(fs, cap) THEN <<[how |-> "any", of |-> 0], [how |-> "any", of |-> -1]>>
           ELSE Tagged(Apart(fs, cap), "pair") \o Tagged(Whole(fs, Carrying(fs, "av"), cap), "whole")
                  \o Tagged(Whole(fs, Carrying(fs, "v"), cap), "whole") \o Tagged(<<0>>, "any")
BY DEF Selectors, Apart, Whole, Tagged, Unsortable

Choice == [how : {"pair", "whole", "any"}, of : Int]
\* All in a list that are streams carry k.
OnlyOf(fs, s, k) == \A i \in DOMAIN s : s[i] \in DOMAIN fs => fs[s[i]].carries = k

LEMMA TaggedIs ==
  ASSUME NEW s \in Seq(Int), NEW how \in {"pair", "whole", "any"}
  PROVE  /\ Tagged(s, how) \in Seq(Choice) /\ Len(Tagged(s, how)) = Len(s)
         /\ \A i \in 1 .. Len(s) : Tagged(s, how)[i] = [how |-> how, of |-> s[i]]
<1>1. PICK n \in Nat : n = Len(s) /\ DOMAIN s = 1 .. n /\ \A i \in 1 .. n : s[i] \in Int
  OBVIOUS
<1>2. Tagged(s, how) = [k \in 1 .. n |-> [how |-> how, of |-> s[k]]]
  BY <1>1 DEF Tagged
<1>3. Tagged(s, how) \in [1 .. n -> Choice]
  BY <1>1, <1>2 DEF Choice
<1>4. Tagged(s, how) \in Seq(Choice) /\ Len(Tagged(s, how)) = n
  BY <1>3
<1>. QED  BY <1>1, <1>2, <1>4

\* Where the k-th of four lists in a row comes from.
LEMMA FourInARow ==
  ASSUME NEW T, NEW a \in Seq(T), NEW b \in Seq(T), NEW c \in Seq(T), NEW d \in Seq(T),
         NEW p, InTurn(p, a, b), NEW q, InTurn(q, p, c), NEW s, InTurn(s, q, d)
  PROVE  /\ s \in Seq(T)
         /\ \A k \in DOMAIN s :
              \/ k \in DOMAIN a /\ s[k] = a[k]
              \/ k - Len(a) \in DOMAIN b /\ s[k] = b[k - Len(a)]
              \/ k - (Len(a) + Len(b)) \in DOMAIN c /\ s[k] = c[k - (Len(a) + Len(b))]
              \/ k - (Len(a) + Len(b) + Len(c)) \in DOMAIN d /\ s[k] = d[k - (Len(a) + Len(b) + Len(c))]
         /\ \A i \in DOMAIN b : i + Len(a) \in DOMAIN s /\ s[i + Len(a)] = b[i]
         /\ \A i \in DOMAIN c : i + (Len(a) + Len(b)) \in DOMAIN s /\ s[i + (Len(a) + Len(b))] = c[i]
<1>1. PICK l, m, n, o \in Nat : l = Len(a) /\ m = Len(b) /\ n = Len(c) /\ o = Len(d)
  OBVIOUS
<1>2. DOMAIN a = 1 .. l /\ DOMAIN b = 1 .. m /\ DOMAIN c = 1 .. n /\ DOMAIN d = 1 .. o
  BY <1>1
<1>3. PICK g, h \in Nat : g = l + m /\ h = g + n
  BY <1>1
<1>4. /\ p \in Seq(T) /\ Len(p) = g /\ (\A i \in 1 .. l : p[i] = a[i])
      /\ \A i \in 1 .. g : l < i => i - l \in 1 .. m /\ p[i] = b[i - l]
  <2>1. /\ p \in Seq(T) /\ Len(p) = Len(a) + Len(b) /\ DOMAIN p = 1 .. Len(a) + Len(b)
        /\ \A i \in 1 .. Len(a) + Len(b) : p[i] = IF i <= Len(a) THEN a[i] ELSE b[i - Len(a)]
    BY InTurnIs
  <2>2. Len(a) = l /\ Len(b) = m
    BY <1>1
  <2>. QED  BY <1>1, <1>3, <2>1, <2>2
<1>5. /\ q \in Seq(T) /\ Len(q) = h /\ (\A i \in 1 .. g : q[i] = p[i])
      /\ \A i \in 1 .. h : g < i => i - g \in 1 .. n /\ q[i] = c[i - g]
  <2>1. /\ q \in Seq(T) /\ Len(q) = Len(p) + Len(c) /\ DOMAIN q = 1 .. Len(p) + Len(c)
        /\ \A i \in 1 .. Len(p) + Len(c) : q[i] = IF i <= Len(p) THEN p[i] ELSE c[i - Len(p)]
    <3>1. p \in Seq(T)
      BY <1>4
    <3>. QED  BY <3>1, InTurnIs
  <2>2. Len(p) = g /\ Len(c) = n
    BY <1>4, <1>1
  <2>3. q \in Seq(T) /\ Len(q) = h /\ DOMAIN q = 1 .. h /\ \A i \in 1 .. h : q[i] = IF i <= g THEN p[i] ELSE c[i - g]
    BY <1>3, <2>1, <2>2
  <2>4. \A i \in 1 .. g : q[i] = p[i]
    <3>. SUFFICES ASSUME NEW i \in 1 .. g PROVE q[i] = p[i]
      OBVIOUS
    <3>1. i \in 1 .. h /\ i <= g
      BY ONLY <1>3, n \in Nat, i \in 1 .. g, g \in Nat, h \in Nat
    <3>. QED  BY <2>3, <3>1
  <2>5. ASSUME NEW i \in 1 .. h, g < i PROVE i - g \in 1 .. n /\ q[i] = c[i - g]
    <3>1. i - g \in 1 .. n /\ ~(i <= g)
      BY ONLY <1>3, <2>5, n \in Nat, i \in 1 .. h, g \in Nat, h \in Nat
    <3>. QED  BY <2>3, <3>1
  <2>. QED  BY <2>3, <2>4, <2>5
<1>6. /\ s \in Seq(T) /\ DOMAIN s = 1 .. h + o /\ (\A i \in 1 .. h : s[i] = q[i])
      /\ \A i \in 1 .. h + o : h < i => i - h \in 1 .. o /\ s[i] = d[i - h]
  <2>1. /\ s \in Seq(T) /\ Len(s) = Len(q) + Len(d) /\ DOMAIN s = 1 .. Len(q) + Len(d)
        /\ \A i \in 1 .. Len(q) + Len(d) : s[i] = IF i <= Len(q) THEN q[i] ELSE d[i - Len(q)]
    <3>1. q \in Seq(T)
      BY <1>5
    <3>. QED  BY <3>1, InTurnIs
  <2>2. Len(q) = h /\ Len(d) = o
    BY <1>5, <1>1
  <2>3. s \in Seq(T) /\ Len(s) = h + o /\ DOMAIN s = 1 .. h + o /\ \A i \in 1 .. h + o : s[i] = IF i <= h THEN q[i] ELSE d[i - h]
    BY <1>3, <2>1, <2>2
  <2>4. \A i \in 1 .. h : s[i] = q[i]
    <3>. SUFFICES ASSUME NEW i \in 1 .. h PROVE s[i] = q[i]
      OBVIOUS
    <3>1. i \in 1 .. h + o /\ i <= h
      BY ONLY o \in Nat, i \in 1 .. h, h \in Nat
    <3>. QED  BY <2>3, <3>1
  <2>5. ASSUME NEW i \in 1 .. h + o, h < i PROVE i - h \in 1 .. o /\ s[i] = d[i - h]
    <3>1. i - h \in 1 .. o /\ ~(i <= h)
      BY ONLY <2>5, o \in Nat, i \in 1 .. h + o, h \in Nat
    <3>. QED  BY <2>3, <3>1
  <2>. QED  BY <2>3, <2>4, <2>5
<1>10. ASSUME NEW k \in DOMAIN s
       PROVE  \/ k \in DOMAIN a /\ s[k] = a[k]
              \/ k - l \in DOMAIN b /\ s[k] = b[k - l]
              \/ k - g \in DOMAIN c /\ s[k] = c[k - g]
              \/ k - h \in DOMAIN d /\ s[k] = d[k - h]
  <2>1. k \in 1 .. h + o
    BY <1>6
  <2>2. CASE k <= l
    <3>1. s[k] = q[k] /\ q[k] = p[k] /\ p[k] = a[k] /\ k \in 1 .. l
      BY <2>1, <2>2, <1>3, <1>4, <1>5, <1>6
    <3>. QED  BY <3>1, <1>2
  <2>3. CASE l < k /\ k <= g
    <3>1. s[k] = q[k] /\ q[k] = p[k] /\ p[k] = b[k - l] /\ k - l \in 1 .. m
      BY <2>1, <2>3, <1>3, <1>4, <1>5, <1>6
    <3>. QED  BY <3>1, <1>2
  <2>4. CASE g < k /\ k <= h
    <3>1. s[k] = q[k] /\ q[k] = c[k - g] /\ k - g \in 1 .. n
      BY <2>1, <2>4, <1>3, <1>5, <1>6
    <3>. QED  BY <3>1, <1>2
  <2>5. CASE h < k
    <3>1. s[k] = d[k - h] /\ k - h \in 1 .. o
      BY <2>1, <2>5, <1>6
    <3>. QED  BY <3>1, <1>2
  <2>. QED  BY <2>1, <2>2, <2>3, <2>4, <2>5
<1>11. ASSUME NEW i \in DOMAIN b
       PROVE  i + l \in DOMAIN s /\ s[i + l] = b[i]
  <2>1. i \in 1 .. m /\ i + l \in 1 .. g /\ l < i + l /\ (i + l) - l = i /\ i + l \in 1 .. h /\ i + l \in 1 .. h + o
    BY <1>2, <1>3
  <2>2. s[i + l] = q[i + l] /\ q[i + l] = p[i + l] /\ p[i + l] = b[(i + l) - l]
    BY <2>1, <1>4, <1>5, <1>6
  <2>. QED  BY <2>1, <2>2, <1>6
<1>12. ASSUME NEW i \in DOMAIN c
       PROVE  i + g \in DOMAIN s /\ s[i + g] = c[i]
  <2>1. i \in 1 .. n /\ i + g \in 1 .. h /\ g < i + g /\ (i + g) - g = i /\ i + g \in 1 .. h + o
    BY <1>2, <1>3
  <2>2. s[i + g] = q[i + g] /\ q[i + g] = c[(i + g) - g]
    BY <2>1, <1>5, <1>6
  <2>. QED  BY <2>1, <2>2, <1>6
<1>13. g = Len(a) + Len(b) /\ h = Len(a) + Len(b) + Len(c) /\ l = Len(a)
  BY <1>1, <1>3
<1>. QED  BY <1>6, <1>10, <1>11, <1>12, <1>13

LEMMA WiderSeq ==
  ASSUME NEW A, NEW B, A \subseteq B, NEW s \in Seq(A)
  PROVE  s \in Seq(B)
<1>1. Len(s) \in Nat /\ DOMAIN s = 1 .. Len(s) /\ \A i \in 1 .. Len(s) : s[i] \in B
  OBVIOUS
<1>2. s = [i \in 1 .. Len(s) |-> s[i]]
  OBVIOUS
<1>3. s \in [1 .. Len(s) -> B]
  BY <1>1, <1>2
<1>. QED  BY <1>1, <1>3

LEMMA WholeIs ==
  ASSUME NEW fs, NEW n, OfferOf(fs, n), NEW cap, NEW k
  PROVE  LET S == Carrying(fs, k)  s == Whole(fs, S, cap)
         IN /\ s \in Seq(1 .. n) /\ TriedWell(fs, cap, s) /\ OnlyOf(fs, s, k)
            /\ \A x \in S : \E i \in DOMAIN s : s[i] = x
<1>1. PICK S : S = Carrying(fs, k)
  OBVIOUS
<1>2. S \subseteq 1 .. n /\ \A x \in S : fs[x].carries = k
  BY <1>1 DEF Carrying, OfferOf
<1>3. Over(fs, S, cap) \subseteq 1 .. n
  BY <1>2 DEF Over
<1>4. PICK over : over = BestFirst(fs, Over(fs, S, cap))
  OBVIOUS
<1>5. Lists1(over, Over(fs, S, cap))
  BY <1>3, <1>4, BestFirstIs
<1>6. PICK s : s = Whole(fs, S, cap)
  OBVIOUS
<1>7. PICK b : b = BestFirst(fs, Within(fs, S, cap))
  OBVIOUS
<1>8. s \in Seq(S) /\ TriedWell(fs, cap, s) /\ \A x \in S : \E i \in DOMAIN s : s[i] = x
  <2>1. InTurn(s, b, over)
    BY <1>1, <1>4, <1>6, <1>7 DEF Whole, InTurn
  <2>2. S \subseteq 1 .. n
    BY <1>2
  <2>3. Lists1(over, Over(fs, S, cap)) /\ OfferOf(fs, n)
    BY <1>5
  <2>4. s \in Seq(S) /\ TriedWell(fs, cap, s) /\ Covers(s, S)
    BY <1>7, <2>1, <2>2, <2>3, WithinThenOver
  <2>. QED  BY <2>4 DEF Covers
<1>9. \A i \in DOMAIN s : s[i] \in S
  BY <1>8
<1>10. OnlyOf(fs, s, k)
  BY <1>2, <1>9 DEF OnlyOf
<1>11. s \in Seq(1 .. n)
  BY <1>2, <1>8, WiderSeq
<1>. QED  BY <1>1, <1>6, <1>8, <1>10, <1>11

LEMMA ApartIs ==
  ASSUME NEW fs, NEW n, OfferOf(fs, n), NEW cap
  PROVE  LET s == Apart(fs, cap)
         IN s \in Seq(Int) /\ TriedWell(fs, cap, s) /\ OnlyOf(fs, s, "v")
<1>1. PICK v : v = Carrying(fs, "v")
  OBVIOUS
<1>2. v \subseteq 1 .. n /\ (\A x \in v : fs[x].carries = "v") /\ DOMAIN fs = 1 .. n /\ n \in Nat
  BY <1>1 DEF Carrying, OfferOf
<1>3. CASE v = {} \/ Carrying(fs, "a") = {}
  <2>1. Apart(fs, cap) = <<>>
    BY <1>1, <1>3 DEF Apart
  <2>. QED  BY <2>1 DEF TriedWell, OnlyOf
<1>4. CASE ~(v = {} \/ Carrying(fs, "a") = {})
  <2>1. PICK over : over = LeastFirst(fs, Over(fs, v, cap))
    OBVIOUS
  <2>2. Over(fs, v, cap) \subseteq 1 .. n
    BY <1>2 DEF Over
  <2>3. Lists1(over, Over(fs, v, cap))
    BY <2>1, <2>2, LeastFirstIs
  <2>4. PICK b : b = BestFirst(fs, Within(fs, v, cap))
    OBVIOUS
  <2>5. PICK s : s = b \o over
    OBVIOUS
  <2>6. s \in Seq(v) /\ TriedWell(fs, cap, s)
    <3>1. InTurn(s, b, over)
      BY <2>5 DEF InTurn
    <3>. QED  BY <1>2, <2>3, <2>4, <3>1, WithinThenOver
  <2>7. s \in Seq(Int)
    <3>1. v \subseteq Int
      BY <1>2
    <3>. QED  BY <2>6, <3>1, WiderSeq
  <2>8. PICK r : r = s \o <<0>>
    OBVIOUS
  <2>9. Apart(fs, cap) = r
    <3>1. Apart(fs, cap) = (b \o over) \o <<0>>
      BY <1>1, <1>4, <2>1, <2>4 DEF Apart
    <3>. QED  BY <2>5, <2>8, <3>1
  <2>10. <<0>> \in Seq(Int) /\ Len(<<0>>) = 1 /\ (<<0>>)[1] = 0
    OBVIOUS
  <2>11. r \in Seq(Int) /\ Len(r) = Len(s) + 1 /\ \A i \in 1 .. Len(s) + 1 : r[i] = IF i <= Len(s) THEN s[i] ELSE (<<0>>)[i - Len(s)]
    BY <2>7, <2>8, <2>10, ConcatProperties
  <2>12. \A i \in DOMAIN r : r[i] \in DOMAIN fs => i \in DOMAIN s /\ r[i] = s[i]
    <3>. SUFFICES ASSUME NEW i \in DOMAIN r, r[i] \in DOMAIN fs PROVE i \in DOMAIN s /\ r[i] = s[i]
      OBVIOUS
    <3>1. i \in 1 .. Len(s) + 1 /\ Len(s) \in Nat /\ DOMAIN s = 1 .. Len(s)
      BY <2>7, <2>11
    <3>2. i # Len(s) + 1
      <4>. SUFFICES ASSUME i = Len(s) + 1 PROVE FALSE
        OBVIOUS
      <4>1. ~(i <= Len(s)) /\ i - Len(s) = 1
        BY <3>1
      <4>2. r[i] = 0
        BY <3>1, <4>1, <2>10, <2>11
      <4>. QED  BY <4>2, <1>2
    <3>. QED  BY <3>1, <3>2, <2>11
  <2>13. \A i \in DOMAIN s : s[i] \in v
    BY <2>6
  <2>14. TriedWell(fs, cap, r)
    BY <2>6, <2>12 DEF TriedWell
  <2>15. OnlyOf(fs, r, "v")
    BY <1>2, <2>12, <2>13 DEF OnlyOf
  <2>. QED  BY <2>9, <2>11, <2>14, <2>15
<1>. QED  BY <1>3, <1>4

\* Tries of one part of the list.
LEMMA OneKind ==
  ASSUME NEW fs, NEW cap, NEW s, TriedWell(fs, cap, s), NEW i \in DOMAIN s, NEW j \in DOMAIN s, i < j,
         s[i] \in DOMAIN fs, s[j] \in DOMAIN fs, NEW a, NEW b, a.of = s[i], b.of = s[j]
  PROVE  /\ a # b
         /\ (cap = 0 \/ fs[b.of].height <= cap) =>
              (cap = 0 \/ fs[a.of].height <= cap) /\ ~Higher(fs[b.of], fs[a.of])
BY DEF TriedWell

LEMMA CapsFirst ==
  ASSUME NEW fs, NEW n, OfferOf(fs, n), NEW cap, fs # <<>>, ~Unsortable(fs, cap)
  PROVE  LET tries == Selectors(fs, cap)
             real == {k \in DOMAIN tries : tries[k].of \in DOMAIN fs}
             kind(k) == <<tries[k].how, fs[tries[k].of].carries>>
             fits(k) == cap = 0 \/ fs[tries[k].of].height <= cap
         IN /\ \A k, l \in real : (k < l /\ kind(k) = kind(l)) =>
                 /\ tries[k] # tries[l]
                 /\ (fits(l) => fits(k) /\ ~Higher(fs[tries[l].of], fs[tries[k].of]))
            /\ \A i \in DOMAIN fs : fs[i].carries # "a" => \E k \in real : tries[k] = [how |-> "whole", of |-> i]
<1>1. PICK p, w, v : p = Apart(fs, cap) /\ w = Whole(fs, Carrying(fs, "av"), cap) /\ v = Whole(fs, Carrying(fs, "v"), cap)
  OBVIOUS
<1>2. p \in Seq(Int) /\ TriedWell(fs, cap, p) /\ OnlyOf(fs, p, "v")
  BY <1>1, ApartIs
<1>3. /\ w \in Seq(1 .. n) /\ TriedWell(fs, cap, w) /\ OnlyOf(fs, w, "av")
      /\ \A x \in Carrying(fs, "av") : \E i \in DOMAIN w : w[i] = x
  BY <1>1, WholeIs
<1>4. /\ v \in Seq(1 .. n) /\ TriedWell(fs, cap, v) /\ OnlyOf(fs, v, "v")
      /\ \A x \in Carrying(fs, "v") : \E i \in DOMAIN v : v[i] = x
  BY <1>1, WholeIs
<1>5. w \in Seq(Int) /\ v \in Seq(Int) /\ <<0>> \in Seq(Int) /\ DOMAIN fs = 1 .. n /\ n \in Nat
  BY <1>3, <1>4 DEF OfferOf
<1>6. PICK A, W, V, Z : A = Tagged(p, "pair") /\ W = Tagged(w, "whole") /\ V = Tagged(v, "whole") /\ Z = Tagged(<<0>>, "any")
  OBVIOUS
<1>7. /\ A \in Seq(Choice) /\ DOMAIN A = DOMAIN p /\ \A i \in DOMAIN A : A[i].how = "pair" /\ A[i].of = p[i]
      /\ Len(A) \in Nat /\ DOMAIN A \subseteq Nat
  <2>1. A \in Seq(Choice) /\ Len(A) = Len(p) /\ \A i \in 1 .. Len(p) : A[i] = [how |-> "pair", of |-> p[i]]
    BY <1>2, <1>6, TaggedIs
  <2>2. DOMAIN A = 1 .. Len(p) /\ DOMAIN p = 1 .. Len(p) /\ Len(p) \in Nat
    BY <1>2, <2>1
  <2>. QED  BY <2>1, <2>2
<1>8. /\ W \in Seq(Choice) /\ DOMAIN W = DOMAIN w /\ \A i \in DOMAIN W : W[i].how = "whole" /\ W[i].of = w[i] /\ W[i] = [how |-> "whole", of |-> w[i]]
      /\ Len(W) \in Nat /\ DOMAIN W \subseteq Nat
  <2>1. W \in Seq(Choice) /\ Len(W) = Len(w) /\ \A i \in 1 .. Len(w) : W[i] = [how |-> "whole", of |-> w[i]]
    BY <1>5, <1>6, TaggedIs
  <2>2. DOMAIN W = 1 .. Len(w) /\ DOMAIN w = 1 .. Len(w) /\ Len(w) \in Nat
    BY <1>5, <2>1
  <2>. QED  BY <2>1, <2>2
<1>9. /\ V \in Seq(Choice) /\ DOMAIN V = DOMAIN v /\ \A i \in DOMAIN V : V[i].how = "whole" /\ V[i].of = v[i] /\ V[i] = [how |-> "whole", of |-> v[i]]
      /\ Len(V) \in Nat /\ DOMAIN V \subseteq Nat
  <2>1. V \in Seq(Choice) /\ Len(V) = Len(v) /\ \A i \in 1 .. Len(v) : V[i] = [how |-> "whole", of |-> v[i]]
    BY <1>5, <1>6, TaggedIs
  <2>2. DOMAIN V = 1 .. Len(v) /\ DOMAIN v = 1 .. Len(v) /\ Len(v) \in Nat
    BY <1>5, <2>1
  <2>. QED  BY <2>1, <2>2
<1>10. Z \in Seq(Choice) /\ \A i \in DOMAIN Z : Z[i].of = 0
  <2>1. Len(<<0>>) = 1 /\ (<<0>>)[1] = 0
    OBVIOUS
  <2>2. Z \in Seq(Choice) /\ Len(Z) = 1 /\ \A i \in 1 .. 1 : Z[i] = [how |-> "any", of |-> (<<0>>)[i]]
    BY <1>5, <1>6, <2>1, TaggedIs
  <2>3. DOMAIN Z = {1}
    BY <2>2
  <2>. QED  BY <2>1, <2>2, <2>3
<1>11. PICK PW, PWV, s : PW = A \o W /\ PWV = PW \o V /\ s = PWV \o Z
  OBVIOUS
<1>12. Selectors(fs, cap) = s
  <2>1. Selectors(fs, cap) = A \o W \o V \o Z
    BY <1>1, <1>6, SelectorsAre
  <2>. QED  BY <1>11, <2>1
<1>13. /\ s \in Seq(Choice)
       /\ \A k \in DOMAIN s :
            \/ k \in DOMAIN A /\ s[k] = A[k]
            \/ k - Len(A) \in DOMAIN W /\ s[k] = W[k - Len(A)]
            \/ k - (Len(A) + Len(W)) \in DOMAIN V /\ s[k] = V[k - (Len(A) + Len(W))]
            \/ k - (Len(A) + Len(W) + Len(V)) \in DOMAIN Z /\ s[k] = Z[k - (Len(A) + Len(W) + Len(V))]
       /\ \A i \in DOMAIN W : i + Len(A) \in DOMAIN s /\ s[i + Len(A)] = W[i]
       /\ \A i \in DOMAIN V : i + (Len(A) + Len(W)) \in DOMAIN s /\ s[i + (Len(A) + Len(W))] = V[i]
  <2>1. A \in Seq(Choice) /\ W \in Seq(Choice) /\ V \in Seq(Choice) /\ Z \in Seq(Choice)
    BY <1>7, <1>8, <1>9, <1>10
  <2>2. InTurn(PW, A, W) /\ InTurn(PWV, PW, V) /\ InTurn(s, PWV, Z)
    BY <1>11 DEF InTurn
  <2>. HIDE DEF Choice
  <2>. QED  BY <2>1, <2>2, FourInARow
<1>14. PICK x, y \in Nat : x = Len(A) /\ y = Len(A) + Len(W)
  BY <1>7, <1>8
\* A real try is of one of the three parts, which its kind tells.
<1>15. ASSUME NEW k \in DOMAIN s, s[k].of \in DOMAIN fs
       PROVE  \/ k \in DOMAIN p /\ s[k].of = p[k] /\ s[k].how = "pair" /\ fs[s[k].of].carries = "v"
              \/ k - x \in DOMAIN w /\ s[k].of = w[k - x] /\ s[k].how = "whole" /\ fs[s[k].of].carries = "av"
              \/ k - y \in DOMAIN v /\ s[k].of = v[k - y] /\ s[k].how = "whole" /\ fs[s[k].of].carries = "v"
  <2>1. CASE k \in DOMAIN A /\ s[k] = A[k]
    BY <2>1, <1>2, <1>7, <1>15 DEF OnlyOf
  <2>2. CASE k - x \in DOMAIN W /\ s[k] = W[k - x]
    BY <2>2, <1>3, <1>8, <1>15 DEF OnlyOf
  <2>3. CASE k - y \in DOMAIN V /\ s[k] = V[k - y]
    BY <2>3, <1>4, <1>9, <1>15 DEF OnlyOf
  <2>4. CASE k - (Len(A) + Len(W) + Len(V)) \in DOMAIN Z /\ s[k] = Z[k - (Len(A) + Len(W) + Len(V))]
    BY <2>4, <1>5, <1>10, <1>15
  <2>. QED  BY <2>1, <2>2, <2>3, <2>4, <1>13, <1>14
<1>16. ASSUME NEW k \in DOMAIN s, NEW l \in DOMAIN s, s[k].of \in DOMAIN fs, s[l].of \in DOMAIN fs, k < l,
              s[k].how = s[l].how, fs[s[k].of].carries = fs[s[l].of].carries
       PROVE  /\ s[k] # s[l]
              /\ (cap = 0 \/ fs[s[l].of].height <= cap) =>
                    (cap = 0 \/ fs[s[k].of].height <= cap) /\ ~Higher(fs[s[l].of], fs[s[k].of])
  <2>. DEFINE Fine == /\ s[k] # s[l]
                      /\ (cap = 0 \/ fs[s[l].of].height <= cap) =>
                            (cap = 0 \/ fs[s[k].of].height <= cap) /\ ~Higher(fs[s[l].of], fs[s[k].of])
  <2>1. k \in Nat /\ l \in Nat /\ k - x < l - x /\ k - y < l - y
    BY <1>13, <1>14, <1>16
  <2>2. CASE s[k].how = "pair"
    <3>1. k \in DOMAIN p /\ s[k].of = p[k] /\ l \in DOMAIN p /\ s[l].of = p[l]
      BY <2>2, <1>15, <1>16
    <3>. QED  BY <3>1, <1>2, <1>16, OneKind, ZenonT(30)
  <2>3. CASE s[k].how # "pair" /\ fs[s[k].of].carries = "av"
    <3>1. k - x \in DOMAIN w /\ s[k].of = w[k - x] /\ l - x \in DOMAIN w /\ s[l].of = w[l - x]
      BY <2>3, <1>15, <1>16
    <3>. QED  BY <3>1, <2>1, <1>3, <1>16, OneKind, SMTT(30)
  <2>4. CASE s[k].how # "pair" /\ fs[s[k].of].carries # "av"
    <3>1. k - y \in DOMAIN v /\ s[k].of = v[k - y] /\ l - y \in DOMAIN v /\ s[l].of = v[l - y]
      BY <2>4, <1>15, <1>16
    <3>2. PICK i, j : i = k - y /\ j = l - y
      OBVIOUS
    <3>3. i \in DOMAIN v /\ j \in DOMAIN v /\ i < j /\ s[k].of = v[i] /\ s[l].of = v[j]
      BY <2>1, <3>1, <3>2
    <3>4. TriedWell(fs, cap, v)
      BY <1>4
    <3>5. v[i] \in DOMAIN fs /\ v[j] \in DOMAIN fs
      BY <3>3, <1>16
    <3>6. /\ v[i] # v[j]
          /\ (cap = 0 \/ fs[v[j]].height <= cap) =>
                (cap = 0 \/ fs[v[i]].height <= cap) /\ ~Higher(fs[v[j]], fs[v[i]])
      BY <3>3, <3>4, <3>5 DEF TriedWell
    <3>. QED  BY <3>3, <3>6
  <2>. QED  BY <2>2, <2>3, <2>4
<1>17. ASSUME NEW i \in DOMAIN fs, fs[i].carries # "a"
       PROVE  \E k \in DOMAIN s : s[k].of \in DOMAIN fs /\ s[k] = [how |-> "whole", of |-> i]
  <2>1. fs[i].carries \in {"av", "v"}
    BY <1>5, <1>17 DEF OfferOf, Stream
  <2>2. CASE fs[i].carries = "av"
    <3>1. i \in Carrying(fs, "av")
      BY <2>2 DEF Carrying
    <3>2. PICK j \in DOMAIN w : w[j] = i
      BY <3>1, <1>3
    <3>3. j + Len(A) \in DOMAIN s /\ s[j + Len(A)] = [how |-> "whole", of |-> i]
      BY <3>2, <1>8, <1>13
    <3>. QED  BY <3>3
  <2>3. CASE fs[i].carries = "v"
    <3>1. i \in Carrying(fs, "v")
      BY <2>3 DEF Carrying
    <3>2. PICK j \in DOMAIN v : v[j] = i
      BY <3>1, <1>4
    <3>3. j + (Len(A) + Len(W)) \in DOMAIN s /\ s[j + (Len(A) + Len(W))] = [how |-> "whole", of |-> i]
      BY <3>2, <1>9, <1>13
    <3>. QED  BY <3>3
  <2>. QED  BY <2>1, <2>2, <2>3
<1>. QED  BY <1>12, <1>16, <1>17

LEMMA CapFirstHolds ==
  ASSUME sample.of = "streams" => \E n : OfferOf(sample.offer, n)
  PROVE  CapFirst
<1>. SUFFICES ASSUME sample.of = "streams" PROVE CapFirst
  BY DEF CapFirst
<1>1. PICK fs, cap, tries : fs = sample.offer /\ cap = sample.cap /\ tries = Selectors(fs, cap)
  OBVIOUS
<1>2. PICK n : OfferOf(fs, n)
  BY <1>1
<1>3. n \in Nat /\ DOMAIN fs = 1 .. n /\ \A i \in 1 .. n : fs[i] \in Stream
  BY <1>2 DEF OfferOf
<1>. DEFINE real == {k \in DOMAIN tries : tries[k].of \in DOMAIN fs}
            kind(k) == <<tries[k].how, fs[tries[k].of].carries>>
            fits(k) == cap = 0 \/ fs[tries[k].of].height <= cap
            Kept == \A k, l \in real : (k < l /\ kind(k) = kind(l)) =>
                      /\ tries[k] # tries[l]
                      /\ (fits(l) => fits(k) /\ ~Higher(fs[tries[l].of], fs[tries[k].of]))
            All == \A i \in DOMAIN fs : fs[i].carries # "a" => \E k \in real : tries[k] = [how |-> "whole", of |-> i]
<1>4. CASE fs # <<>> /\ ~Unsortable(fs, cap)
  BY <1>1, <1>2, <1>4, CapsFirst DEF CapFirst
<1>5. CASE fs = <<>> \/ Unsortable(fs, cap)
  <2>1. tries = <<[how |-> "any", of |-> 0], [how |-> "any", of |-> -1]>>
    BY <1>1, <1>5, SelectorsAre
  <2>2. DOMAIN tries = {1, 2} /\ tries[1].of = 0 /\ tries[2].of = -1
    BY <2>1
  <2>3. 0 \notin 1 .. n /\ -1 \notin 1 .. n
    BY <1>3
  <2>4. real = {}
    BY <2>2, <2>3, <1>3
  <2>5. Kept
    BY <2>4
  <2>6. (\A i, j \in DOMAIN fs : Comparable(fs[i], fs[j])) => All
    <3>. SUFFICES ASSUME \A i, j \in DOMAIN fs : Comparable(fs[i], fs[j]), NEW i \in DOMAIN fs PROVE FALSE
      OBVIOUS
    <3>1. fs # <<>>
      OBVIOUS
    <3>2. ~Unsortable(fs, cap)
      BY DEF Unsortable, Sorted, Within, Over, Carrying
    <3>. QED  BY <3>1, <3>2, <1>5
  <2>. QED  BY <1>1, <2>5, <2>6, SMTT(30) DEF CapFirst
<1>. QED  BY <1>4, <1>5
-----------------------------------------------------------------------------
\* Titles in the order they are watched.
TitlesOf(xs, n) == n \in Nat /\ xs \in [1 .. n -> Title]

LEMMA LessIs ==
  ASSUME NEW a, NEW b
  PROVE  Less(a, b) <=> \/ a[1] < b[1]
                        \/ a[2] < b[2] /\ a[1] = b[1]
                        \/ a[3] < b[3] /\ a[1] = b[1] /\ a[2] = b[2]
                        \/ a[4] < b[4] /\ a[1] = b[1] /\ a[2] = b[2] /\ a[3] = b[3]
<1>1. 1 .. 4 = {1, 2, 3, 4} /\ 1 .. 1 - 1 = {} /\ 1 .. 2 - 1 = {1} /\ 1 .. 3 - 1 = {1, 2} /\ 1 .. 4 - 1 = {1, 2, 3}
  OBVIOUS
<1>. QED  BY <1>1 DEF Less

LEMMA TitleParts ==
  ASSUME NEW x \in Title
  PROVE  x.name \in Nat /\ x.season \in Nat /\ x.episode \in Nat /\ x = [name |-> x.name, season |-> x.season, episode |-> x.episode]
BY DEF Title

SeenFirst(x, i, y, j) ==
  \/ x.name < y.name
  \/ x.name = y.name /\ x.season < y.season
  \/ x.name = y.name /\ x.season = y.season /\ x.episode < y.episode
  \/ x = y /\ i < j

LEMMA SoonerIs ==
  ASSUME NEW x \in Title, NEW y \in Title, NEW i \in Nat, NEW j \in Nat
  PROVE  Less(SortKey(x, i), SortKey(y, j)) <=> SeenFirst(x, i, y, j)
<1>1. PICK a, b, c \in Nat : a = x.name /\ b = x.season /\ c = x.episode
  BY TitleParts
<1>2. PICK d, e, f \in Nat : d = y.name /\ e = y.season /\ f = y.episode
  BY TitleParts
<1>3. x = [name |-> a, season |-> b, episode |-> c] /\ y = [name |-> d, season |-> e, episode |-> f]
  BY <1>1, <1>2, TitleParts
<1>4. PICK k, l : k = SortKey(x, i) /\ l = SortKey(y, j)
  OBVIOUS
<1>5. k[1] = a /\ k[2] = b /\ k[3] = c /\ k[4] = i /\ l[1] = d /\ l[2] = e /\ l[3] = f /\ l[4] = j
  BY <1>1, <1>2, <1>4 DEF SortKey
<1>6. x = y <=> a = d /\ b = e /\ c = f
  BY <1>1, <1>2, <1>3
<1>7. Less(k, l) <=> a < d \/ (b < e /\ a = d) \/ (c < f /\ a = d /\ b = e) \/ (i < j /\ a = d /\ b = e /\ c = f)
  BY <1>5, LessIs
<1>. QED  BY <1>1, <1>2, <1>4, <1>6, <1>7 DEF SeenFirst

LEMMA WatchChain ==
  ASSUME NEW xs, NEW n, TitlesOf(xs, n)
  PROVE  Chain(1 .. n, {p \in (1 .. n) \X (1 .. n) : SeenFirst(xs[p[1]], p[1], xs[p[2]], p[2])})
<1>. DEFINE S == 1 .. n
            G == {p \in S \X S : SeenFirst(xs[p[1]], p[1], xs[p[2]], p[2])}
<1>1. \A i, j \in S : <<i, j>> \in G <=> SeenFirst(xs[i], i, xs[j], j)
  OBVIOUS
<1>2. \A i \in S : xs[i] \in Title /\ i \in Nat
  BY DEF TitlesOf
<1>. HIDE DEF G, S
<1>3. ASSUME NEW i \in S, NEW j \in S, NEW k \in S, SeenFirst(xs[i], i, xs[j], j), SeenFirst(xs[j], j, xs[k], k)
      PROVE  SeenFirst(xs[i], i, xs[k], k)
  <2>1. PICK x, y, z \in Title : x = xs[i] /\ y = xs[j] /\ z = xs[k]
    BY <1>2
  <2>2. PICK a, b, c, d, e, f, g, h, l \in Nat :
          /\ a = x.name /\ b = x.season /\ c = x.episode
          /\ d = y.name /\ e = y.season /\ f = y.episode
          /\ g = z.name /\ h = z.season /\ l = z.episode
    BY TitleParts
  <2>3. i \in Nat /\ j \in Nat /\ k \in Nat
    BY <1>2
  <2>4. SeenFirst(x, i, y, j) /\ SeenFirst(y, j, z, k)
    BY <1>3, <2>1
  <2>5. SeenFirst(x, i, z, k)
    BY <2>2, <2>3, <2>4 DEF SeenFirst
  <2>. QED  BY <2>1, <2>5
<1>4. ASSUME NEW i \in S, NEW j \in S, i # j
      PROVE  SeenFirst(xs[i], i, xs[j], j) \/ SeenFirst(xs[j], j, xs[i], i)
  <2>1. PICK x, y \in Title : x = xs[i] /\ y = xs[j]
    BY <1>2
  <2>2. PICK a, b, c, d, e, f \in Nat :
          /\ a = x.name /\ b = x.season /\ c = x.episode
          /\ d = y.name /\ e = y.season /\ f = y.episode
    BY TitleParts
  <2>3. i \in Nat /\ j \in Nat
    BY <1>2
  <2>4. x = y <=> a = d /\ b = e /\ c = f
    BY <2>2, TitleParts
  <2>5. SeenFirst(x, i, y, j) \/ SeenFirst(y, j, x, i)
    BY <1>4, <2>2, <2>3, <2>4 DEF SeenFirst
  <2>. QED  BY <2>1, <2>5
<1>5. ASSUME NEW i \in S PROVE ~SeenFirst(xs[i], i, xs[i], i)
  <2>1. PICK x \in Title : x = xs[i]
    BY <1>2
  <2>2. x.name \in Nat /\ x.season \in Nat /\ x.episode \in Nat /\ i \in Nat
    BY <1>2, TitleParts
  <2>3. ~SeenFirst(x, i, x, i)
    BY <2>2 DEF SeenFirst
  <2>. QED  BY <2>1, <2>3
<1>6. Chain(S, G)
  BY <1>1, <1>3, <1>4, <1>5 DEF Chain
<1>. QED  BY <1>6 DEF G, S

LEMMA OrderingIs ==
  ASSUME NEW xs, NEW n, TitlesOf(xs, n), NEW o, o = Ordering(xs)
  PROVE  /\ o \in [1 .. n -> 1 .. n] /\ Covers(o, 1 .. n)
         /\ \A i, j \in 1 .. n : i < j => SeenFirst(xs[o[i]], o[i], xs[o[j]], o[j])
<1>1. n \in Nat /\ DOMAIN xs = 1 .. n /\ (\A i \in 1 .. n : xs[i] \in Title /\ i \in Nat)
  BY DEF TitlesOf
<1>2. IsFiniteSet(1 .. n) /\ Cardinality(1 .. n) = n
  BY <1>1, FS_Interval
<1>3. PICK G : G = {p \in (1 .. n) \X (1 .. n) : SeenFirst(xs[p[1]], p[1], xs[p[2]], p[2])}
  OBVIOUS
<1>4. Chain(1 .. n, G)
  BY <1>3, WatchChain
<1>5. \A i, j \in 1 .. n : <<i, j>> \in G <=> Less(SortKey(xs[i], i), SortKey(xs[j], j))
  <2>. SUFFICES ASSUME NEW i \in 1 .. n, NEW j \in 1 .. n
                PROVE  <<i, j>> \in G <=> Less(SortKey(xs[i], i), SortKey(xs[j], j))
    OBVIOUS
  <2>1. <<i, j>> \in G <=> SeenFirst(xs[i], i, xs[j], j)
    BY <1>3
  <2>. QED  BY <2>1, <1>1, SoonerIs
<1>6. \A s \in [1 .. n -> 1 .. n] :
        (\A i, j \in DOMAIN s : i < j => Less(SortKey(xs[s[i]], s[i]), SortKey(xs[s[j]], s[j]))) <=> LaidOut(s, 1 .. n, G)
  BY <1>2, <1>5 DEF LaidOut
<1>7. \E s \in [1 .. n -> 1 .. n] : LaidOut(s, 1 .. n, G)
  BY <1>2, <1>4, ChainLaidOut DEF LaidOut
<1>8. o = CHOOSE s \in [1 .. n -> 1 .. n] :
            \A i, j \in DOMAIN s : i < j => Less(SortKey(xs[s[i]], s[i]), SortKey(xs[s[j]], s[j]))
  BY <1>1, <1>2 DEF Ordering, Arranged
<1>9. LaidOut(o, 1 .. n, G) /\ o \in [1 .. n -> 1 .. n]
  BY <1>6, <1>7, <1>8
<1>10. \A x \in 1 .. n : \E i \in DOMAIN o : o[i] = x
  BY <1>2, <1>4, <1>9, LayoutHasAll
<1>11. \A i, j \in 1 .. n : i < j => SeenFirst(xs[o[i]], o[i], xs[o[j]], o[j])
  <2>. SUFFICES ASSUME NEW i \in 1 .. n, NEW j \in 1 .. n, i < j PROVE SeenFirst(xs[o[i]], o[i], xs[o[j]], o[j])
    OBVIOUS
  <2>1. <<o[i], o[j]>> \in G
    BY <1>9 DEF LaidOut
  <2>. QED  BY <2>1, <1>3
<1>. QED  BY <1>9, <1>10, <1>11 DEF Covers

LEMMA WatchOrderHolds ==
  ASSUME sample.of = "titles" => \E n : TitlesOf(sample.items, n)
  PROVE  WatchOrder
<1>. SUFFICES ASSUME sample.of = "titles" PROVE WatchOrder
  BY DEF WatchOrder
<1>1. PICK xs, o : xs = sample.items /\ o = Ordering(xs)
  OBVIOUS
<1>2. PICK n : TitlesOf(xs, n)
  BY <1>1
<1>3. n \in Nat /\ DOMAIN xs = 1 .. n /\ Len(xs) = n /\ \A i \in 1 .. n : xs[i] \in Title
  BY <1>2 DEF TitlesOf
<1>4. /\ o \in [1 .. n -> 1 .. n] /\ Covers(o, 1 .. n)
      /\ \A i, j \in 1 .. n : i < j => SeenFirst(xs[o[i]], o[i], xs[o[j]], o[j])
  BY <1>1, <1>2, OrderingIs
<1>5. DOMAIN o = 1 .. n /\ Len(o) = n /\ {o[i] : i \in DOMAIN o} = 1 .. n
  BY <1>3, <1>4 DEF Covers
<1>6. \A i \in 1 .. n : xs[o[i]] \in Title /\ xs[o[i]].name \in Nat
  BY <1>3, <1>4, TitleParts
<1>7. ASSUME NEW i \in 1 .. n, NEW j \in 1 .. n, i < j PROVE xs[o[i]].name <= xs[o[j]].name
  <2>1. PICK x, y \in Title : x = xs[o[i]] /\ y = xs[o[j]]
    BY <1>6
  <2>2. x.name \in Nat /\ y.name \in Nat
    BY TitleParts
  <2>3. SeenFirst(x, o[i], y, o[j])
    BY <1>4, <1>7, <2>1
  <2>4. x.name < y.name \/ x.name = y.name
    BY <2>3 DEF SeenFirst
  <2>. QED  BY <2>1, <2>2, <2>4
<1>8. ASSUME NEW i \in 1 .. n, NEW j \in 1 .. n, i < j, xs[o[i]].name = xs[o[j]].name
      PROVE  /\ \A k \in i .. j : xs[o[k]].name = xs[o[i]].name
             /\ \/ xs[o[i]].season < xs[o[j]].season
                \/ xs[o[i]].season = xs[o[j]].season /\ xs[o[i]].episode < xs[o[j]].episode
                \/ xs[o[i]] = xs[o[j]] /\ o[i] < o[j]
  <2>1. ASSUME NEW k \in i .. j PROVE xs[o[k]].name = xs[o[i]].name
    <3>1. k \in 1 .. n /\ (k = i \/ i < k) /\ (k = j \/ k < j)
      BY <1>3
    <3>2. xs[o[i]].name <= xs[o[k]].name
      BY <3>1, <1>6, <1>7
    <3>3. xs[o[k]].name <= xs[o[j]].name
      BY <3>1, <1>6, <1>7
    <3>4. PICK a, b \in Nat : a = xs[o[i]].name /\ b = xs[o[k]].name
      BY <3>1, <1>6
    <3>. QED  BY <3>2, <3>3, <3>4, <1>8
  <2>2. PICK x, y \in Title : x = xs[o[i]] /\ y = xs[o[j]]
    BY <1>6
  <2>3. SeenFirst(x, o[i], y, o[j])
    BY <1>4, <1>8, <2>2
  <2>4. x.name = y.name /\ x.name \in Nat
    BY <1>8, <2>2, TitleParts
  <2>5. x.season < y.season \/ (x.season = y.season /\ x.episode < y.episode) \/ (x = y /\ o[i] < o[j])
    BY <2>3, <2>4 DEF SeenFirst
  <2>. QED  BY <2>1, <2>2, <2>5
<1>9. /\ Len(o) = Len(xs) /\ {o[i] : i \in DOMAIN o} = DOMAIN xs
      /\ \A i, j \in DOMAIN o : (i < j /\ xs[o[i]].name = xs[o[j]].name) =>
           /\ \A k \in i .. j : xs[o[k]].name = xs[o[i]].name
           /\ \/ xs[o[i]].season < xs[o[j]].season
              \/ xs[o[i]].season = xs[o[j]].season /\ xs[o[i]].episode < xs[o[j]].episode
              \/ xs[o[i]] = xs[o[j]] /\ o[i] < o[j]
  BY <1>3, <1>5, <1>8
<1>. QED  BY ONLY <1>1, <1>9, sample.of = "titles" DEF WatchOrder
-----------------------------------------------------------------------------
\* What is left of a list: the places left, rising, of which the k-th has k - 1
\* before it.
RankOf(S, x) == Cardinality({j \in S : j <= x})
Rising(o, m, S) ==
  /\ m \in Nat /\ m = Cardinality(S) /\ o \in [1 .. m -> S] /\ Covers(o, S)
  /\ \A i, j \in 1 .. m : i < j => o[i] < o[j]
  /\ \A k \in 1 .. m : RankOf(S, o[k]) = k

LEMMA RisingChain ==
  ASSUME NEW n \in Nat, NEW S, S \subseteq 1 .. n
  PROVE  Chain(S, {p \in S \X S : p[1] < p[2]})
<1>. DEFINE G == {p \in S \X S : p[1] < p[2]}
<1>1. \A i, j \in S : <<i, j>> \in G <=> i < j
  OBVIOUS
<1>2. \A i \in S : i \in Nat
  OBVIOUS
<1>. HIDE DEF G
<1>3. Chain(S, G)
  BY <1>1, <1>2 DEF Chain
<1>. QED  BY <1>3 DEF G

RisesIn(o, m, S, n) ==
  /\ n \in Nat /\ S \subseteq 1 .. n /\ m \in Nat /\ o \in [1 .. m -> S] /\ Covers(o, S)
  /\ \A i, j \in 1 .. m : i < j => o[i] < o[j]

LEMMA RankIs ==
  ASSUME NEW n, NEW S, NEW m, NEW o, RisesIn(o, m, S, n), NEW k \in 1 .. m
  PROVE  RankOf(S, o[k]) = k
<1>. USE DEF RisesIn
<1>1. PICK T : T = {j \in S : j <= o[k]}
  BY Zenon
<1>2. PICK f : f = [i \in 1 .. k |-> o[i]]
  OBVIOUS
<1>3. \A i \in 1 .. m : o[i] \in Nat
  <2>. SUFFICES ASSUME NEW i \in 1 .. m PROVE o[i] \in Nat
    OBVIOUS
  <2>1. o[i] \in S
    OBVIOUS
  <2>2. o[i] \in 1 .. n
    BY <2>1
  <2>. QED  BY <2>2
<1>4. \A i \in 1 .. k : i \in 1 .. m /\ o[i] <= o[k]
  <2>. SUFFICES ASSUME NEW i \in 1 .. k PROVE i \in 1 .. m /\ o[i] <= o[k]
    OBVIOUS
  <2>1. i \in 1 .. m /\ (i < k \/ i = k)
    OBVIOUS
  <2>. QED  BY <2>1, <1>3
<1>5. f \in [1 .. k -> T]
  BY <1>1, <1>2, <1>4
<1>6. \A i, j \in 1 .. k : f[i] = f[j] => i = j
  <2>. SUFFICES ASSUME NEW i \in 1 .. k, NEW j \in 1 .. k, i < j, o[i] = o[j] PROVE FALSE
    BY <1>2
  <2>1. o[i] < o[j] /\ o[i] \in Nat
    BY <1>3, <1>4
  <2>. QED  BY <2>1
<1>7. \A x \in T : \E i \in 1 .. k : f[i] = x
  <2>. SUFFICES ASSUME NEW x \in T PROVE \E i \in 1 .. k : f[i] = x
    OBVIOUS
  <2>1. PICK i \in 1 .. m : o[i] = x
    BY <1>1 DEF Covers
  <2>2. i <= k
    <3>. SUFFICES ASSUME k < i PROVE FALSE
      OBVIOUS
    <3>1. o[k] < o[i] /\ o[i] <= o[k]
      BY <1>1, <2>1
    <3>. QED  BY <3>1, <1>3
  <2>3. i \in 1 .. k
    BY <2>2
  <2>. QED  BY <1>2, <2>1, <2>3
<1>8. f \in Bijection(1 .. k, T)
  BY <1>5, <1>6, <1>7 DEF Bijection, Injection, IsInjective, Surjection
<1>9. k \in Nat /\ IsFiniteSet(1 .. k) /\ Cardinality(1 .. k) = k
  BY FS_Interval
<1>10. Cardinality(T) = Cardinality(1 .. k)
  <2>1. ExistsBijection(1 .. k, T)
    BY <1>8 DEF ExistsBijection
  <2>. QED  BY <2>1, <1>9, FS_Bijection
<1>. QED  BY <1>1, <1>9, <1>10 DEF RankOf

LeftBy(l, s, S, o, m) == Rising(o, m, S) /\ l = [k \in 1 .. m |-> s[o[k]]]

LEMMA LeftIs ==
  ASSUME NEW n \in Nat, NEW S, S \subseteq 1 .. n, NEW s, NEW l, l = Left(s, S)
  PROVE  \E m, o : LeftBy(l, s, S, o, m)
<1>1. IsFiniteSet(S)
  <2>1. IsFiniteSet(1 .. n)
    BY FS_Interval
  <2>. QED  BY <2>1, FS_Subset
<1>2. PICK m \in Nat : m = Cardinality(S)
  BY <1>1, FS_CardinalityType
<1>3. PICK G : G = {p \in S \X S : p[1] < p[2]}
  OBVIOUS
<1>4. Chain(S, G)
  BY <1>3, RisingChain
<1>5. \A i, j \in S : <<i, j>> \in G <=> i < j
  BY <1>3
<1>6. \A o \in [1 .. m -> S] : (\A i, j \in DOMAIN o : i < j => o[i] < o[j]) <=> LaidOut(o, S, G)
  BY <1>2, <1>5 DEF LaidOut
<1>7. \E o \in [1 .. m -> S] : LaidOut(o, S, G)
  BY <1>1, <1>2, <1>4, ChainLaidOut DEF LaidOut
<1>8. PICK o : o = CHOOSE q \in [1 .. m -> S] : \A i, j \in DOMAIN q : i < j => q[i] < q[j]
  OBVIOUS
<1>9. LaidOut(o, S, G) /\ o \in [1 .. m -> S] /\ \A i, j \in DOMAIN o : i < j => o[i] < o[j]
  BY <1>6, <1>7, <1>8
<1>10. l = [k \in 1 .. m |-> s[o[k]]]
  BY <1>2, <1>8, <1>9 DEF Left, Arranged
<1>11. Covers(o, S)
  BY <1>1, <1>4, <1>9, LayoutHasAll DEF Covers
<1>12. \A i, j \in 1 .. m : i < j => o[i] < o[j]
  BY <1>9
<1>13. \A k \in 1 .. m : RankOf(S, o[k]) = k
  <2>. SUFFICES ASSUME NEW k \in 1 .. m PROVE RankOf(S, o[k]) = k
    OBVIOUS
  <2>1. o \in [1 .. m -> S]
    BY <1>9
  <2>2. RisesIn(o, m, S, n)
    BY <2>1, <1>11, <1>12 DEF RisesIn
  <2>. QED  BY ONLY <2>2, k \in 1 .. m, RankIs
<1>14. LeftBy(l, s, S, o, m)
  BY <1>2, <1>9, <1>10, <1>11, <1>12, <1>13 DEF Rising, LeftBy
<1>. QED  BY <1>14

\* Tags: what is left has a normal form each, the first.
CappedBy(g, tags, S, o, m, c) ==
  /\ Rising(o, m, S) /\ c \in Nat /\ c = (IF m < TagCap THEN m ELSE TagCap)
  /\ DOMAIN g = 1 .. c /\ \A k \in 1 .. c : k \in 1 .. m /\ g[k] = tags[o[k]]

LEMMA GeneratedIs ==
  ASSUME NEW n \in Nat, NEW tags, DOMAIN tags = 1 .. n, NEW S, S = {i \in 1 .. n : \A j \in 1 .. i - 1 : tags[j].norm # tags[i].norm},
         NEW g, g = Generated(tags)
  PROVE  \E m, o, c : CappedBy(g, tags, S, o, m, c)
<1>1. PICK l : l = Left(tags, S)
  OBVIOUS
<1>2. PICK m, o : LeftBy(l, tags, S, o, m)
  <2>1. S \subseteq 1 .. n
    OBVIOUS
  <2>. QED  BY ONLY <1>1, <2>1, n \in Nat, LeftIs
<1>3. Rising(o, m, S) /\ m \in Nat /\ Len(l) = m /\ \A k \in 1 .. m : l[k] = tags[o[k]]
  <2>1. Rising(o, m, S) /\ l = [k \in 1 .. m |-> tags[o[k]]]
    BY <1>2 DEF LeftBy
  <2>2. m \in Nat
    BY <2>1 DEF Rising
  <2>3. Len(l) = m
    BY ONLY <2>1, <2>2
  <2>. QED  BY <2>1, <2>2, <2>3
<1>4. TagCap \in Nat
  BY RulesAssumption
<1>5. PICK c \in Nat : c = IF m < TagCap THEN m ELSE TagCap
  BY <1>3, <1>4
<1>6. \A k \in 1 .. c : k \in 1 .. m
  BY <1>3, <1>4, <1>5
<1>7. g = SubSeq(l, 1, c)
  BY <1>1, <1>3, <1>5 DEF Generated, UpToCap
<1>8. PICK T : T = {tags[o[k]] : k \in 1 .. m}
  OBVIOUS
<1>9. \A k \in 1 .. c : l[k] \in T
  BY <1>3, <1>6, <1>8
<1>10. /\ g \in Seq(T) /\ Len(g) = (IF 1 <= c THEN c - 1 + 1 ELSE 0)
       /\ \A i \in 1 .. c - 1 + 1 : g[i] = l[1 + i - 1]
  <2>1. 1 \in Int /\ c \in Int
    OBVIOUS
  <2>. QED  BY <1>7, <1>9, <2>1, SubSeqProperties
<1>11. Len(g) = c /\ c - 1 + 1 = c /\ DOMAIN g = 1 .. c
  BY <1>10
<1>12. \A k \in 1 .. c : g[k] = tags[o[k]]
  <2>. SUFFICES ASSUME NEW k \in 1 .. c PROVE g[k] = tags[o[k]]
    OBVIOUS
  <2>1. 1 + k - 1 = k /\ g[k] = l[1 + k - 1]
    BY <1>10, <1>11
  <2>. QED  BY <2>1, <1>3, <1>6
<1>13. CappedBy(g, tags, S, o, m, c)
  BY <1>3, <1>5, <1>6, <1>11, <1>12 DEF CappedBy
<1>. QED  BY <1>13

Accounted(g, tags, there, S) ==
  /\ \A i, j \in DOMAIN g : g[i].norm = g[j].norm => i = j
  /\ {g[i] : i \in DOMAIN g} = {tags[i] : i \in {i \in S : Cardinality({j \in S : j <= i}) <= TagCap}}
  /\ Matching(g, there) \subseteq there
  /\ \A i \in DOMAIN g : g[i] \in Missing(g, there) \/ \E e \in Matching(g, there) : e.norm = g[i].norm

LEMMA TagsAreAccounted ==
  ASSUME NEW n \in Nat, NEW tags, DOMAIN tags = 1 .. n, NEW there,
         NEW S, S = {i \in DOMAIN tags : \A j \in 1 .. i - 1 : tags[j].norm # tags[i].norm},
         NEW g, g = Generated(tags)
  PROVE  Accounted(g, tags, there, S)
<1>3. S = {i \in 1 .. n : \A j \in 1 .. i - 1 : tags[j].norm # tags[i].norm}
  OBVIOUS
<1>0. PICK m, o, c : CappedBy(g, tags, S, o, m, c)
  BY ONLY <1>3, DOMAIN tags = 1 .. n, g = Generated(tags), n \in Nat, GeneratedIs
<1>5. /\ Rising(o, m, S) /\ c \in Nat /\ c = (IF m < TagCap THEN m ELSE TagCap)
      /\ DOMAIN g = 1 .. c /\ \A k \in 1 .. c : k \in 1 .. m /\ g[k] = tags[o[k]]
  BY <1>0 DEF CappedBy
<1>6. /\ m \in Nat /\ o \in [1 .. m -> S] /\ Covers(o, S) /\ TagCap \in Nat
      /\ \A i, j \in 1 .. m : i < j => o[i] < o[j]
      /\ \A k \in 1 .. m : RankOf(S, o[k]) = k
  BY <1>5, RulesAssumption DEF Rising
<1>7. \A i \in 1 .. m : o[i] \in S /\ o[i] \in 1 .. n
  BY <1>3, <1>6
<1>8. ASSUME NEW i \in 1 .. m, NEW j \in 1 .. m, i < j PROVE tags[o[i]].norm # tags[o[j]].norm
  <2>1. o[i] \in 1 .. o[j] - 1
    BY <1>6, <1>7, <1>8
  <2>. QED  BY <2>1, <1>3, <1>7
<1>9. ASSUME NEW i \in DOMAIN g, NEW j \in DOMAIN g, g[i].norm = g[j].norm PROVE i = j
  <2>1. i \in 1 .. m /\ j \in 1 .. m /\ g[i] = tags[o[i]] /\ g[j] = tags[o[j]]
    BY <1>5
  <2>2. ~(i < j) /\ ~(j < i)
    BY <2>1, <1>8, <1>9
  <2>. QED  BY <2>1, <2>2
<1>10. {g[i] : i \in DOMAIN g} = {tags[i] : i \in {i \in S : RankOf(S, i) <= TagCap}}
  <2>1. ASSUME NEW k \in DOMAIN g
        PROVE  \E i \in S : RankOf(S, i) <= TagCap /\ g[k] = tags[i]
    <3>1. k \in 1 .. c /\ k \in 1 .. m /\ g[k] = tags[o[k]]
      BY <1>5
    <3>2. k <= TagCap
      BY <3>1, <1>5, <1>6
    <3>3. RankOf(S, o[k]) <= TagCap /\ o[k] \in S
      BY <3>1, <3>2, <1>6
    <3>. QED  BY <3>1, <3>3
  <2>2. ASSUME NEW i \in S, RankOf(S, i) <= TagCap
        PROVE  \E k \in DOMAIN g : g[k] = tags[i]
    <3>1. PICK k \in 1 .. m : o[k] = i
      BY <1>6 DEF Covers
    <3>2. k <= TagCap
      BY <3>1, <2>2, <1>6
    <3>3. k \in 1 .. c
      BY <3>2, <1>5, <1>6
    <3>. QED  BY <3>1, <3>3, <1>5
  <2>3. PICK A : A = {i \in S : RankOf(S, i) <= TagCap}
    BY Zenon
  <2>4. \A k \in DOMAIN g : \E i \in A : g[k] = tags[i]
    BY <2>1, <2>3
  <2>5. \A i \in A : \E k \in DOMAIN g : g[k] = tags[i]
    BY <2>2, <2>3
  <2>6. {g[i] : i \in DOMAIN g} = {tags[i] : i \in A}
    BY ONLY <2>4, <2>5
  <2>. QED  BY <2>3, <2>6
<1>11. {g[i] : i \in DOMAIN g} = {tags[i] : i \in {i \in S : Cardinality({j \in S : j <= i}) <= TagCap}}
  BY ONLY <1>10 DEF RankOf
<1>12. /\ Matching(g, there) \subseteq there
       /\ \A i \in DOMAIN g : g[i] \in Missing(g, there) \/ \E e \in Matching(g, there) : e.norm = g[i].norm
  BY DEF Missing, Matching
<1>. QED  BY <1>9, <1>11, <1>12 DEF Accounted

LEMMA TagsAccountedHolds ==
  ASSUME sample.of = "tags" => \E n \in Nat : DOMAIN sample.tags = 1 .. n
  PROVE  TagsAccounted
<1>. SUFFICES ASSUME sample.of = "tags" PROVE TagsAccounted
  BY DEF TagsAccounted
<1>1. PICK n \in Nat : DOMAIN sample.tags = 1 .. n
  OBVIOUS
<1>2. Accounted(Generated(sample.tags), sample.tags, sample.there,
                {i \in DOMAIN sample.tags : \A j \in 1 .. i - 1 : sample.tags[j].norm # sample.tags[i].norm})
  BY <1>1, TagsAreAccounted
<1>. QED  BY <1>2 DEF Accounted, TagsAccounted

\* Lines: a known title becomes one item however it is written.
LEMMA EntryOfKnown ==
  ASSUME NEW l \in Line, NEW known \in SUBSET Linked, NEW based, l.token \in known, l.form # "blank"
  PROVE  Entry(l, known, based) = Manifest(l.token)
<1>1. "" \notin known
  BY RulesAssumption
<1>2. l.form \in {"link", "cm", "bare"}
  BY <1>1 DEF Line
<1>3. CASE l.form = "cm"
  BY <1>3 DEF Entry, Colon
<1>4. CASE l.form \in {"link", "bare"}
  BY <1>4 DEF Entry
<1>. QED  BY <1>2, <1>3, <1>4

LEMMA SameMediaHolds ==
  ASSUME sample.of = "lines" => \E n \in Nat : sample.lines \in [1 .. n -> Line] /\ sample.known \in SUBSET Linked
  PROVE  SameMedia
<1>. SUFFICES ASSUME sample.of = "lines" PROVE SameMedia
  BY DEF SameMedia
<1>1. PICK n \in Nat : sample.lines \in [1 .. n -> Line] /\ sample.known \in SUBSET Linked
  OBVIOUS
<1>2. PICK ls, known, based : ls = sample.lines /\ known = sample.known /\ based = sample.based
  OBVIOUS
<1>3. DOMAIN ls = 1 .. n /\ (\A i \in 1 .. n : ls[i] \in Line) /\ known \in SUBSET Linked
  BY <1>1, <1>2
<1>4. PICK S : S = {i \in DOMAIN ls : ls[i].form # "blank"}
  OBVIOUS
<1>5. PICK got, l : got = Imported(ls, known, based) /\ l = Left(ls, S)
  OBVIOUS
<1>6. S \subseteq 1 .. n
  BY <1>3, <1>4
<1>0. PICK m, o : LeftBy(l, ls, S, o, m)
  BY <1>5, <1>6, LeftIs
<1>7. Rising(o, m, S) /\ l = [k \in 1 .. m |-> ls[o[k]]]
  BY <1>0 DEF LeftBy
<1>8. /\ m \in Nat /\ m = Cardinality(S) /\ o \in [1 .. m -> S] /\ Covers(o, S)
      /\ \A k \in 1 .. m : RankOf(S, o[k]) = k
  BY <1>7 DEF Rising
<1>9. got = [k \in 1 .. m |-> Entry(ls[o[k]], known, based)]
  BY <1>4, <1>5, <1>7 DEF Imported
<1>10. Len(got) = Cardinality(S)
  BY <1>8, <1>9
<1>11. ASSUME NEW i \in S, ls[i].token \in known
       PROVE  got[RankOf(S, i)] = Manifest(ls[i].token)
  <2>1. PICK k \in 1 .. m : o[k] = i
    BY <1>8 DEF Covers
  <2>2. got[RankOf(S, i)] = Entry(ls[i], known, based)
    BY <2>1, <1>8, <1>9
  <2>3. ls[i] \in Line /\ ls[i].form # "blank"
    BY <1>3, <1>4
  <2>. QED  BY <2>2, <2>3, <1>3, <1>11, EntryOfKnown
<1>12. \A i, j \in S : (ls[i].token = ls[j].token /\ ls[i].token \in known)
         => got[Cardinality({h \in S : h <= i})] = got[Cardinality({h \in S : h <= j})]
  BY <1>11 DEF RankOf
<1>. QED  BY ONLY <1>2, <1>4, <1>5, <1>10, <1>12 DEF SameMedia

LEMMA UpToAre ==
  ASSUME NEW S, NEW n \in Nat, NEW s \in UpTo(S, n)
  PROVE  \E k : k \in Nat /\ s \in [1 .. k -> S]
BY DEF UpTo

\* A sample is of what the rules take.
RulesInv ==
  /\ RulesType
  /\ sample.of = "streams" => \E n : OfferOf(sample.offer, n)
  /\ sample.of = "tags" => \E n \in Nat : DOMAIN sample.tags = 1 .. n
  /\ sample.of = "titles" => \E n : TitlesOf(sample.items, n)
  /\ sample.of = "lines" => \E n \in Nat : sample.lines \in [1 .. n -> Line] /\ sample.known \in SUBSET Linked
  /\ sample.of = "table" => sample.table \in Tables

LEMMA RulesInitially == RulesInit => RulesInv
BY DEF RulesInit, RulesInv, RulesType, Nothing

LEMMA RulesInductive == RulesInv /\ [RulesNext]_ruleVars => RulesInv'
<1>. SUFFICES ASSUME RulesInv, [RulesNext]_ruleVars PROVE RulesInv'
  OBVIOUS
<1>1. CASE TakeTable
  <2>1. PICK t \in Tables : sample' = [of |-> "table", table |-> t]
    BY <1>1 DEF TakeTable
  <2>. QED  BY <2>1 DEF RulesInv, RulesType
<1>2. CASE TakeStreams
  <2>1. PICK fs \in Offers, q \in Qualities : sample' = [of |-> "streams", offer |-> fs, cap |-> q]
    BY <1>2 DEF TakeStreams
  <2>2. fs \in UpTo(Stream, MaxStreams)
    BY DEF Offers
  <2>3. MaxStreams \in Nat
    BY RulesAssumption
  <2>4. PICK k : k \in Nat /\ fs \in [1 .. k -> Stream]
    BY <2>2, <2>3, UpToAre
  <2>5. OfferOf(fs, k)
    BY <2>4 DEF OfferOf
  <2>6. sample'.of = "streams" /\ sample'.offer = fs
    BY <2>1
  <2>. QED  BY <2>5, <2>6 DEF RulesInv, RulesType
<1>3. CASE TakeTags
  <2>1. PICK tags \in UpTo(Spelled, 4), there \in SUBSET Spelled : sample' = [of |-> "tags", tags |-> tags, there |-> there]
    BY <1>3 DEF TakeTags
  <2>2. PICK k : k \in Nat /\ tags \in [1 .. k -> Spelled]
    BY UpToAre
  <2>3. DOMAIN tags = 1 .. k
    BY <2>2
  <2>4. sample'.of = "tags" /\ sample'.tags = tags
    BY <2>1
  <2>. QED  BY <2>2, <2>3, <2>4 DEF RulesInv, RulesType
<1>4. CASE TakeTitles
  <2>1. PICK xs \in UpTo(Title, 3) : sample' = [of |-> "titles", items |-> xs]
    BY <1>4 DEF TakeTitles
  <2>2. PICK k : k \in Nat /\ xs \in [1 .. k -> Title]
    BY UpToAre
  <2>3. TitlesOf(xs, k)
    BY <2>2 DEF TitlesOf
  <2>4. sample'.of = "titles" /\ sample'.items = xs
    BY <2>1
  <2>. QED  BY <2>3, <2>4 DEF RulesInv, RulesType
<1>5. CASE TakeLines
  <2>1. PICK ls \in UpTo(Line, 3), known \in SUBSET Linked, based \in BOOLEAN :
          sample' = [of |-> "lines", lines |-> ls, known |-> known, based |-> based]
    BY <1>5 DEF TakeLines
  <2>2. PICK k : k \in Nat /\ ls \in [1 .. k -> Line]
    BY UpToAre
  <2>4. sample'.of = "lines" /\ sample'.lines = ls /\ sample'.known = known
    BY <2>1
  <2>. QED  BY <2>2, <2>4 DEF RulesInv, RulesType
<1>6. CASE UNCHANGED ruleVars
  BY <1>6 DEF RulesInv, RulesType, ruleVars
<1>. QED  BY <1>1, <1>2, <1>3, <1>4, <1>5, <1>6 DEF RulesNext

LEMMA RulesInvSafe == RulesInv => RulesType /\ CapFirst /\ TagsAccounted /\ WatchOrder /\ SameMedia /\ TimelineAgrees
<1>. SUFFICES ASSUME RulesInv PROVE RulesType /\ CapFirst /\ TagsAccounted /\ WatchOrder /\ SameMedia /\ TimelineAgrees
  OBVIOUS
<1>1. CapFirst
  BY CapFirstHolds DEF RulesInv
<1>2. TagsAccounted
  BY TagsAccountedHolds DEF RulesInv
<1>3. WatchOrder
  BY WatchOrderHolds DEF RulesInv
<1>4. SameMedia
  BY SameMediaHolds DEF RulesInv
<1>5. TimelineAgrees
  <2>. SUFFICES ASSUME sample.of = "table" PROVE TimelineTrue(sample.table, 1, 5)
    BY DEF TimelineAgrees
  <2>1. PICK table \in Tables : table = sample.table
    BY DEF RulesInv
  <2>2. Timetable(table)
    BY RulesAssumption
  <2>. QED  BY <2>1, <2>2, TimelineCorrect
<1>. QED  BY <1>1, <1>2, <1>3, <1>4, <1>5 DEF RulesInv
================================================================================
