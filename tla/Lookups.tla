------------------------------ MODULE Lookups ------------------------------
(***************************************************************************)
(* How what is told of a film or an episode is found: the title is read    *)
(* (enrichtitles, enrichtv, enrichmeta, catalog/enrichment), a work is     *)
(* picked from what TMDb lists, and OMDb is asked for the other half.  The *)
(* answers of both are inputs, and one call of a look-up may fail.  A run  *)
(* of enrichtv looks up many episodes and keeps its shows.                 *)
(***************************************************************************)
EXTENDS Integers, Sequences, SequencesExt, FiniteSets, FiniteSetsExt

CONSTANTS
  Works,        \* films and series there are, the more popular first
  Names,        \* numbers, similar to their neighbours
  Asked,        \* the names looked for
  MaxEpisodes,  \* bound: episodes a run looks up
  MaxWords      \* bound: parts of a film's title

ASSUME LookupsAssumption == Works \subseteq Nat \ {0} /\ Names \subseteq Int /\ Asked \subseteq Int /\ MaxWords \in Nat

VARIABLES
  inquiry,      \* what is looked up: nothing yet, a film, a title, or a run's series
  shelf,        \* the run's shows by key, what was not found too
  served,       \* the shows a run's episodes were given
  latest        \* the last of its episodes

lookupVars == <<inquiry, shelf, served, latest>>

None == 0
NotAsked == [of |-> "nothing"]
NoEpisode == [show |-> None, season |-> 0, from |-> {}, omdb |-> None]
LookupsInit == inquiry = NotAsked /\ shelf = <<>> /\ served = {} /\ latest = NoEpisode

\* _titles_similar, of which only this counts here: it is not transitive.
Similar(a, b) == a - b \in -1 .. 1
Lists == UNION {{s \in [1 .. n -> Works] : IsInjective(s)} : n \in 0 .. 2}
-----------------------------------------------------------------------------
\* A film; known: OMDb knows its number.  Of the title searches at OMDb the
\* second is without the year.
Film == [name : Names, year : {1, 2}, known : BOOLEAN]
\* Which call fails, after _api_call_with_backoff has tried it five times.
FilmCalls == {"none", "search", "again", "detail", "omdb", "retry"}
FilmAsked ==
  {q \in [of : {"film"}, films : [Works -> Film], name : Asked, year : {0, 1}, first : Lists, second : Lists,
          titled : Works \cup {None}, other : Works \cup {None}, broken : FilmCalls] :
     /\ (q.year = 0 => q.second = <<>> /\ q.other = None)
     /\ \A w \in {q.titled, q.other} \ {None} : q.films[w].known}
TakeFilm == inquiry = NotAsked /\ inquiry' \in FilmAsked /\ UNCHANGED <<shelf, served, latest>>

\* The places in a list of the works that are similar, of those of the year
\* that was asked for, and of those that go first.
Fits(q, list) == {i \in DOMAIN list : Similar(q.name, q.films[list[i]].name)}
OfYear(q, list, year) == {i \in Fits(q, list) : year # 0 /\ q.films[list[i]].year = year}
Preferred(q, list, year) == IF OfYear(q, list, year) # {} THEN OfYear(q, list, year) ELSE Fits(q, list)

\* Mutant: as TMDb lists them.
Best_AsListed(q, list, year) == IF Fits(q, list) = {} THEN None ELSE list[Min(Fits(q, list))]
\* _pick_best_tmdb_result: the first similar one, those of the year first.
Best(q, list, year) == IF Fits(q, list) = {} THEN None ELSE list[Min(Preferred(q, list, year))]
\* TMDBProvider._pick: the same, but the more popular before the less.
Pick(q, list, year) == IF Fits(q, list) = {} THEN None ELSE Min({list[i] : i \in Preferred(q, list, year)})

\* _parse_tmdb_search: without the year only when nothing is listed with it.
ToolTmdb(q) ==
  IF q.broken = "search" THEN None
  ELSE Best(q, IF q.first # <<>> \/ q.year = 0 \/ q.broken = "again" THEN q.first ELSE q.second, q.year)
\* search_movie: without the year when nothing listed with it will do.
SiteTmdb(q) ==
  LET w == Pick(q, q.first, q.year)
  IN IF q.broken = "search" THEN None
     ELSE IF w # None \/ q.year = 0 \/ q.broken = "again" THEN w ELSE Pick(q, q.second, 0)

\* The number is in the details.
Number(q, w) == IF q.broken = "detail" THEN None ELSE w
ByNumber(q, w) == IF q.films[w].known THEN w ELSE None
Again(q) == IF q.broken = "retry" THEN None ELSE q.other
Suits(name, q, w) == w # None /\ Similar(name, q.films[w].name)

\* Mutant: OMDb is asked by title whatever is known.
ToolAsks_Title(q, w) == q.titled
\* run: OMDb is asked by the number TMDb gave, else by title.
ToolAsks(q, w) == IF Number(q, w) # None THEN ByNumber(q, w) ELSE q.titled
\* _parse_omdb_response: then by title without the year; and the title is checked.
ToolOmdb(q, w) ==
  LET asked == IF w = None THEN q.name ELSE q.films[w].name
      got == IF ToolAsks(q, w) # None THEN ToolAsks(q, w) ELSE Again(q)
  IN IF q.broken = "omdb" \/ ~Suits(asked, q, got) THEN None ELSE got
\* OMDBProvider.search_movie: by number without a second try and unchecked.
SiteOmdb(q, w) ==
  LET got == IF q.titled # None THEN q.titled ELSE Again(q)
  IN IF q.broken = "omdb" THEN None
     ELSE IF Number(q, w) # None THEN ByNumber(q, w)
     ELSE IF Suits(q.name, q, got) THEN got ELSE None

\* merge_metadata: whose title and whose IMDb number the result has.
Merged(q, w, o) == [title |-> IF w # None THEN w ELSE o, number |-> IF o # None THEN o ELSE Number(q, w)]
-----------------------------------------------------------------------------
\* Titles as parts: words, a leading number, years in three guises, scene tags,
\* an extension, pipes, a host, and the marks of season s and episode e.
P(k) == [k |-> k, s |-> 0, e |-> 0]
Mark(k, s, e) == [k |-> k, s |-> s, e |-> e]
At(ts, S) == LET at == {i \in DOMAIN ts : ts[i].k \in S} IN IF at = {} THEN 0 ELSE Min(at)
LastAt(ts, S) == LET at == {i \in DOMAIN ts : ts[i].k \in S} IN IF at = {} THEN 0 ELSE Max(at)
Ahead(ts, i) == SubSeq(ts, 1, i - 1)
Without(ts, S) == SelectSeq(ts, LAMBDA t : t.k \notin S)
Worded(ts) == At(ts, {"word"}) # 0
CutAt(ts, i) == IF i = 0 THEN ts ELSE Ahead(ts, i)

\* _clean_show_name, _extract_show_year
ShowOf(ts) == Without(ts, {"scene", "(year)"})
Reading(show, s, e) == [show |-> ShowOf(show), season |-> s, episode |-> e]
Unread == [show |-> <<>>, season |-> 0, episode |-> 0]

\* Mutant: no space between the season and the episode.
Joined_Tight(ts) == At(ts, {"sxe"})
\* _SXEX_RE: S1E2, S1 E2, S1x2.
Joined(ts) == At(ts, {"sxe", "s e"})

\* parse_tv_title
ParseTv(raw) ==
  LET ts == Without(raw, {"ext"})
      bar == At(ts, {"pipe"})
      rest == IF bar = 0 THEN <<>> ELSE SubSeq(ts, bar, Len(ts))
      barS == LastAt(rest, {"season"})  barE == LastAt(rest, {"ep"})
      x == Joined(ts)  n == At(ts, {"nxn"})  s == At(ts, {"season"})  c == At(ts, {"code"})
      ep == IF At(ts, {"ep"}) # 0 THEN At(ts, {"ep"}) ELSE At(ts, {"e"})
  IN CASE barS # 0 /\ barE # 0 -> Reading(Ahead(ts, bar), rest[barS].s, rest[barE].e)
       [] x # 0 -> Reading(CutAt(Ahead(ts, x), At(Ahead(ts, x), {"season"})), ts[x].s, ts[x].e)
       [] n # 0 -> Reading(Ahead(ts, n), ts[n].s, ts[n].e)
       [] s # 0 /\ ep # 0 -> Reading(Ahead(ts, IF s < ep THEN s ELSE ep), ts[s].s, ts[ep].e)
       [] c # 0 /\ Worded(Ahead(ts, c)) -> Reading(Ahead(ts, c), ts[c].s, ts[c].e)
       [] ep # 0 /\ Worded(Ahead(ts, ep)) -> Reading(Ahead(ts, ep), 1, ts[ep].e)
       [] OTHER -> Unread

Compact(show, s, e) == Without(show, {"scene"}) \o <<Mark("sxe", s, e)>>
\* _try_clean_tv_title: nothing, or the title it gives.
CleanTv(ts) ==
  LET bar == At(ts, {"pipe"})
      rest == IF bar = 0 THEN <<>> ELSE SubSeq(ts, bar, Len(ts))
      barS == LastAt(rest, {"season"})  barE == LastAt(rest, {"ep"})
      x == At(ts, {"sxe"})  n == At(ts, {"nxn"})  y == IF x # 0 THEN x ELSE n
      split == {i \in DOMAIN ts : ts[i].k = "s" /\ i < Len(ts) /\ ts[i + 1].k = "ep"}
  IN CASE barS # 0 /\ barE # 0 -> Compact(Ahead(ts, bar), rest[barS].s, rest[barE].e)
       [] ts[1].k = "number" /\ x > 2 -> SubSeq(ts, 2, x)
       [] split # {} -> LET i == Min(split) IN Without(Ahead(ts, i), {"number"}) \o <<Mark("sxe", ts[i].s, ts[i + 1].e)>>
       [] At(ts, {"ext"}) # 0 /\ y # 0 /\ Worded(Ahead(ts, y)) -> Compact(Ahead(ts, y), ts[y].s, ts[y].e)
       [] OTHER -> <<>>
\* clean_title: that, or a film's: [year] becomes (year) and the noise goes.
CleanTitle(ts) ==
  IF CleanTv(ts) # <<>> THEN CleanTv(ts)
  ELSE IF At(ts, {"[year]", "ext"}) = 0 THEN ts
  ELSE LET kept == Without(ts, {"ext", "scene"})
       IN [i \in DOMAIN kept |-> IF kept[i].k = "[year]" THEN P("(year)") ELSE kept[i]]
-----------------------------------------------------------------------------
\* The year of a film: in parentheses, else in brackets, else bare.
YearAt(ts) == LET p == At(ts, {"(year)"})  b == At(ts, {"[year]"})
              IN IF p # 0 THEN p ELSE IF b # 0 THEN b ELSE At(ts, {"year"})
Noise == {"scene", "[year]", "ext"}
\* parse_standard_title: the title ends where the year begins.
Standard(raw) ==
  LET ts == Without(raw, {"ext"})  y == YearAt(ts)
  IN [name |-> Without(CutAt(ts, y), Noise), dated |-> y # 0]
\* normalize_and_clean: a leading year goes to the end, and only the year goes.
Normal(raw) ==
  LET bare == Without(raw, {"ext"})
      ts == IF Len(bare) > 1 /\ bare[1].k \in {"(year)", "[year]"} THEN Append(Tail(bare), P("(year)")) ELSE bare
      y == YearAt(ts)
  IN [name |-> Without(IF y = 0 THEN ts ELSE RemoveAt(ts, y), Noise), dated |-> y # 0]
\* Mutant: the week alone goes.
Unweek_Alone(ts) == Without(ts, {"week"})
\* _SHOW_YEAR_PREFIX_RE, _WEEK_PREFIX_RE: "(2020) S2-Wk 2", or the week alone.
Unweek(ts) == IF Len(ts) > 1 /\ ts[1].k = "(year)" /\ ts[2].k = "week" THEN SubSeq(ts, 3, Len(ts))
              ELSE Without(ts, {"week"})
\* A leading number goes as well, and then the year of the film.
OwnTitle(plain) ==
  LET weekless == Unweek(plain)
      ts == IF weekless # <<>> /\ weekless[1].k = "number" THEN Tail(weekless) ELSE weekless
      y == YearAt(ts)
  IN [name |-> IF y = 0 THEN ts ELSE RemoveAt(ts, y), dated |-> y # 0]
\* _extract_hosted_title
Hosted(raw) == OwnTitle(Without(raw, {"ext", "host", "riff", "sxe", "scene"}))
\* normalize_movie_title: what stands before "| Full Movie", the year from anywhere.
Searched(raw) ==
  LET full == At(raw, {"full"})  own == Normal(CutAt(raw, full))
  IN [own EXCEPT !.dated = own.dated \/ (full # 0 /\ Normal(raw).dated)]
SiteReads(raw) == IF At(raw, {"host", "riff"}) # 0 THEN Hosted(raw) ELSE Searched(raw)

\* detect_hosted, parse_youtube_title, find_candidates: enrichmeta.
ToolHosted(raw) == OwnTitle(Without(raw, {"ext", "host", "sxe", "scene"}))
ToolPiped(raw) == [name |-> Ahead(raw, At(raw, {"full"})), dated |-> FALSE]
ToolReads(raw) ==
  IF At(raw, {"riff"}) # 0 THEN Standard(Without(raw, {"riff"}))
  ELSE IF At(raw, {"host"}) # 0 THEN ToolHosted(raw)
  ELSE IF At(raw, {"full"}) # 0 THEN ToolPiped(raw)
  ELSE Standard(raw)

\* classify_item: hosted films, episodes, broadcasts and films of half an hour, in
\* this order; the season and episode only if written S1E2.
Classified(ts, long) ==
  LET x == At(ts, {"sxe"})
      it(kind, name, s, e) == [kind |-> kind, name |-> name, season |-> s, episode |-> e]
  IN CASE At(ts, {"host", "riff"}) # 0 -> it("hosted", Hosted(ts).name, 0, 0)
       [] x # 0 -> it("episode", Ahead(ts, x), ts[x].s, ts[x].e)
       [] At(ts, {"s e", "nxn", "season", "ep"}) # 0 -> it("episode", ts, 0, 0)
       [] long /\ At(ts, {"broadcast"}) # 0 -> it("archive", ts, 0, 0)
       [] long -> it("movie", Searched(ts).name, 0, 0)
       [] OTHER -> it("unknown", ts, 0, 0)

\* Titles of an episode as uploaders write them.
Forms == {"sxe", "s e", "nxn", "text", "text e", "double", "pipe", "code", "split", "bare"}
WrittenAs(form, m) ==
  LET show == IF m.dated THEN <<P("word"), P("(year)")>> ELSE <<P("word")>>
      season == Mark("season", m.s, 0)  ep == Mark("ep", 0, m.e)  e == Mark("e", 0, m.e)
      mark == CASE form \in {"sxe", "s e", "nxn", "code"} -> <<Mark(form, m.s, m.e)>>
                [] form = "text" -> <<season, ep>>
                [] form = "text e" -> <<season, e>>
                [] form = "double" -> <<season, e, P("word"), Mark("s e", m.s, m.e)>>
                [] form = "pipe" -> <<P("pipe"), season, P("pipe"), ep>>
                [] form = "split" -> <<Mark("s", m.s, 0), ep>>
                [] form = "bare" -> <<ep>>
  IN (IF m.led THEN <<P("number")>> ELSE <<>>) \o show \o mark \o m.tail \o (IF m.ext THEN <<P("ext")>> ELSE <<>>)
Meant == [s : {1, 2}, e : {3, 4}, dated : BOOLEAN, led : BOOLEAN, ext : BOOLEAN,
          tail : {<<>>, <<P("word")>>, <<P("scene")>>, <<Mark("code", 1, 3)>>}]
TakeEpisode ==
  /\ inquiry = NotAsked /\ \E form \in Forms, m \in Meant : inquiry' = [of |-> "episode", form |-> form, means |-> m]
  /\ UNCHANGED <<shelf, served, latest>>

FilmParts == {"word", "(year)", "[year]", "year", "scene"}
TakeTitle ==
  /\ inquiry = NotAsked
  /\ \E n \in 1 .. MaxWords : \E ks \in [1 .. n -> FilmParts], ext \in BOOLEAN :
       inquiry' = [of |-> "title", parts |-> [i \in 1 .. n |-> P(ks[i])] \o (IF ext THEN <<P("ext")>> ELSE <<>>)]
  /\ UNCHANGED <<shelf, served, latest>>
TakeHosted ==
  /\ inquiry = NotAsked
  /\ \E lead \in {<<>>, <<P("number")>>, <<P("week")>>, <<P("(year)"), P("week")>>},
        y \in {<<>>, <<P("(year)")>>, <<P("[year]")>>, <<P("year")>>}, host \in {<<P("host")>>, <<P("riff")>>},
        code, last \in BOOLEAN :
       LET rest == lead \o <<P("word")>> \o y \o (IF code THEN <<Mark("sxe", 1, 3)>> ELSE <<>>)
       IN inquiry' = [of |-> "hosted", parts |-> IF last THEN rest \o host ELSE host \o rest, plain |-> lead = <<>>, dated |-> y # <<>>]
  /\ UNCHANGED <<shelf, served, latest>>
TakePiped ==
  /\ inquiry = NotAsked
  /\ \E late \in BOOLEAN :
       inquiry' = [of |-> "piped", parts |-> <<P("word"), P("full")>> \o (IF late THEN <<P("(year)")>> ELSE <<>>), dated |-> late]
  /\ UNCHANGED <<shelf, served, latest>>
-----------------------------------------------------------------------------
\* Series, each with its name, its year, and whether its number is told; a run
\* begins with no show kept.
TakeRun ==
  /\ inquiry = NotAsked
  /\ \E shows \in [Works -> [name : Names, numbered : BOOLEAN]] : inquiry' = [of |-> "run", shows |-> shows]
  /\ UNCHANGED <<shelf, served, latest>>
BegunIn(w) == 1 + (w % 2)
Entry0 == [show |-> None, named |-> FALSE, number |-> None]

\* _pick_best_show_result
BestShow(key, list, year) ==
  LET fit == {i \in DOMAIN list : Similar(key, inquiry.shows[list[i]].name)}
      ofYear == {i \in fit : BegunIn(list[i]) = year}
  IN IF fit = {} THEN None ELSE list[Min(IF ofYear # {} THEN ofYear ELSE fit)]

\* _fetch_show_details: each of its calls may fail by itself.
ShowDetails(w) == {[show |-> w, named |-> n, number |-> k] : n \in BOOLEAN, k \in {None, IF inquiry.shows[w].numbered THEN w ELSE None}}
\* _fetch_omdb_show, _enrich_show_from_omdb: by name it is any show that is
\* found, and lends its number.
WithOmdb(d) == IF d.number # None \/ ~d.named THEN {d} ELSE {[d EXCEPT !.number = k] : k \in Works \cup {None}}

\* Mutant: what is not found is looked up again.
Keep_Found(key, d) == IF d.show = None THEN shelf ELSE [k \in DOMAIN shelf \cup {key} |-> IF k = key THEN d ELSE shelf[k]]
\* _lookup_show: what it found, or did not, is kept under the name alone.
Keep(key, d) == [k \in DOMAIN shelf \cup {key} |-> IF k = key THEN d ELSE shelf[k]]
\* _search_tmdb_show: with the year, then without, if nothing is listed.
LookedUp(key) ==
  {Entry0} \cup UNION {UNION {WithOmdb(d) : d \in ShowDetails(w)} :
    w \in {BestShow(key, list, year) : list \in Lists, year \in {0, 1, 2}} \ {None}}

\* Mutant: specials stand in for any season.
SeasonsTried_Always(s) == {s, 0}
\* _fetch_tmdb_episode: specials stand in for the first season.
SeasonsTried(s) == IF s = 1 THEN {1, 0} ELSE {s}
\* _fetch_omdb_episode: by the number, else by the name.
OmdbEpisode(d) == IF d.number # None THEN {None, d.number} ELSE IF d.named THEN Works \cup {None} ELSE {None}

LookEpisode(key, s) ==
  /\ inquiry.of = "run" /\ Cardinality(served) < MaxEpisodes
  /\ \E d \in IF key \in DOMAIN shelf THEN {shelf[key]} ELSE LookedUp(key) :
       /\ shelf' = IF key \in DOMAIN shelf THEN shelf ELSE Keep(key, d)
       /\ served' = served \cup {[key |-> key, got |-> d]}
       /\ IF d.show = None THEN latest' = NoEpisode
          ELSE \E from \in {{}} \cup {{t} : t \in SeasonsTried(s)}, o \in OmdbEpisode(d) :
                 latest' = [show |-> d.show, season |-> s, from |-> from, omdb |-> o]
  /\ UNCHANGED inquiry

\* _lookup_tv, search_tv_episode: the site takes the series listed first, and no
\* season but the one asked for.
SiteEpisode(s) ==
  /\ inquiry.of = "run"
  /\ \E list \in Lists : IF list = <<>> THEN latest' = NoEpisode
       ELSE \E from \in {{}, {s}} : latest' = [show |-> list[1], season |-> s, from |-> from, omdb |-> None]
  /\ UNCHANGED <<inquiry, shelf, served>>

LookupsNext ==
  \/ TakeFilm \/ TakeEpisode \/ TakeTitle \/ TakeHosted \/ TakePiped \/ TakeRun
  \/ (\E key \in Asked, s \in {1, 2} : LookEpisode(key, s)) \/ \E s \in {1, 2} : SiteEpisode(s)
LookupsType ==
  /\ inquiry.of \in {"nothing", "film", "episode", "title", "hosted", "piped", "run"}
  /\ DOMAIN shelf \subseteq Asked /\ latest.show \in Works \cup {None}
-----------------------------------------------------------------------------
Finds(q) == {<<ToolTmdb(q), ToolOmdb(q, ToolTmdb(q))>>, <<SiteTmdb(q), SiteOmdb(q, SiteTmdb(q))>>}

\* No film is taken for one whose title is not like the one looked for, and
\* one of the right year that was listed for it goes before one that is not.
FilmFits ==
  inquiry.of = "film" =>
    LET q == inquiry
        inTime(list) == {w \in {list[i] : i \in DOMAIN list} : q.films[w].year = q.year /\ Similar(q.name, q.films[w].name)}
    IN \A f \in Finds(q) :
         /\ f[1] # None => Similar(q.name, q.films[f[1]].name)
         /\ (f[1] = None /\ f[2] # None) => Similar(q.name, q.films[f[2]].name)
         /\ (q.broken # "search" /\ inTime(q.first) # {}) => f[1] # None /\ q.films[f[1]].year = q.year

\* What is told of a film is told of one film, its title and its number alike;
\* unless TMDb's details failed, or the tool was refused its number by OMDb and
\* went on with the title.
OneFilm ==
  inquiry.of = "film" =>
    LET q == inquiry
    IN \A f \in Finds(q) :
         LET m == Merged(q, f[1], f[2])
         IN (m.title # None /\ m.number # None /\ m.title # m.number) =>
              q.broken = "detail" \/ (q.year # 0 /\ ~q.films[m.title].known /\ f[2] = ToolOmdb(q, f[1]))

\* However an episode's title is written, the cleaned title is read as what it
\* means, by enrichtv and, once it is compact, by classify_item as well; and
\* so is the raw one unless its mark is split.  A title without a season means
\* the first, one with a number in it besides may be misread.
EpisodeRead ==
  inquiry.of = "episode" =>
    LET m == inquiry.means  raw == WrittenAs(inquiry.form, m)  clean == CleanTitle(raw)
        right(r) == r.season = m.s /\ r.episode = m.e /\ r.show \in {<<P("word")>>, <<P("number"), P("word")>>}
        sure == inquiry.form # "bare" \/ (m.s = 1 /\ At(m.tail, {"code"}) = 0)
    IN sure => /\ right(ParseTv(clean))
               /\ inquiry.form # "split" => right(ParseTv(raw))
               /\ LET c == Classified(clean, TRUE)
                  IN /\ inquiry.form # "code" => c.kind = "episode"
                     /\ At(clean, {"sxe"}) # 0 => c.season = m.s /\ c.episode = m.e

\* A film's title with one year is read alike by the site and, if the year
\* follows the name, by enrichmeta, before and after it is cleaned; a hosted
\* film is looked for by its own name and year, not its show's, and by both
\* under one name, as is one that calls itself a full movie.
FilmRead ==
  /\ inquiry.of = "title" =>
       LET ts == inquiry.parts  clean == CleanTitle(ts)
           years == {i \in DOMAIN ts : ts[i].k \in {"(year)", "[year]", "year"}}
           named == Without(ts, {"(year)", "[year]", "year", "scene", "ext"})
       IN (Cardinality(years) <= 1 /\ named # <<>>) =>
            /\ \A t \in {ts, clean} : SiteReads(t) = [name |-> named, dated |-> years # {}]
            /\ (\A y \in years, i \in DOMAIN ts : ts[i].k = "word" => i < y) => \A t \in {ts, clean} : ToolReads(t) = SiteReads(t)
  /\ inquiry.of \in {"hosted", "piped"} =>
       /\ SiteReads(inquiry.parts) = [name |-> <<P("word")>>, dated |-> inquiry.dated]
       /\ inquiry.of = "piped" => ToolReads(inquiry.parts).name = <<P("word")>>
       /\ (inquiry.of = "hosted" /\ At(inquiry.parts, {"sxe"}) = 0 /\ (inquiry.plain \/ At(inquiry.parts, {"riff"}) = 0)) =>
            ToolReads(inquiry.parts) = SiteReads(inquiry.parts)
       /\ inquiry.of = "hosted" => Classified(inquiry.parts, TRUE).kind = "hosted"

\* The episodes of one series get one show in a run, or all of them none.
OneSeries == \A a, b \in served : a.key = b.key => a.got = b.got

\* An episode is told of by its own season, the first also by the specials,
\* and both sources tell of one series where its number was to be had.
RightEpisode ==
  latest.show # None =>
    /\ latest.from \subseteq {latest.season} \cup (IF latest.season = 1 THEN {0} ELSE {})
    /\ latest.omdb \in {None, latest.show} \/ \E k \in DOMAIN shelf : shelf[k].show = latest.show /\ shelf[k].number # latest.show
=============================================================================
