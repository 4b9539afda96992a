-------------------------------- MODULE Rules --------------------------------
(***************************************************************************)
(* Rules without a state of their own, each held against what it is for,   *)
(* sample by sample: which streams a download tries in what order and what *)
(* tags it is given (ytpipe/downloader.py), how a result set is laid out   *)
(* and a list of links read (playlists/ordering.py, importer.py), and the  *)
(* timeline of MotdSchedule.                                               *)
(***************************************************************************)
EXTENDS MotdSchedule, Sequences

CONSTANTS
  Qualities,    \* the height cap of each tier, 0: none
  Heights,      \* of streams, 0: not told
  MaxStreams,   \* bound
  TagCap,       \* how many tags a video is given
  Spelled,      \* tags: [norm, text], text in lower case, norm without spaces and hyphens too
  Linked,       \* tokens of linked titles
  Tables        \* tables of MOTD schedules

ASSUME RulesAssumption ==
  /\ {TagCap, MaxStreams} \subseteq Nat /\ Qualities \cup Heights \subseteq Nat /\ "" \notin Linked
  /\ \A table \in Tables : Timetable(table)

VARIABLE sample   \* what is tried: nothing yet, or the input of one of the rules

ruleVars == <<sample>>

Nothing == [of |-> "nothing"]
UpTo(S, n) == UNION {[1 .. k -> S] : k \in 0 .. n}
-----------------------------------------------------------------------------
\* A stream: its place in yt-dlp's list, what it carries, height, bit rate.
Stream == [carries : {"av", "v", "a"}, height : Heights, rate : {0, 1}]
\* Each kind at most twice, so that a sort compares all there are.
Offers == {fs \in UpTo(Stream, MaxStreams) :
             \A k \in {"av", "v", "a"} : Cardinality({i \in DOMAIN fs : fs[i].carries = k}) <= 2}

\* Python compares (height, rate) and cannot compare what is not told with
\* what is.
Comparable(f, g) ==
  IF f.height # g.height THEN f.height # 0 /\ g.height # 0
  ELSE f.rate = g.rate \/ (f.rate # 0 /\ g.rate # 0)
Higher(f, g) == f.height > g.height \/ (f.height = g.height /\ f.rate > g.rate)

\* sort(key=..., reverse=...): the equal stay in order.
Arranged(S, before(_, _)) == CHOOSE s \in [1 .. Cardinality(S) -> S] : \A i, j \in DOMAIN s : i < j => before(s[i], s[j])
BestFirst(fs, S) == Arranged(S, LAMBDA i, j : Higher(fs[i], fs[j]) \/ (~Higher(fs[j], fs[i]) /\ i < j))
LeastFirst(fs, S) == Arranged(S, LAMBDA i, j : Higher(fs[j], fs[i]) \/ (~Higher(fs[i], fs[j]) /\ i < j))

Carrying(fs, k) == {i \in DOMAIN fs : fs[i].carries = k}

\* Mutant: over the cap is as good as within it.
Within_Any(fs, S, cap) == S
Within(fs, S, cap) == {i \in S : cap = 0 \/ fs[i].height <= cap}
Over(fs, S, cap) == S \ Within(fs, S, cap)
Sorted(fs, S) == \A i, j \in S : Comparable(fs[i], fs[j])

\* get_all_available_formats, its generic selectors as one, 0; a sort that fails
\* is caught, and "best" and "worst" are left.
Selectors(fs, cap) ==
  LET v == Carrying(fs, "v")  c == Carrying(fs, "av")
      apart == IF v = {} \/ Carrying(fs, "a") = {} THEN <<>>
               ELSE BestFirst(fs, Within(fs, v, cap)) \o LeastFirst(fs, Over(fs, v, cap)) \o <<0>>
      whole(S) == BestFirst(fs, Within(fs, S, cap)) \o BestFirst(fs, Over(fs, S, cap))
      tagged(s, how) == [k \in DOMAIN s |-> [how |-> how, of |-> s[k]]]
  IN IF fs = <<>> \/ \E S \in {v, c} : ~Sorted(fs, Within(fs, S, cap)) \/ ~Sorted(fs, Over(fs, S, cap))
     THEN <<[how |-> "any", of |-> 0], [how |-> "any", of |-> -1]>>
     ELSE tagged(apart, "pair") \o tagged(whole(c), "whole") \o tagged(whole(v), "whole") \o tagged(<<0>>, "any")

TakeStreams == sample = Nothing /\ \E fs \in Offers, q \in Qualities : sample' = [of |-> "streams", offer |-> fs, cap |-> q]
-----------------------------------------------------------------------------
\* What is left of a list, in its order: the members with these places.
Left(s, S) == LET order == Arranged(S, LAMBDA i, j : i < j) IN [k \in DOMAIN order |-> s[order[k]]]
UpToCap(s) == SubSeq(s, 1, IF Len(s) < TagCap THEN Len(s) ELSE TagCap)

\* Mutant: told apart by spelling.
Generated_Spelled(tags) == UpToCap(Left(tags, {i \in DOMAIN tags : \A j \in 1 .. i - 1 : tags[j] # tags[i]}))
\* generate_tags: one of each normal form, the first, and so many of them.
Generated(tags) == UpToCap(Left(tags, {i \in DOMAIN tags : \A j \in 1 .. i - 1 : tags[j].norm # tags[i].norm}))

\* find_matching_existing_tags and check_tags_availability: the latter takes
\* for missing what is not spelled like a match.
Matching(tags, there) == {e \in there : \E i \in DOMAIN tags : e.norm = tags[i].norm}
Missing(tags, there) == {tags[i] : i \in DOMAIN tags} \ Matching(tags, there)

\* MediaCMS has one tag of a normal form.
TakeTags ==
  /\ sample = Nothing
  /\ \E tags \in UpTo(Spelled, 4), there \in {S \in SUBSET Spelled : \A s, t \in S : s.norm = t.norm => s = t} :
       sample' = [of |-> "tags", tags |-> tags, there |-> there]
-----------------------------------------------------------------------------
\* Titles: a name, and a season and episode or none.
Title == [name : {1, 2}, season : {1, 2}, episode : {1, 2}] \cup [name : {1, 2}, season : {0}, episode : {0}]

\* Mutant: the episode alone counts.
SortKey_Episode(x, i) == <<x.name, 0, x.episode, i>>

\* episode_sort_key
SortKey(x, i) == <<x.name, x.season, x.episode, i>>
Less(a, b) == \E i \in 1 .. 4 : a[i] < b[i] /\ \A j \in 1 .. i - 1 : a[j] = b[j]
\* order_for_playlist: the places of the items in their new order.
Ordering(items) == Arranged(DOMAIN items, LAMBDA i, j : Less(SortKey(items[i], i), SortKey(items[j], j)))

TakeTitles == sample = Nothing /\ \E xs \in UpTo(Title, 3) : sample' = [of |-> "titles", items |-> xs]
-----------------------------------------------------------------------------
\* A line: a link to a title's page or manifest, cm:token, the bare token, a
\* YouTube link or id, anything else, or nothing.
Line == [form : {"link", "cm", "bare"}, token : Linked] \cup [form : {"blank", "tube", "tubelist", "other"}, token : {""}]
Manifest(t) == [of |-> t, as |-> "manifest"]
Built(t) == [of |-> t, as |-> "built"]
Raw(t) == [of |-> t, as |-> "token"]
Failed(l) == [of |-> l.form, as |-> "error"]

\* Mutant: the token is not looked up.
Colon_Built(t, known, based) == IF based THEN Built(t) ELSE Raw(t)

\* cm:token
Colon(t, known, based) == IF t \in known THEN Manifest(t) ELSE IF based THEN Built(t) ELSE Raw(t)

\* import_playlist_text: what a line becomes, and the lines that are not blank.
Entry(l, known, based) ==
  CASE l.form = "tube" -> Raw("tube")
    [] l.form = "cm" -> Colon(l.token, known, based)
    [] l.form \in {"link", "bare"} /\ l.token \in known -> Manifest(l.token)
    [] l.form = "link" /\ l.token \notin known /\ based -> Built(l.token)
    [] OTHER -> Failed(l)
Imported(lines, known, based) ==
  LET full == Left(lines, {i \in DOMAIN lines : lines[i].form # "blank"})
  IN [k \in DOMAIN full |-> Entry(full[k], known, based)]

TakeLines ==
  /\ sample = Nothing
  /\ \E ls \in UpTo(Line, 3), known \in SUBSET Linked, based \in BOOLEAN :
       sample' = [of |-> "lines", lines |-> ls, known |-> known, based |-> based]

TakeTable == sample = Nothing /\ \E t \in Tables : sample' = [of |-> "table", table |-> t]
-----------------------------------------------------------------------------
RulesType == sample.of \in {"nothing", "streams", "tags", "titles", "lines", "table"}
RulesInit == sample = Nothing
RulesNext == TakeStreams \/ TakeTags \/ TakeTitles \/ TakeLines \/ TakeTable
-----------------------------------------------------------------------------
\* A download tries every picture once in a kind of selector, none over the
\* cap before one of its kind within it, and of those the better first; as
\* long as yt-dlp tells heights and rates of all or of none.
CapFirst ==
  sample.of = "streams" =>
    LET fs == sample.offer  cap == sample.cap  tries == Selectors(fs, cap)
        real == {k \in DOMAIN tries : tries[k].of \in DOMAIN fs}
        kind(k) == <<tries[k].how, fs[tries[k].of].carries>>
        fits(k) == cap = 0 \/ fs[tries[k].of].height <= cap
    IN /\ \A k, l \in real : (k < l /\ kind(k) = kind(l)) =>
            /\ tries[k] # tries[l]
            /\ (fits(l) => fits(k) /\ ~Higher(fs[tries[l].of], fs[tries[k].of]))
       /\ (\A i, j \in DOMAIN fs : Comparable(fs[i], fs[j])) =>
            \A i \in DOMAIN fs : fs[i].carries # "a" =>
              \E k \in real : tries[k] = [how |-> "whole", of |-> i]

\* No two tags of a video are one to MediaCMS, the first spelling of the first
\* so many forms is what it gets; each is then matched by a tag of its form or
\* reported missing, and what is put on the video is there.
TagsAccounted ==
  sample.of = "tags" =>
    LET g == Generated(sample.tags)  m == Matching(g, sample.there)
        firsts == {i \in DOMAIN sample.tags : \A j \in 1 .. i - 1 : sample.tags[j].norm # sample.tags[i].norm}
        rank(i) == Cardinality({j \in firsts : j <= i})
    IN /\ \A i, j \in DOMAIN g : g[i].norm = g[j].norm => i = j
       /\ {g[i] : i \in DOMAIN g} = {sample.tags[i] : i \in {i \in firsts : rank(i) <= TagCap}}
       /\ m \subseteq sample.there
       /\ \A i \in DOMAIN g : g[i] \in Missing(g, sample.there) \/ \E e \in m : e.norm = g[i].norm

\* A result set saved as a playlist has all its items, each series in one
\* piece and in the order it is watched, and equals as they came.
WatchOrder ==
  sample.of = "titles" =>
    LET xs == sample.items  o == Ordering(xs)
        seen(i) == xs[o[i]]
    IN /\ Len(o) = Len(xs) /\ {o[i] : i \in DOMAIN o} = DOMAIN xs
       /\ \A i, j \in DOMAIN o : (i < j /\ seen(i).name = seen(j).name) =>
            /\ \A k \in i .. j : seen(k).name = seen(i).name
            /\ \/ seen(i).season < seen(j).season
               \/ seen(i).season = seen(j).season /\ seen(i).episode < seen(j).episode
               \/ seen(i) = seen(j) /\ o[i] < o[j]

\* However a title of the catalogue is written in a list, it becomes the same
\* item, and no line that is not blank is passed over.
SameMedia ==
  sample.of = "lines" =>
    LET got == Imported(sample.lines, sample.known, sample.based)
        ls == sample.lines
        full == {i \in DOMAIN ls : ls[i].form # "blank"}
        rank(i) == Cardinality({j \in full : j <= i})
    IN /\ Len(got) = Cardinality(full)
       /\ \A i, j \in full : (ls[i].token = ls[j].token /\ ls[i].token \in sample.known) => got[rank(i)] = got[rank(j)]

\* The timeline an admin is shown is what each instant gets.
TimelineAgrees == sample.of = "table" => TimelineTrue(sample.table, 1, 5)
=============================================================================
