---------------------------- MODULE CatalogueProofs ----------------------------
(***************************************************************************)
(* Theorems about what fills and keeps the catalogue: fetch ingest, the    *)
(* tools that write to MediaCMS, the mirror of it, the recorder of plays,  *)
(* the workbook job, the look-ups and the rules without a state, for any   *)
(* titles, films, shows, streams, URLs, pages and bounds.                  *)
(***************************************************************************)
EXTENDS MCCatalogue, RulesProofs

-----------------------------------------------------------------------------
(***************************************************************************)
(* Fetch ingest.  As long as a URL is in nobody's blind spot one run works *)
(* on it, and before that run has sent it there is no item of it (Once);   *)
(* what it sends has been checked, what cannot be read was never, and what *)
(* is reported stands (Sound); and a file belongs to a run that will take  *)
(* it away (Shelf).                                                        *)
(***************************************************************************)
FetchPlaces == {"idle", "check", "attempt", "validate", "upload", "recover", "clean", "details", "put", "next", "sweep"}
Fetches == [pc : FetchPlaces, kind : {"single", "list", "batch", "source"}, todo : Seq(Urls), item : Nat, tries : Nat,
            tokens : SUBSET [id : Nat, url : Urls]]
MediaItem == [id : Nat, url : Urls, readable : BOOLEAN, found : BOOLEAN, marked : BOOLEAN]

\* Of a run f: at a video u with nothing sent yet, at it at all, with its file
\* in hand, with a file to come.
Early(f, u) == f.pc \in {"attempt", "validate", "upload"} /\ Head(f.todo) = u
Working(f, u) == f.pc \in {"attempt", "validate", "upload", "recover", "clean"} /\ Head(f.todo) = u
Holding(f, u) == f.pc \in {"validate", "upload", "recover", "clean"} /\ Head(f.todo) = u
Loading(f, u) == f.pc = "attempt" /\ f.item = 1 /\ Head(f.todo) = u
Doubted == blind \cup unproved
Akin(u) == {v \in Urls : TitleOf[v] = TitleOf[u]}
Stands(t) ==
  Akin(t.url) \cap (unproved \cup blind) = {} => \E i \in items : i.id = t.id /\ TitleOf[i.url] = TitleOf[t.url] /\ i.readable

IngestShape ==
  /\ items \subseteq MediaItem /\ file \in [Urls -> {"none", "part", "good", "bad"}] /\ fetch \in [Runs -> Fetches]
  /\ count \in [runs : Nat, made : Nat] /\ count.made <= MaxItems
  /\ \A i \in items : 1 <= i.id /\ i.id <= count.made
  /\ \A i, j \in items : i.id = j.id => i = j
  /\ \A r \in Runs : fetch[r].pc \notin {"idle", "sweep"} => fetch[r].todo # <<>>

Once ==
  \A u \in Urls \ blind :
    /\ \A i, j \in items : i.url = u /\ j.url = u => i = j
    /\ \A r, s \in Runs : Working(fetch[r], u) /\ Working(fetch[s], u) => r = s
    /\ \A r \in Runs : Early(fetch[r], u) => \A i \in items : i.url # u

Sound ==
  /\ \A i \in items : ~i.readable => i.url \in Doubted
  /\ \A r \in Runs : fetch[r].pc = "upload" /\ Url(r) \notin Doubted => file[Url(r)] \in {"good", "none"}
  /\ \A r \in Runs : fetch[r].pc \in {"details", "put"} /\ Url(r) \notin Doubted =>
       \E i \in items : i.id = fetch[r].item /\ i.url = Url(r)
  /\ \A r \in Runs : \A t \in fetch[r].tokens : Stands(t)

Shelf ==
  \A u \in Urls \ litter :
    /\ file[u] \in {"good", "bad"} => \E r \in Runs : Holding(fetch[r], u)
    /\ file[u] = "part" => \E r \in Runs : Holding(fetch[r], u) \/ Loading(fetch[r], u)

IngestInv == IngestShape /\ Once /\ Sound /\ Shelf

LEMMA IngestInitially == DownloaderInit => IngestInv
<1>. SUFFICES ASSUME DownloaderInit PROVE IngestInv
  OBVIOUS
<1>1. NoFetch \in Fetches /\ NoFetch.pc = "idle" /\ NoFetch.tokens = {}
  BY DEF NoFetch, Fetches, FetchPlaces
<1>2. \A r \in Runs : fetch[r] = NoFetch
  BY DEF DownloaderInit
<1>3. IngestShape
  BY <1>1, <1>2, DownloaderAssumption DEF DownloaderInit, IngestShape
<1>4. Once /\ Sound /\ Shelf
  BY <1>1, <1>2 DEF DownloaderInit, Once, Sound, Shelf, Early, Working
<1>. QED  BY <1>3, <1>4 DEF IngestInv

\* The URL a run is at.
LEMMA UrlType ==
  ASSUME IngestShape, NEW r \in Runs, fetch[r].pc \notin {"idle", "sweep"}
  PROVE  Url(r) \in Urls /\ fetch[r] \in Fetches /\ fetch[r].todo \in Seq(Urls) /\ fetch[r].todo # <<>>
<1>1. fetch[r] \in Fetches
  BY DEF IngestShape
<1>2. fetch[r].todo \in Seq(Urls) /\ fetch[r].todo # <<>>
  BY <1>1 DEF IngestShape, Fetches
<1>. QED  BY <1>1, <1>2 DEF Url

\* A step of one run that takes up no video and touches no file.
LEMMA RunMoves ==
  ASSUME IngestInv, NEW r \in Runs, NEW e \in Fetches, fetch' = [fetch EXCEPT ![r] = e],
         UNCHANGED <<items, file, litter>>, blind \subseteq blind', unproved \subseteq unproved',
         count' \in [runs : Nat, made : Nat], count'.made = count.made,
         e.pc \notin {"idle", "sweep"} => e.todo # <<>>,
         \A u \in Urls : (Early(e, u) => Early(fetch[r], u)) /\ (Working(e, u) => Working(fetch[r], u)),
         \A u \in Urls : (Holding(fetch[r], u) => Holding(e, u)) /\ ~Loading(fetch[r], u),
         e.pc = "upload" /\ Head(e.todo) \notin Doubted' => file[Head(e.todo)] \in {"good", "none"},
         e.pc \in {"details", "put"} /\ Head(e.todo) \notin Doubted' =>
            \E i \in items : i.id = e.item /\ i.url = Head(e.todo),
         \A t \in e.tokens : t \in fetch[r].tokens \/ Stands(t)
  PROVE  IngestInv'
<1>. USE DEF IngestInv
<1>1. fetch' \in [Runs -> Fetches] /\ fetch'[r] = e /\ \A s \in Runs \ {r} : fetch'[s] = fetch[s]
  BY DEF IngestShape
<1>2. IngestShape'
  BY <1>1 DEF IngestShape
<1>3. Once'
  <2>. SUFFICES ASSUME NEW u \in Urls, u \notin blind'
               PROVE  (/\ \A i, j \in items : i.url = u /\ j.url = u => i = j
                       /\ \A p, s \in Runs : Working(fetch[p], u) /\ Working(fetch[s], u) => p = s
                       /\ \A s \in Runs : Early(fetch[s], u) => \A i \in items : i.url # u)'
    BY DEF Once
  <2>1. u \in Urls \ blind
    OBVIOUS
  <2>2. \A s \in Runs : (Working(fetch'[s], u) => Working(fetch[s], u)) /\ (Early(fetch'[s], u) => Early(fetch[s], u))
    BY <1>1
  <2>. QED  BY <2>1, <2>2 DEF Once
<1>4. Doubted \subseteq Doubted'
  BY DEF Doubted
<1>5. Sound'
  <2>1. (\A i \in items : ~i.readable => i.url \in Doubted)'
    BY <1>4 DEF Sound
  <2>2. \A s \in Runs : fetch'[s].pc = "upload" /\ Head(fetch'[s].todo) \notin Doubted' =>
           file'[Head(fetch'[s].todo)] \in {"good", "none"}
    BY <1>1, <1>4 DEF Sound, Url
  <2>3. \A s \in Runs : fetch'[s].pc \in {"details", "put"} /\ Head(fetch'[s].todo) \notin Doubted' =>
           \E i \in items' : i.id = fetch'[s].item /\ i.url = Head(fetch'[s].todo)
    BY <1>1, <1>4 DEF Sound, Url
  <2>4. \A t : Stands(t) => Stands(t)'
    BY DEF Stands
  <2>5. \A s \in Runs : \A t \in fetch'[s].tokens : Stands(t)
    BY <1>1 DEF Sound
  <2>. QED  BY <2>1, <2>2, <2>3, <2>4, <2>5 DEF Sound, Url
<1>6. Shelf'
  <2>1. \A s \in Runs, u \in Urls : (Holding(fetch[s], u) => Holding(fetch'[s], u)) /\ (Loading(fetch[s], u) => Loading(fetch'[s], u))
    BY <1>1
  <2>. QED  BY <2>1 DEF Shelf
<1>. QED  BY <1>2, <1>3, <1>5, <1>6

\* What a run's step leaves of it where only its place changes.
LEMMA FetchGotoType ==
  ASSUME IngestShape, NEW r \in Runs, NEW pc \in FetchPlaces, FetchGoto(r, pc)
  PROVE  \E e \in Fetches : /\ fetch' = [fetch EXCEPT ![r] = e] /\ e.pc = pc /\ e.todo = fetch[r].todo
                            /\ e.item = fetch[r].item /\ e.tokens = fetch[r].tokens
<1>1. fetch[r] \in Fetches
  BY DEF IngestShape
<1>. DEFINE e == [fetch[r] EXCEPT !.pc = pc]
<1>2. e \in Fetches /\ e.pc = pc /\ e.todo = fetch[r].todo /\ e.item = fetch[r].item /\ e.tokens = fetch[r].tokens
  BY <1>1 DEF Fetches
<1>3. fetch' = [fetch EXCEPT ![r] = e]
  BY DEF FetchGoto
<1>. QED  BY <1>2, <1>3

LEMMA BeginStep ==
  ASSUME IngestInv, NEW r \in Runs, StartRun(r) \/ StartBatch(r) \/ StartSource(r)
  PROVE  IngestInv'
<1>. USE DEF IngestInv
<1>1. fetch[r].pc = "idle" /\ UNCHANGED <<items, file, blind, unproved, litter>>
      /\ count' = [count EXCEPT !.runs = @ + 1]
  BY DEF StartRun, StartBatch, StartSource, RunAt
<1>2. count' \in [runs : Nat, made : Nat] /\ count'.made = count.made
  BY <1>1 DEF IngestShape
<1>3. \A u \in Urls : ~Working(fetch[r], u) /\ ~Holding(fetch[r], u) /\ ~Loading(fetch[r], u)
  BY <1>1 DEF Working, Holding, Loading
<1>4. CASE StartRun(r) \/ StartBatch(r)
  <2>1. PICK p \in Plans \cup Batches, kind \in {"single", "list", "batch"} :
          fetch' = [fetch EXCEPT ![r] = [NoFetch EXCEPT !.pc = "check", !.kind = kind, !.todo = p]]
    BY <1>4 DEF StartRun, StartBatch
  <2>. DEFINE e == [NoFetch EXCEPT !.pc = "check", !.kind = kind, !.todo = p]
  <2>2. p \in Seq(Urls) /\ p # <<>>
    BY DownloaderAssumption
  <2>3. e \in Fetches /\ e.pc = "check" /\ e.todo = p /\ e.tokens = {}
    BY <2>2 DEF NoFetch, Fetches, FetchPlaces
  <2>4. \A u \in Urls : ~Early(e, u) /\ ~Working(e, u)
    BY <2>3 DEF Early, Working
  <2>5. fetch' = [fetch EXCEPT ![r] = e]
    BY <2>1
  <2>. HIDE DEF e
  <2>. QED  BY <1>1, <1>2, <1>3, <2>2, <2>3, <2>4, <2>5, RunMoves
<1>5. CASE StartSource(r)
  <2>1. PICK i \in items :
          fetch' = [fetch EXCEPT ![r] = [NoFetch EXCEPT !.pc = "details", !.kind = "source", !.todo = <<i.url>>, !.item = i.id]]
    BY <1>5 DEF StartSource, FromSource
  <2>. DEFINE e == [NoFetch EXCEPT !.pc = "details", !.kind = "source", !.todo = <<i.url>>, !.item = i.id]
  <2>2. i.url \in Urls /\ i.id \in Nat /\ <<i.url>> \in Seq(Urls)
    BY DEF IngestShape, MediaItem
  <2>3. e \in Fetches /\ e.pc = "details" /\ e.todo = <<i.url>> /\ e.item = i.id /\ e.tokens = {}
    BY <2>2 DEF NoFetch, Fetches, FetchPlaces
  <2>4. \A u \in Urls : ~Early(e, u) /\ ~Working(e, u)
    BY <2>3 DEF Early, Working
  <2>5. fetch' = [fetch EXCEPT ![r] = e] /\ Head(e.todo) = i.url /\ e.todo # <<>>
    BY <2>1, <2>3
  <2>. HIDE DEF e
  <2>. QED  BY <1>1, <1>2, <1>3, <2>3, <2>4, <2>5, RunMoves
<1>. QED  BY <1>4, <1>5

LEMMA CheckFoundStep ==
  ASSUME IngestInv, NEW r \in Runs, CheckFound(r)
  PROVE  IngestInv'
<1>. USE DEF IngestInv
<1>1. PICK i \in KnownUrl(Url(r)) : fetch' = [fetch EXCEPT ![r].pc = "details", ![r].item = i.id]
  BY DEF CheckFound
<1>2. fetch[r].pc = "check" /\ UNCHANGED <<items, file, count, blind, unproved, litter>> /\ i \in items /\ i.url = Url(r) /\ i.id \in Nat
  BY DEF CheckFound, RunAt, KnownUrl, ItemsOf, IngestShape, MediaItem
<1>. DEFINE e == [[fetch[r] EXCEPT !.pc = "details"] EXCEPT !.item = i.id]
<1>3. fetch[r] \in Fetches /\ fetch[r].todo # <<>>
  BY <1>2, UrlType
<1>4. e \in Fetches /\ e.pc = "details" /\ e.todo = fetch[r].todo /\ e.item = i.id /\ e.tokens = fetch[r].tokens
  BY <1>2, <1>3 DEF Fetches, FetchPlaces
<1>5. fetch' = [fetch EXCEPT ![r] = e]
  BY <1>1, <1>3 DEF IngestShape, Fetches
<1>6. \A u \in Urls : ~Early(e, u) /\ ~Working(e, u) /\ ~Holding(fetch[r], u) /\ ~Loading(fetch[r], u)
  BY <1>2, <1>4 DEF Early, Working, Holding, Loading
<1>7. count' \in [runs : Nat, made : Nat] /\ count'.made = count.made
  BY <1>2 DEF IngestShape
<1>8. Head(e.todo) = i.url /\ e.todo # <<>>
  BY <1>2, <1>3, <1>4 DEF Url
<1>. HIDE DEF e
<1>. QED  BY <1>2, <1>4, <1>5, <1>6, <1>7, <1>8, RunMoves

\* Onward with the same video, or done with it.
LEMMA PlaceStep ==
  ASSUME IngestInv, NEW r \in Runs, GiveUp(r) \/ Validate(r) \/ Refused(r)
  PROVE  IngestInv'
<1>. USE DEF IngestInv
<1>1. UNCHANGED <<items, file, count, blind, litter>> /\ unproved \subseteq unproved'
  BY DEF GiveUp, Validate, Refused
<1>2. PICK pc \in FetchPlaces :
        /\ FetchGoto(r, pc)
        /\ \/ fetch[r].pc = "attempt" /\ fetch[r].item = 0 /\ pc = "next"
           \/ fetch[r].pc = "validate" /\ pc = "clean"
           \/ fetch[r].pc = "validate" /\ pc = "upload" /\ (file[Url(r)] = "good" \/ Url(r) \in unproved')
           \/ fetch[r].pc = "upload" /\ pc = "clean"
  BY DEF GiveUp, Validate, Refused, RunAt, FetchPlaces
<1>3. PICK e \in Fetches : /\ fetch' = [fetch EXCEPT ![r] = e] /\ e.pc = pc /\ e.todo = fetch[r].todo
                           /\ e.item = fetch[r].item /\ e.tokens = fetch[r].tokens
  BY <1>2, FetchGotoType
<1>4. Url(r) = Head(fetch[r].todo) /\ fetch[r].todo # <<>>
  BY <1>2, UrlType DEF Url
<1>5. \A u \in Urls : (Early(e, u) => Early(fetch[r], u)) /\ (Working(e, u) => Working(fetch[r], u))
  BY <1>2, <1>3 DEF Early, Working
<1>6. \A u \in Urls : (Holding(fetch[r], u) => Holding(e, u)) /\ ~Loading(fetch[r], u)
  BY <1>2, <1>3 DEF Holding, Loading
<1>7. e.pc = "upload" /\ Head(e.todo) \notin Doubted' => file[Head(e.todo)] \in {"good", "none"}
  BY <1>2, <1>3, <1>4 DEF Doubted
<1>8. count' \in [runs : Nat, made : Nat] /\ count'.made = count.made
  BY <1>1 DEF IngestShape
<1>. QED  BY <1>1, <1>2, <1>3, <1>4, <1>5, <1>6, <1>7, <1>8, RunMoves

LEMMA RecoverStep ==
  ASSUME IngestInv, NEW r \in Runs, Recover(r)
  PROVE  IngestInv'
<1>. USE DEF IngestInv
<1>1. fetch[r].pc = "recover" /\ UNCHANGED <<items, file, count, blind, unproved, litter>>
  BY DEF Recover, RunAt
<1>2. fetch[r] \in Fetches /\ fetch[r].todo # <<>> /\ Url(r) \in Urls /\ Url(r) = Head(fetch[r].todo)
  BY <1>1, UrlType DEF Url
<1>3. PICK more \in SUBSET [id : Nat, url : Urls] :
        /\ fetch' = [fetch EXCEPT ![r] = [[fetch[r] EXCEPT !.pc = "clean"] EXCEPT !.tokens = @ \cup more]]
        /\ \A t \in more : Stands(t)
  <2>1. CASE FetchGoto(r, "clean")
    <3>1. [[fetch[r] EXCEPT !.pc = "clean"] EXCEPT !.tokens = @ \cup {}] = [fetch[r] EXCEPT !.pc = "clean"]
      BY <1>2 DEF Fetches
    <3>2. fetch' = [fetch EXCEPT ![r] = [[fetch[r] EXCEPT !.pc = "clean"] EXCEPT !.tokens = @ \cup {}]]
      BY <2>1, <3>1 DEF FetchGoto
    <3>3. {} \in SUBSET [id : Nat, url : Urls] /\ \A t \in {} : Stands(t)
      OBVIOUS
    <3>. QED  BY <3>2, <3>3
  <2>2. ASSUME NEW i \in KnownUrl(Url(r)) \cup Titled(Url(r)), Token(r, i.id)
        PROVE  \E more \in SUBSET [id : Nat, url : Urls] :
                 /\ fetch' = [fetch EXCEPT ![r] = [[fetch[r] EXCEPT !.pc = "clean"] EXCEPT !.tokens = @ \cup more]]
                 /\ \A t \in more : Stands(t)
    <3>. DEFINE t == [id |-> i.id, url |-> Url(r)]
    <3>1. i \in items /\ TitleOf[i.url] = TitleOf[Url(r)] /\ i \in MediaItem
      BY <2>2 DEF KnownUrl, Titled, ItemsOf, IngestShape
    <3>2. t \in [id : Nat, url : Urls] /\ t.id = i.id /\ t.url = Url(r)
      BY <1>2, <3>1 DEF MediaItem
    <3>3. Stands(t)
      <4>. SUFFICES ASSUME Akin(t.url) \cap (unproved \cup blind) = {}
                   PROVE  \E j \in items : j.id = t.id /\ TitleOf[j.url] = TitleOf[t.url] /\ j.readable
        BY DEF Stands
      <4>1. i.url \in Akin(t.url)
        BY <3>1, <3>2 DEF Akin, MediaItem
      <4>2. i.readable
        BY <3>1, <4>1 DEF Sound, Doubted
      <4>. QED  BY <3>1, <3>2, <4>2
    <3>4. fetch' = [fetch EXCEPT ![r] = [[fetch[r] EXCEPT !.pc = "clean"] EXCEPT !.tokens = @ \cup {t}]]
      BY <1>2, <2>2 DEF Token, IngestShape, Fetches
    <3>. HIDE DEF t
    <3>5. {t} \in SUBSET [id : Nat, url : Urls] /\ \A x \in {t} : Stands(x)
      BY <3>2, <3>3
    <3>. QED  BY <3>4, <3>5
  <2>. QED  BY <2>1, <2>2 DEF Recover
<1>. DEFINE e == [[fetch[r] EXCEPT !.pc = "clean"] EXCEPT !.tokens = @ \cup more]
<1>4. e \in Fetches /\ e.pc = "clean" /\ e.todo = fetch[r].todo /\ e.item = fetch[r].item /\ e.tokens = fetch[r].tokens \cup more
  BY <1>2 DEF Fetches, FetchPlaces
<1>5. fetch' = [fetch EXCEPT ![r] = e]
  BY <1>3
<1>. HIDE DEF e
<1>6. \A u \in Urls : (Early(e, u) => Early(fetch[r], u)) /\ (Working(e, u) => Working(fetch[r], u))
  BY <1>1, <1>4 DEF Early, Working
<1>7. \A u \in Urls : (Holding(fetch[r], u) => Holding(e, u)) /\ ~Loading(fetch[r], u)
  BY <1>1, <1>4 DEF Holding, Loading
<1>8. count' \in [runs : Nat, made : Nat] /\ count'.made = count.made
  BY <1>1 DEF IngestShape
<1>9. \A t \in e.tokens : t \in fetch[r].tokens \/ Stands(t)
  BY <1>3, <1>4
<1>. QED  BY <1>1, <1>2, <1>4, <1>5, <1>6, <1>7, <1>8, <1>9, RunMoves

\* The tokens of an entry that was found.
LEMMA NamedStands ==
  ASSUME IngestInv, NEW r \in Runs, fetch[r].pc \in {"details", "put"}
  PROVE  Named(r) \subseteq [id : Nat, url : Urls] /\ \A t \in Named(r) : Stands(t)
<1>. USE DEF IngestInv
<1>1. fetch[r] \in Fetches /\ Url(r) \in Urls
  BY UrlType
<1>. DEFINE t == [id |-> fetch[r].item, url |-> Url(r)]
<1>2. t \in [id : Nat, url : Urls] /\ t.id = fetch[r].item /\ t.url = Url(r) /\ Named(r) = {t}
  BY <1>1 DEF Fetches, Named
<1>. HIDE DEF t
<1>3. Stands(t)
  <2>. SUFFICES ASSUME Akin(t.url) \cap (unproved \cup blind) = {}
               PROVE  \E j \in items : j.id = t.id /\ TitleOf[j.url] = TitleOf[t.url] /\ j.readable
    BY DEF Stands
  <2>1. Url(r) \notin Doubted
    BY <1>1, <1>2 DEF Akin, Doubted
  <2>2. PICK i \in items : i.id = fetch[r].item /\ i.url = Url(r)
    BY <2>1 DEF Sound
  <2>. QED  BY <1>2, <2>1, <2>2 DEF Sound
<1>. QED  BY <1>2, <1>3

LEMMA DetailsStep ==
  ASSUME IngestInv, NEW r \in Runs, Details(r)
  PROVE  IngestInv'
<1>. USE DEF IngestInv
<1>1. fetch[r].pc = "details" /\ UNCHANGED <<items, file, count, blind, unproved, litter>>
  BY DEF Details, RunAt
<1>2. fetch[r] \in Fetches /\ fetch[r].todo # <<>> /\ Url(r) \in Urls /\ Url(r) = Head(fetch[r].todo)
  BY <1>1, UrlType DEF Url
<1>3. PICK e \in Fetches : /\ fetch' = [fetch EXCEPT ![r] = e] /\ e.pc \in {"put", "next"} /\ e.todo = fetch[r].todo
                           /\ e.item = fetch[r].item /\ e.tokens \in {fetch[r].tokens, fetch[r].tokens \cup Named(r)}
  <2>1. CASE FetchGoto(r, "put")
    BY <2>1, FetchGotoType DEF FetchPlaces
  <2>2. CASE ~FetchGoto(r, "put")
    <3>. DEFINE more == IF fetch[r].kind \in {"single", "batch"} THEN Named(r) ELSE {}
                e == [[fetch[r] EXCEPT !.pc = "next"] EXCEPT !.tokens = @ \cup more]
    <3>1. more \subseteq [id : Nat, url : Urls]
      BY <1>1, NamedStands
    <3>. HIDE DEF more
    <3>2. e \in Fetches /\ e.pc = "next" /\ e.todo = fetch[r].todo /\ e.item = fetch[r].item /\ e.tokens = fetch[r].tokens \cup more
      BY <1>2, <3>1 DEF Fetches, FetchPlaces
    <3>3. fetch' = [fetch EXCEPT ![r] = e]
      BY <1>2, <2>2 DEF Details, more, IngestShape, Fetches
    <3>4. more \in {{}, Named(r)}
      BY DEF more
    <3>. QED  BY <3>2, <3>3, <3>4
  <2>. QED  BY <2>1, <2>2
<1>4. \A u \in Urls : ~Early(e, u) /\ ~Working(e, u) /\ ~Holding(fetch[r], u) /\ ~Loading(fetch[r], u)
  BY <1>1, <1>3 DEF Early, Working, Holding, Loading
<1>5. e.pc \in {"details", "put"} /\ Head(e.todo) \notin Doubted' => \E i \in items : i.id = e.item /\ i.url = Head(e.todo)
  BY <1>1, <1>2, <1>3 DEF Sound, Doubted
<1>6. count' \in [runs : Nat, made : Nat] /\ count'.made = count.made
  BY <1>1 DEF IngestShape
<1>7. \A t \in e.tokens : t \in fetch[r].tokens \/ Stands(t)
  BY <1>1, <1>3, NamedStands
<1>. QED  BY <1>1, <1>2, <1>3, <1>4, <1>5, <1>6, <1>7, RunMoves

LEMMA NextVideoStep ==
  ASSUME IngestInv, NEW r \in Runs, NextVideo(r)
  PROVE  IngestInv'
<1>. USE DEF IngestInv
<1>1. fetch[r].pc = "next" /\ UNCHANGED <<items, file, count, blind, unproved, litter>>
  BY DEF NextVideo, RunAt
<1>2. fetch[r] \in Fetches /\ fetch[r].todo \in Seq(Urls) /\ fetch[r].todo # <<>>
  BY <1>1, UrlType
<1>3. PICK e \in Fetches : /\ fetch' = [fetch EXCEPT ![r] = e] /\ e.pc \in {"check", "sweep", "idle"} /\ e.tokens = fetch[r].tokens
                           /\ e.pc = "check" => e.todo # <<>>
  <2>1. CASE Len(fetch[r].todo) > 1
    <3>. DEFINE rest == Tail(fetch[r].todo)
                e == [[[fetch[r] EXCEPT !.pc = "check"] EXCEPT !.todo = rest] EXCEPT !.item = 0]
    <3>1. rest \in Seq(Urls) /\ Len(rest) = Len(fetch[r].todo) - 1
      BY <1>2, HeadTailProperties
    <3>. HIDE DEF rest
    <3>2. rest # <<>>
      BY <1>2, <2>1, <3>1
    <3>3. e \in Fetches /\ e.pc = "check" /\ e.todo = rest /\ e.tokens = fetch[r].tokens
      BY <1>2, <3>1 DEF Fetches, FetchPlaces
    <3>4. fetch' = [fetch EXCEPT ![r] = [fetch[r] EXCEPT !.pc = "check", !.todo = rest, !.item = 0]]
      BY <1>2, <2>1 DEF NextVideo, rest
    <3>5. e = [fetch[r] EXCEPT !.pc = "check", !.todo = rest, !.item = 0]
      BY <1>2 DEF Fetches
    <3>. QED  BY <3>2, <3>3, <3>4, <3>5
  <2>2. CASE ~(Len(fetch[r].todo) > 1)
    <3>. DEFINE pc == IF fetch[r].kind \in {"list", "batch"} THEN "sweep" ELSE "idle"
                e == [[fetch[r] EXCEPT !.pc = pc] EXCEPT !.todo = <<>>]
    <3>1. pc \in {"sweep", "idle"}
      OBVIOUS
    <3>2. fetch' = [fetch EXCEPT ![r] = e]
      BY <1>2, <2>2 DEF NextVideo, IngestShape, Fetches
    <3>. HIDE DEF pc
    <3>3. e \in Fetches /\ e.pc = pc /\ e.tokens = fetch[r].tokens
      <4>1. <<>> \in Seq(Urls) /\ pc \in FetchPlaces
        BY <3>1 DEF FetchPlaces
      <4>. QED  BY <1>2, <4>1 DEF Fetches
    <3>. QED  BY <3>1, <3>2, <3>3
  <2>. QED  BY <2>1, <2>2
<1>4. \A u \in Urls : ~Early(e, u) /\ ~Working(e, u) /\ ~Holding(fetch[r], u) /\ ~Loading(fetch[r], u)
  BY <1>1, <1>3 DEF Early, Working, Holding, Loading
<1>5. count' \in [runs : Nat, made : Nat] /\ count'.made = count.made
  BY <1>1 DEF IngestShape
<1>. QED  BY <1>1, <1>3, <1>4, <1>5, RunMoves

\* A video is taken up: if anything of it is there or somebody is at it, that
\* is a blind spot from now on.
LEMMA CheckNoneStep ==
  ASSUME IngestInv, NEW r \in Runs, CheckNone(r)
  PROVE  IngestInv'
<1>. USE DEF IngestInv
<1>. DEFINE v == Url(r)
            e == [[fetch[r] EXCEPT !.pc = "attempt"] EXCEPT !.tries = 0]
<1>1. fetch[r].pc = "check" /\ UNCHANGED <<items, file, count, unproved, litter>>
      /\ blind' = IF ItemsOf(v) # {} \/ UrlBusy(v) # {} THEN blind \cup {v} ELSE blind
  BY DEF CheckNone, RunAt
<1>2. fetch[r] \in Fetches /\ v \in Urls /\ v = Head(fetch[r].todo) /\ fetch[r].todo # <<>>
  BY <1>1, UrlType DEF Url
<1>. HIDE DEF v
<1>3. e \in Fetches /\ e.pc = "attempt" /\ e.todo = fetch[r].todo /\ e.item = fetch[r].item /\ e.tokens = fetch[r].tokens
  BY <1>2 DEF Fetches, FetchPlaces
<1>4. fetch' = [fetch EXCEPT ![r] = e]
  BY <1>2 DEF CheckNone, IngestShape, Fetches
<1>. HIDE DEF e
<1>5. fetch' \in [Runs -> Fetches] /\ fetch'[r] = e /\ \A s \in Runs \ {r} : fetch'[s] = fetch[s]
  BY <1>3, <1>4 DEF IngestShape
<1>6. IngestShape'
  BY <1>1, <1>2, <1>3, <1>5 DEF IngestShape
<1>7. v \notin blind' => (\A i \in items : i.url # v) /\ \A s \in Runs \ {r} : ~Working(fetch[s], v)
  <2>. SUFFICES ASSUME v \notin blind' PROVE (\A i \in items : i.url # v) /\ \A s \in Runs \ {r} : ~Working(fetch[s], v)
    OBVIOUS
  <2>1. ItemsOf(v) = {} /\ UrlBusy(v) = {}
    BY <1>1
  <2>2. \A s \in Runs : Working(fetch[s], v) => s \in UrlBusy(v)
    BY DEF Working, UrlBusy, Url, IngestShape
  <2>. QED  BY <2>1, <2>2 DEF ItemsOf
<1>8. blind \subseteq blind'
  BY <1>1
<1>9. Once'
  <2>. SUFFICES ASSUME NEW u \in Urls, u \notin blind'
               PROVE  (/\ \A i, j \in items : i.url = u /\ j.url = u => i = j
                       /\ \A p, s \in Runs : Working(fetch[p], u) /\ Working(fetch[s], u) => p = s
                       /\ \A s \in Runs : Early(fetch[s], u) => \A i \in items : i.url # u)'
    BY DEF Once
  <2>1. u \in Urls \ blind
    BY <1>8
  <2>2. CASE u = v
    <3>1. \A s \in Runs : Working(fetch'[s], u) \/ Early(fetch'[s], u) => s = r
      BY <1>5, <1>7, <2>2 DEF Early, Working
    <3>. QED  BY <1>1, <1>7, <2>2, <3>1
  <2>3. CASE u # v
    <3>1. ~Working(e, u) /\ ~Early(e, u)
      BY <1>2, <1>3, <2>3 DEF Working, Early
    <3>2. \A s \in Runs : (Working(fetch'[s], u) => Working(fetch[s], u)) /\ (Early(fetch'[s], u) => Early(fetch[s], u))
      BY <1>5, <3>1
    <3>. QED  BY <1>1, <2>1, <3>2 DEF Once
  <2>. QED  BY <2>2, <2>3
<1>10. Doubted \subseteq Doubted'
  BY <1>1, <1>8 DEF Doubted
<1>11. Sound'
  <2>1. (\A i \in items : ~i.readable => i.url \in Doubted)'
    BY <1>1, <1>10 DEF Sound
  <2>2. \A s \in Runs : fetch'[s].pc = "upload" /\ Head(fetch'[s].todo) \notin Doubted' =>
           file'[Head(fetch'[s].todo)] \in {"good", "none"}
    BY <1>1, <1>3, <1>5, <1>10 DEF Sound, Url
  <2>3. \A s \in Runs : fetch'[s].pc \in {"details", "put"} /\ Head(fetch'[s].todo) \notin Doubted' =>
           \E i \in items' : i.id = fetch'[s].item /\ i.url = Head(fetch'[s].todo)
    BY <1>1, <1>3, <1>5, <1>10 DEF Sound, Url
  <2>4. \A t : Stands(t) => Stands(t)'
    BY <1>1, <1>8 DEF Stands
  <2>5. \A s \in Runs : \A t \in fetch'[s].tokens : Stands(t)
    BY <1>3, <1>5 DEF Sound
  <2>. QED  BY <2>1, <2>2, <2>3, <2>4, <2>5 DEF Sound, Url
<1>12. Shelf'
  <2>1. \A u \in Urls : ~Holding(fetch[r], u) /\ ~Loading(fetch[r], u)
    BY <1>1 DEF Holding, Loading
  <2>2. \A s \in Runs, u \in Urls : (Holding(fetch[s], u) => Holding(fetch'[s], u)) /\ (Loading(fetch[s], u) => Loading(fetch'[s], u))
    BY <1>5, <2>1
  <2>. QED  BY <1>1, <2>2 DEF Shelf
<1>. QED  BY <1>6, <1>9, <1>11, <1>12

\* A step of one run at a video's file, with nothing sent and nothing taken up.
LEMMA FileStep ==
  ASSUME IngestInv, NEW r \in Runs, NEW e \in Fetches, fetch' = [fetch EXCEPT ![r] = e], NEW v \in Urls, Working(fetch[r], v),
         NEW f \in {"none", "part", "good", "bad"}, file' = [file EXCEPT ![v] = f],
         UNCHANGED <<items, count, blind, unproved, litter>>,
         e.pc \in {"attempt", "validate", "next"}, e.todo = fetch[r].todo, e.tokens = fetch[r].tokens,
         e.pc \in {"attempt", "validate"} => fetch[r].pc = "attempt",
         v \notin litter => /\ f \in {"good", "bad"} => Holding(e, v) \/ \E s \in Runs \ {r} : Holding(fetch[s], v)
                            /\ f = "part" => Loading(e, v) \/ \E s \in Runs \ {r} : Holding(fetch[s], v) \/ Loading(fetch[s], v)
  PROVE  IngestInv'
<1>. USE DEF IngestInv
<1>1. fetch' \in [Runs -> Fetches] /\ fetch'[r] = e /\ \A s \in Runs \ {r} : fetch'[s] = fetch[s]
  BY DEF IngestShape
<1>2. file' \in [Urls -> {"none", "part", "good", "bad"}] /\ file'[v] = f /\ \A u \in Urls \ {v} : file'[u] = file[u]
  BY DEF IngestShape
<1>3. fetch[r].todo # <<>>
  BY DEF IngestShape, Working
<1>4. IngestShape'
  BY <1>1, <1>2, <1>3 DEF IngestShape
<1>5. \A s \in Runs, u \in Urls : (Working(fetch'[s], u) => Working(fetch[s], u)) /\ (Early(fetch'[s], u) => Early(fetch[s], u))
  BY <1>1 DEF Working, Early
<1>6. Once'
  BY <1>5 DEF Once
<1>7. Sound'
  <2>1. (\A i \in items : ~i.readable => i.url \in Doubted)'
    BY DEF Sound, Doubted
  <2>2. ASSUME NEW s \in Runs, fetch'[s].pc = "upload", Head(fetch'[s].todo) \notin Doubted'
        PROVE  file'[Head(fetch'[s].todo)] \in {"good", "none"}
    <3>1. s # r /\ fetch'[s] = fetch[s]
      BY <1>1, <2>2
    <3>2. Url(s) \in Urls /\ Url(s) = Head(fetch[s].todo) /\ Url(s) \notin Doubted
      BY <2>2, <3>1, UrlType DEF Url, Doubted
    <3>3. Working(fetch[s], Url(s))
      BY <2>2, <3>1, <3>2 DEF Working
    <3>4. Url(s) # v
      BY <3>1, <3>2, <3>3 DEF Once, Doubted
    <3>. QED  BY <1>2, <2>2, <3>1, <3>2, <3>4 DEF Sound
  <2>3. \A s \in Runs : fetch'[s].pc \in {"details", "put"} /\ Head(fetch'[s].todo) \notin Doubted' =>
           \E i \in items' : i.id = fetch'[s].item /\ i.url = Head(fetch'[s].todo)
    BY <1>1 DEF Sound, Url, Doubted
  <2>4. \A t : Stands(t) => Stands(t)'
    BY DEF Stands
  <2>5. \A s \in Runs : \A t \in fetch'[s].tokens : Stands(t)
    BY <1>1 DEF Sound
  <2>. QED  BY <2>1, <2>2, <2>3, <2>4, <2>5 DEF Sound, Url
<1>8. Shelf'
  <2>. SUFFICES ASSUME NEW u \in Urls \ litter
               PROVE  (/\ file[u] \in {"good", "bad"} => \E s \in Runs : Holding(fetch[s], u)
                       /\ file[u] = "part" => \E s \in Runs : Holding(fetch[s], u) \/ Loading(fetch[s], u))'
    BY DEF Shelf
  <2>1. CASE u = v
    BY <1>1, <1>2, <2>1
  <2>2. CASE u # v
    <3>1. ~Holding(fetch[r], u) /\ ~Loading(fetch[r], u)
      BY <2>2 DEF Holding, Loading, Working
    <3>. QED  BY <1>1, <1>2, <2>2, <3>1 DEF Shelf
  <2>. QED  BY <2>1, <2>2
<1>. QED  BY <1>4, <1>6, <1>7, <1>8

LEMMA AttemptStep ==
  ASSUME IngestInv, NEW r \in Runs, Attempt(r) \/ AttemptDone(r) \/ AttemptFails(r) \/ Clean(r)
  PROVE  IngestInv'
<1>. USE DEF IngestInv
<1>. DEFINE v == Url(r)
<1>1. fetch[r].pc \in {"attempt", "clean"} /\ UNCHANGED <<items, count, blind, unproved, litter>>
  BY DEF Attempt, AttemptDone, AttemptFails, Clean, RunAt
<1>2. fetch[r] \in Fetches /\ v \in Urls /\ v = Head(fetch[r].todo) /\ fetch[r].todo # <<>>
  BY <1>1, UrlType DEF Url
<1>3. Working(fetch[r], v)
  BY <1>1, <1>2 DEF Working
<1>4. file[v] \in {"none", "part", "good", "bad"}
  BY <1>2 DEF IngestShape
<1>5. v \notin litter => /\ file[v] \in {"good", "bad"} => \E s \in Runs : Holding(fetch[s], v)
                         /\ file[v] = "part" => \E s \in Runs : Holding(fetch[s], v) \/ Loading(fetch[s], v)
  BY <1>2 DEF Shelf
<1>6. fetch[r].pc = "attempt" => ~Holding(fetch[r], v)
  BY DEF Holding
<1>7. CASE Attempt(r)
  <2>. DEFINE t == fetch[r].tries + 1
              e == [[fetch[r] EXCEPT !.tries = t] EXCEPT !.item = 1]
              f == IF file[v] = "none" THEN "part" ELSE file[v]
  <2>1. e \in Fetches /\ e.pc = fetch[r].pc /\ e.todo = fetch[r].todo /\ e.item = 1 /\ e.tokens = fetch[r].tokens
    <3>1. t \in Nat
      BY <1>2 DEF Fetches
    <3>. HIDE DEF t
    <3>. QED  BY <1>2, <3>1 DEF Fetches
  <2>2. fetch' = [fetch EXCEPT ![r] = e]
    BY <1>2, <1>7 DEF Attempt, IngestShape, Fetches
  <2>3. file' = [file EXCEPT ![v] = f] /\ fetch[r].pc = "attempt"
    BY <1>7 DEF Attempt, RunAt
  <2>4. f \in {"none", "part", "good", "bad"}
    BY <1>4
  <2>. HIDE DEF v, e
  <2>5. Loading(e, v)
    BY <1>2, <2>1, <2>3 DEF Loading
  <2>6. v \notin litter => /\ f \in {"good", "bad"} => Holding(e, v) \/ \E s \in Runs \ {r} : Holding(fetch[s], v)
                           /\ f = "part" => Loading(e, v) \/ \E s \in Runs \ {r} : Holding(fetch[s], v) \/ Loading(fetch[s], v)
    BY <1>5, <1>6, <2>3, <2>5
  <2>. HIDE DEF f
  <2>. QED  BY <1>1, <1>2, <1>3, <2>1, <2>2, <2>3, <2>4, <2>6, FileStep
<1>8. CASE AttemptDone(r)
  <2>. DEFINE e == [[fetch[r] EXCEPT !.pc = "validate"] EXCEPT !.item = 0]
  <2>1. e \in Fetches /\ e.pc = "validate" /\ e.todo = fetch[r].todo /\ e.tokens = fetch[r].tokens
    BY <1>2 DEF Fetches, FetchPlaces
  <2>2. fetch' = [fetch EXCEPT ![r] = e]
    BY <1>2, <1>8 DEF AttemptDone, IngestShape, Fetches
  <2>3. PICK f \in {"none", "part", "good", "bad"} : file' = [file EXCEPT ![v] = f] /\ f # "part"
    BY <1>4, <1>8 DEF AttemptDone
  <2>4. fetch[r].pc = "attempt"
    BY <1>8 DEF AttemptDone, RunAt
  <2>. HIDE DEF v, e
  <2>5. Holding(e, v)
    BY <1>2, <2>1 DEF Holding
  <2>. QED  BY <1>1, <1>2, <1>3, <2>1, <2>2, <2>3, <2>4, <2>5, FileStep
<1>9. CASE AttemptFails(r)
  <2>. DEFINE e == [fetch[r] EXCEPT !.item = 0]
              f == Dropped(v)
  <2>1. e \in Fetches /\ e.pc = fetch[r].pc /\ e.todo = fetch[r].todo /\ e.tokens = fetch[r].tokens
    BY <1>2 DEF Fetches
  <2>2. fetch' = [fetch EXCEPT ![r] = e]
    BY <1>9 DEF AttemptFails
  <2>3. file' = [file EXCEPT ![v] = f] /\ fetch[r].pc = "attempt"
    BY <1>9 DEF AttemptFails, RunAt
  <2>4. f \in {"none", "good", "bad"} /\ (f # "none" => f = file[v])
    BY <1>4 DEF Dropped
  <2>. HIDE DEF v, e, f
  <2>. QED  BY <1>1, <1>2, <1>3, <1>5, <1>6, <2>1, <2>2, <2>3, <2>4, FileStep
<1>10. CASE Clean(r)
  <2>1. FetchGoto(r, "next") /\ file' = [file EXCEPT ![v] = "none"] /\ fetch[r].pc = "clean"
    BY <1>10 DEF Clean, RunAt
  <2>2. PICK e \in Fetches : fetch' = [fetch EXCEPT ![r] = e] /\ e.pc = "next" /\ e.todo = fetch[r].todo /\ e.tokens = fetch[r].tokens
    BY <2>1, FetchGotoType DEF FetchPlaces
  <2>. HIDE DEF v
  <2>. QED  BY <1>1, <1>2, <1>3, <2>1, <2>2, FileStep
<1>. QED  BY <1>7, <1>8, <1>9, <1>10

\* An upload, whether its answer comes or not, makes at most one item, of a
\* video nobody has sent before.
LEMMA SendStep ==
  ASSUME IngestInv, NEW r \in Runs, Uploaded(r) \/ AnswerLost(r)
  PROVE  IngestInv'
<1>. USE DEF IngestInv
<1>. DEFINE v == Url(r)
            m == Made(r)
<1>1. fetch[r].pc = "upload" /\ UNCHANGED <<file, blind, unproved, litter>> /\ file[v] \in {"good", "bad"} /\ count.made < MaxItems
  BY DEF Uploaded, AnswerLost, Send, RunAt
<1>2. fetch[r] \in Fetches /\ v \in Urls /\ v = Head(fetch[r].todo) /\ fetch[r].todo # <<>>
  BY <1>1, UrlType DEF Url
<1>3. PICK made \in {{}, {m}} : items' = items \cup made /\ count' = [count EXCEPT !.made = @ + 1]
  BY DEF Uploaded, AnswerLost, Posted
<1>4. count' \in [runs : Nat, made : Nat] /\ count'.made = count.made + 1 /\ count'.made <= MaxItems /\ count.made \in Nat
  BY <1>1, <1>3, DownloaderAssumption DEF IngestShape
<1>5. m \in MediaItem /\ m.id = count.made + 1 /\ m.url = v /\ (m.readable <=> file[v] = "good")
  BY <1>2, <1>4 DEF Made, MediaItem
<1>6. \A i \in items : i.id # m.id
  BY <1>4, <1>5 DEF IngestShape, MediaItem
<1>7. ~m.readable => v \in Doubted
  BY <1>1, <1>5 DEF Sound
<1>8. PICK e \in Fetches : /\ fetch' = [fetch EXCEPT ![r] = e] /\ e.pc \in {"clean", "recover"} /\ e.todo = fetch[r].todo
                           /\ \A t \in e.tokens : t \in fetch[r].tokens \/ (t.id = m.id /\ t.url = v /\ m \in items')
  <2>1. CASE AnswerLost(r)
    <3>1. FetchGoto(r, "recover") /\ "recover" \in FetchPlaces
      BY <2>1 DEF AnswerLost, FetchPlaces
    <3>2. PICK e \in Fetches : /\ fetch' = [fetch EXCEPT ![r] = e] /\ e.pc = "recover" /\ e.todo = fetch[r].todo
                               /\ e.tokens = fetch[r].tokens
      BY <3>1, FetchGotoType
    <3>. QED  BY <3>2
  <2>2. CASE Uploaded(r)
    <3>. DEFINE t == [id |-> m.id, url |-> v]
                e == [[fetch[r] EXCEPT !.pc = "clean"] EXCEPT !.tokens = @ \cup {t}]
    <3>1. t \in [id : Nat, url : Urls] /\ t.id = m.id /\ t.url = v
      BY <1>2, <1>4, <1>5
    <3>2. fetch' = [fetch EXCEPT ![r] = e] /\ m \in items'
      BY <1>2, <2>2 DEF Uploaded, Token, Posted, IngestShape, Fetches
    <3>. HIDE DEF t, m
    <3>3. e \in Fetches /\ e.pc = "clean" /\ e.todo = fetch[r].todo /\ e.tokens = fetch[r].tokens \cup {t}
      BY <1>2, <3>1 DEF Fetches, FetchPlaces
    <3>4. \A x \in e.tokens : x \in fetch[r].tokens \/ (x.id = m.id /\ x.url = v /\ m \in items')
      BY <3>1, <3>2, <3>3
    <3>. HIDE DEF e
    <3>. QED  BY <3>2, <3>3, <3>4
  <2>. QED  BY <2>1, <2>2
<1>. HIDE DEF v, m
<1>9. fetch' \in [Runs -> Fetches] /\ fetch'[r] = e /\ \A s \in Runs \ {r} : fetch'[s] = fetch[s]
  BY <1>8 DEF IngestShape
<1>10. items \subseteq items' /\ \A i \in items' : i \in items \/ i = m
  BY <1>3
<1>11. IngestShape'
  <2>1. items' \subseteq MediaItem /\ (\A i \in items' : 1 <= i.id /\ i.id <= count'.made)
    <3>. SUFFICES ASSUME NEW i \in items' PROVE i \in MediaItem /\ 1 <= i.id /\ i.id <= count'.made
      OBVIOUS
    <3>1. CASE i = m
      BY <1>4, <1>5, <3>1
    <3>2. CASE i \in items
      <4>1. i \in MediaItem /\ 1 <= i.id /\ i.id <= count.made /\ i.id \in Nat
        BY <3>2 DEF IngestShape, MediaItem
      <4>. QED  BY <1>4, <4>1
    <3>. QED  BY <1>10, <3>1, <3>2
  <2>2. \A i, j \in items' : i.id = j.id => i = j
    BY <1>6, <1>10 DEF IngestShape
  <2>. QED  BY <1>1, <1>2, <1>4, <1>8, <1>9, <2>1, <2>2 DEF IngestShape
<1>12. Once'
  <2>. SUFFICES ASSUME NEW u \in Urls, u \notin blind
               PROVE  (/\ \A i, j \in items : i.url = u /\ j.url = u => i = j
                       /\ \A p, s \in Runs : Working(fetch[p], u) /\ Working(fetch[s], u) => p = s
                       /\ \A s \in Runs : Early(fetch[s], u) => \A i \in items : i.url # u)'
    BY <1>1 DEF Once
  <2>1. \A s \in Runs : (Working(fetch'[s], u) => Working(fetch[s], u)) /\ (Early(fetch'[s], u) => Early(fetch[s], u))
    BY <1>1, <1>8, <1>9 DEF Working, Early
  <2>2. CASE u = v
    <3>1. Early(fetch[r], v) /\ Working(fetch[r], v) /\ ~Early(fetch'[r], v)
      BY <1>1, <1>2, <1>8, <1>9 DEF Early, Working
    <3>2. \A i \in items : i.url # u
      BY <2>2, <3>1 DEF Once
    <3>3. \A s \in Runs : Early(fetch[s], u) => s = r
      BY <2>2, <3>1 DEF Once, Early, Working
    <3>4. \A s \in Runs : ~Early(fetch'[s], u)
      BY <2>1, <2>2, <3>1, <3>3
    <3>. QED  BY <1>10, <2>1, <2>2, <3>2, <3>4 DEF Once
  <2>3. CASE u # v
    BY <1>5, <1>10, <2>1, <2>3 DEF Once
  <2>. QED  BY <2>2, <2>3
<1>13. Sound'
  <2>1. (\A i \in items : ~i.readable => i.url \in Doubted)'
    BY <1>1, <1>5, <1>7, <1>10 DEF Sound, Doubted
  <2>2. \A s \in Runs : fetch'[s].pc = "upload" /\ Head(fetch'[s].todo) \notin Doubted' =>
           file'[Head(fetch'[s].todo)] \in {"good", "none"}
    BY <1>1, <1>8, <1>9 DEF Sound, Url, Doubted
  <2>3. \A s \in Runs : fetch'[s].pc \in {"details", "put"} /\ Head(fetch'[s].todo) \notin Doubted' =>
           \E i \in items' : i.id = fetch'[s].item /\ i.url = Head(fetch'[s].todo)
    BY <1>1, <1>8, <1>9, <1>10 DEF Sound, Url, Doubted
  <2>4. \A t : Stands(t) => Stands(t)'
    BY <1>1, <1>10 DEF Stands
  <2>5. ASSUME NEW t, t.id = m.id, t.url = v, m \in items'
        PROVE  Stands(t)'
    <3>. SUFFICES ASSUME Akin(v) \cap (unproved \cup blind) = {} PROVE m.readable
      BY <1>1, <1>5, <2>5 DEF Stands
    <3>1. v \in Akin(v)
      BY <1>2 DEF Akin
    <3>. QED  BY <1>7, <3>1 DEF Doubted
  <2>6. \A s \in Runs : \A t \in fetch'[s].tokens : Stands(t)'
    BY <1>8, <1>9, <2>4, <2>5 DEF Sound
  <2>. QED  BY <2>1, <2>2, <2>3, <2>6 DEF Sound, Url
<1>14. Shelf'
  <2>1. \A s \in Runs, u \in Urls : (Holding(fetch[s], u) => Holding(fetch'[s], u)) /\ (Loading(fetch[s], u) => Loading(fetch'[s], u))
    BY <1>1, <1>8, <1>9 DEF Holding, Loading
  <2>. QED  BY <1>1, <2>1 DEF Shelf
<1>. QED  BY <1>11, <1>12, <1>13, <1>14

\* Items that change without leaving, and that leave only if they cannot be read.
LEMMA ItemsStep ==
  ASSUME IngestInv, items' \subseteq MediaItem, UNCHANGED <<file, count, blind, unproved, litter>>,
         fetch' \in [Runs -> Fetches],
         \A i \in items' : \E j \in items : j.id = i.id /\ j.url = i.url /\ j.readable = i.readable,
         \A j \in items : j.readable => \E i \in items' : i.id = j.id /\ i.url = j.url /\ i.readable,
         \A j \in items : j.url \notin Doubted => \E i \in items' : i.id = j.id /\ i.url = j.url,
         \A i, j \in items' : i.id = j.id => i = j,
         \A r \in Runs : \/ fetch'[r] = fetch[r]
                         \/ fetch'[r].pc = "next" /\ fetch[r].pc = "put" /\ fetch'[r].todo = fetch[r].todo
                            /\ fetch'[r].tokens = fetch[r].tokens \cup Named(r)
  PROVE  IngestInv'
<1>. USE DEF IngestInv
<1>1. IngestShape'
  <2>1. \A i \in items' : 1 <= i.id /\ i.id <= count.made
    BY DEF IngestShape
  <2>2. \A r \in Runs : fetch'[r].pc \notin {"idle", "sweep"} => fetch'[r].todo # <<>>
    BY DEF IngestShape
  <2>. QED  BY <2>1, <2>2 DEF IngestShape
<1>2. \A r \in Runs, u \in Urls : /\ Working(fetch'[r], u) = Working(fetch[r], u) /\ Early(fetch'[r], u) = Early(fetch[r], u)
                                  /\ Holding(fetch'[r], u) = Holding(fetch[r], u) /\ Loading(fetch'[r], u) = Loading(fetch[r], u)
  BY DEF Working, Early, Holding, Loading
<1>3. Once'
  <2>. SUFFICES ASSUME NEW u \in Urls, u \notin blind
               PROVE  (/\ \A i, j \in items : i.url = u /\ j.url = u => i = j
                       /\ \A p, s \in Runs : Working(fetch[p], u) /\ Working(fetch[s], u) => p = s
                       /\ \A s \in Runs : Early(fetch[s], u) => \A i \in items : i.url # u)'
    BY DEF Once
  <2>1. ASSUME NEW i \in items', NEW j \in items', i.url = u, j.url = u PROVE i = j
    <3>1. PICK a \in items : a.id = i.id /\ a.url = i.url
      OBVIOUS
    <3>2. PICK b \in items : b.id = j.id /\ b.url = j.url
      OBVIOUS
    <3>3. a = b
      BY <2>1, <3>1, <3>2 DEF Once
    <3>. QED  BY <3>1, <3>2, <3>3
  <2>. QED  BY <1>2, <2>1 DEF Once
<1>4. \A t : Stands(t) => Stands(t)'
  <2>. SUFFICES ASSUME NEW t, Stands(t), Akin(t.url) \cap (unproved \cup blind) = {}
               PROVE  \E i \in items' : i.id = t.id /\ TitleOf[i.url] = TitleOf[t.url] /\ i.readable
    BY DEF Stands
  <2>1. PICK j \in items : j.id = t.id /\ TitleOf[j.url] = TitleOf[t.url] /\ j.readable
    BY DEF Stands
  <2>2. PICK i \in items' : i.id = j.id /\ i.url = j.url /\ i.readable
    BY <2>1
  <2>. QED  BY <2>1, <2>2
<1>5. Sound'
  <2>1. (\A i \in items : ~i.readable => i.url \in Doubted)'
    BY DEF Sound, Doubted
  <2>2. \A s \in Runs : fetch'[s].pc = "upload" /\ Head(fetch'[s].todo) \notin Doubted' =>
           file'[Head(fetch'[s].todo)] \in {"good", "none"}
    BY DEF Sound, Url, Doubted
  <2>3. \A s \in Runs : fetch'[s].pc \in {"details", "put"} /\ Head(fetch'[s].todo) \notin Doubted' =>
           \E i \in items' : i.id = fetch'[s].item /\ i.url = Head(fetch'[s].todo)
    BY DEF Sound, Url, Doubted
  <2>4. \A s \in Runs : \A t \in fetch'[s].tokens : Stands(t)
    BY NamedStands DEF Sound
  <2>. QED  BY <1>4, <2>1, <2>2, <2>3, <2>4 DEF Sound, Url
<1>6. Shelf'
  BY <1>2 DEF Shelf
<1>. QED  BY <1>1, <1>3, <1>5, <1>6

LEMMA PutDetailsStep ==
  ASSUME IngestInv, NEW r \in Runs, PutDetails(r)
  PROVE  IngestInv'
<1>. USE DEF IngestInv
<1>. DEFINE Marked(i) == [i EXCEPT !.marked = TRUE]
            mine == {j \in items : j.id = fetch[r].item}
<1>1. fetch[r].pc = "put" /\ UNCHANGED <<file, count, blind, unproved, litter>>
      /\ items' \in {items, (items \ mine) \cup {Marked(i) : i \in mine}}
  BY DEF PutDetails, RunAt
<1>2. fetch[r] \in Fetches /\ Named(r) \subseteq [id : Nat, url : Urls]
  BY <1>1, UrlType, NamedStands
<1>3. fetch' = [fetch EXCEPT ![r] = [[fetch[r] EXCEPT !.pc = "next"] EXCEPT !.tokens = @ \cup Named(r)]]
  BY <1>2 DEF PutDetails, IngestShape, Fetches
<1>. DEFINE e == [[fetch[r] EXCEPT !.pc = "next"] EXCEPT !.tokens = @ \cup Named(r)]
<1>4. e \in Fetches /\ e.pc = "next" /\ e.todo = fetch[r].todo /\ e.tokens = fetch[r].tokens \cup Named(r)
  BY <1>2 DEF Fetches, FetchPlaces
<1>. HIDE DEF e
<1>5. fetch' \in [Runs -> Fetches] /\ fetch'[r] = e /\ \A s \in Runs \ {r} : fetch'[s] = fetch[s]
  BY <1>3, <1>4 DEF IngestShape, e
<1>6. \A i \in items : i \in MediaItem /\ Marked(i) \in MediaItem /\ Marked(i).id = i.id /\ Marked(i).url = i.url /\ Marked(i).readable = i.readable
  BY ZenonT(30) DEF IngestShape, MediaItem
<1>. HIDE DEF Marked
<1>7. \A i \in items' : \E j \in items : /\ j.id = i.id /\ j.url = i.url /\ j.readable = i.readable
                                         /\ i = j \/ (i = Marked(j) /\ j \in mine)
  <2>. SUFFICES ASSUME NEW i \in items'
               PROVE  \E j \in items : /\ j.id = i.id /\ j.url = i.url /\ j.readable = i.readable
                                       /\ i = j \/ (i = Marked(j) /\ j \in mine)
    OBVIOUS
  <2>1. CASE i \in items
    BY <2>1
  <2>2. CASE i \notin items
    <3>1. PICK j \in mine : i = Marked(j)
      BY <1>1, <2>2
    <3>. QED  BY <1>6, <3>1
  <2>. QED  BY <2>1, <2>2
<1>8. \A j \in items : \E i \in items' : i.id = j.id /\ i.url = j.url /\ i.readable = j.readable
  BY <1>1, <1>6
<1>9. \A i, j \in items' : i.id = j.id => i = j
  <2>. SUFFICES ASSUME NEW i \in items', NEW j \in items', i.id = j.id PROVE i = j
    OBVIOUS
  <2>1. CASE items' = items
    BY <2>1 DEF IngestShape
  <2>2. CASE items' = (items \ mine) \cup {Marked(x) : x \in mine}
    <3>1. PICK a \in items : a.id = i.id /\ i = IF a \in mine THEN Marked(a) ELSE a
      BY <1>6, <2>2
    <3>2. PICK b \in items : b.id = j.id /\ j = IF b \in mine THEN Marked(b) ELSE b
      BY <1>6, <2>2
    <3>3. a = b
      BY <3>1, <3>2 DEF IngestShape
    <3>. QED  BY <3>1, <3>2, <3>3
  <2>. QED  BY <1>1, <2>1, <2>2
<1>10. items' \subseteq MediaItem
  BY <1>6, <1>7
<1>. HIDE DEF mine
<1>11. \A s \in Runs : \/ fetch'[s] = fetch[s]
                       \/ fetch'[s].pc = "next" /\ fetch[s].pc = "put" /\ fetch'[s].todo = fetch[s].todo
                          /\ fetch'[s].tokens = fetch[s].tokens \cup Named(s)
  BY <1>1, <1>4, <1>5
<1>. QED  BY <1>1, <1>5, <1>7, <1>8, <1>9, <1>10, <1>11, ItemsStep

LEMMA MediaCmsStep ==
  ASSUME IngestInv, Indexed \/ Reaped
  PROVE  IngestInv'
<1>. USE DEF IngestInv
<1>1. UNCHANGED <<file, fetch, count, blind, unproved, litter>> /\ fetch' \in [Runs -> Fetches]
  BY DEF Indexed, Reaped, IngestShape
<1>2. CASE Indexed
  <2>1. PICK i \in items : items' = (items \ {i}) \cup {[i EXCEPT !.found = TRUE]}
    BY <1>2 DEF Indexed
  <2>. DEFINE x == [i EXCEPT !.found = TRUE]
  <2>2. i \in MediaItem /\ x \in MediaItem /\ x.id = i.id /\ x.url = i.url /\ x.readable = i.readable
    BY DEF IngestShape, MediaItem
  <2>3. items' = (items \ {i}) \cup {x}
    BY <2>1
  <2>. HIDE DEF x
  <2>4. \A a, b \in items' : a.id = b.id => a = b
    BY <2>2, <2>3 DEF IngestShape
  <2>5. items' \subseteq MediaItem
    BY <2>2, <2>3 DEF IngestShape
  <2>6. \A a \in items' : \E j \in items : j.id = a.id /\ j.url = a.url /\ j.readable = a.readable
    BY <2>2, <2>3
  <2>7. \A j \in items : \E a \in items' : a.id = j.id /\ a.url = j.url /\ a.readable = j.readable
    BY <2>2, <2>3
  <2>. QED  BY <1>1, <2>4, <2>5, <2>6, <2>7, ItemsStep
<1>3. CASE Reaped
  <2>1. PICK i \in items : ~i.readable /\ items' = items \ {i}
    BY <1>3 DEF Reaped
  <2>2. i.url \in Doubted
    BY <2>1 DEF Sound
  <2>3. \A a, b \in items' : a.id = b.id => a = b
    BY <2>1 DEF IngestShape
  <2>4. items' \subseteq MediaItem
    BY <2>1 DEF IngestShape
  <2>. QED  BY <1>1, <2>1, <2>2, <2>3, <2>4, ItemsStep
<1>. QED  BY <1>2, <1>3

LEMMA EmptiedStep ==
  ASSUME IngestInv, DownloaderCrash \/ \E r \in Runs : Sweep(r)
  PROVE  IngestInv'
<1>. USE DEF IngestInv
<1>1. UNCHANGED <<items, count, blind, unproved>>
  BY DEF DownloaderCrash, Sweep
<1>2. NoFetch \in Fetches /\ NoFetch.pc = "idle" /\ NoFetch.tokens = {}
  BY DEF NoFetch, Fetches, FetchPlaces
<1>3. fetch' \in [Runs -> Fetches]
      /\ \A r \in Runs : fetch'[r] = fetch[r] \/ (fetch'[r].pc = "idle" /\ fetch'[r].tokens \subseteq fetch[r].tokens)
  <2>1. CASE DownloaderCrash
    BY <1>2, <2>1 DEF DownloaderCrash
  <2>2. ASSUME NEW r \in Runs, Sweep(r)
        PROVE  fetch' \in [Runs -> Fetches]
               /\ \A s \in Runs : fetch'[s] = fetch[s] \/ (fetch'[s].pc = "idle" /\ fetch'[s].tokens \subseteq fetch[s].tokens)
    <3>1. PICK e \in Fetches : fetch' = [fetch EXCEPT ![r] = e] /\ e.pc = "idle" /\ e.tokens = fetch[r].tokens
      BY <2>2, FetchGotoType DEF Sweep, FetchPlaces
    <3>. QED  BY <3>1 DEF IngestShape
  <2>. QED  BY <2>1, <2>2
<1>4. file' \in [Urls -> {"none", "part", "good", "bad"}] /\ \A u \in Urls : file'[u] \in {file[u], "none"}
  BY DEF DownloaderCrash, Sweep, IngestShape
<1>5. \A u \in Urls \ litter' : file'[u] = "none"
  BY <1>4 DEF DownloaderCrash, Sweep
<1>6. IngestShape'
  BY <1>1, <1>3, <1>4 DEF IngestShape
<1>7. \A r \in Runs, u \in Urls : (Working(fetch'[r], u) => Working(fetch[r], u)) /\ (Early(fetch'[r], u) => Early(fetch[r], u))
  BY <1>3 DEF Working, Early
<1>8. Once'
  BY <1>1, <1>7 DEF Once
<1>9. Sound'
  <2>1. (\A i \in items : ~i.readable => i.url \in Doubted)'
    BY <1>1 DEF Sound, Doubted
  <2>2. ASSUME NEW s \in Runs, fetch'[s].pc = "upload", Head(fetch'[s].todo) \notin Doubted'
        PROVE  file'[Head(fetch'[s].todo)] \in {"good", "none"}
    <3>1. fetch'[s] = fetch[s]
      BY <1>3, <2>2
    <3>2. Url(s) \in Urls /\ Url(s) = Head(fetch[s].todo) /\ Url(s) \notin Doubted
      BY <1>1, <2>2, <3>1, UrlType DEF Url, Doubted
    <3>3. file[Url(s)] \in {"good", "none"}
      BY <2>2, <3>1, <3>2 DEF Sound
    <3>. QED  BY <1>4, <3>1, <3>2, <3>3
  <2>3. \A s \in Runs : fetch'[s].pc \in {"details", "put"} /\ Head(fetch'[s].todo) \notin Doubted' =>
           \E i \in items' : i.id = fetch'[s].item /\ i.url = Head(fetch'[s].todo)
    BY <1>1, <1>3 DEF Sound, Url, Doubted
  <2>4. \A t : Stands(t) => Stands(t)'
    BY <1>1 DEF Stands
  <2>5. \A s \in Runs : \A t \in fetch'[s].tokens : Stands(t)
    BY <1>3 DEF Sound
  <2>. QED  BY <2>1, <2>2, <2>3, <2>4, <2>5 DEF Sound, Url
<1>10. Shelf'
  BY <1>5 DEF Shelf
<1>. QED  BY <1>6, <1>8, <1>9, <1>10

LEMMA IngestInductive == IngestInv /\ [DownloaderNext]_ingestVars => IngestInv'
<1>. SUFFICES ASSUME IngestInv, [DownloaderNext]_ingestVars PROVE IngestInv'
  OBVIOUS
<1>1. CASE UNCHANGED ingestVars
  BY <1>1 DEF ingestVars, IngestInv, IngestShape, Once, Sound, Shelf, Url, Stands, Doubted
<1>2. ASSUME NEW r \in Runs, Video(r) PROVE IngestInv'
  BY <1>2, BeginStep, CheckFoundStep, CheckNoneStep, AttemptStep, PlaceStep, SendStep, RecoverStep, DetailsStep,
     PutDetailsStep, NextVideoStep, EmptiedStep DEF Video
<1>. QED  BY <1>1, <1>2, MediaCmsStep, EmptiedStep DEF DownloaderNext

LEMMA IngestInvSafe == IngestInv => IngestSafe
<1>. SUFFICES ASSUME IngestInv PROVE IngestSafe
  OBVIOUS
<1>. USE DEF IngestInv
<1>1. DownloaderType
  <2>1. \A i \in items : i.id \in 1 .. MaxItems /\ i.url \in Urls
    <3>. SUFFICES ASSUME NEW i \in items PROVE i.id \in 1 .. MaxItems /\ i.url \in Urls
      OBVIOUS
    <3>1. i.id \in Nat /\ i.url \in Urls /\ 1 <= i.id /\ i.id <= count.made /\ count.made <= MaxItems /\ count.made \in Nat
      BY DEF IngestShape, MediaItem
    <3>. QED  BY <3>1, DownloaderAssumption
  <2>2. \A r \in Runs : fetch[r] \in Fetches
    BY DEF IngestShape
  <2>. QED  BY <2>1, <2>2 DEF IngestShape, DownloaderType, Fetches, FetchPlaces
<1>2. OnePerUrl
  BY DEF OnePerUrl, Once, IngestShape, MediaItem
<1>3. TokensStand
  BY DEF TokensStand, Sound, Stands, Akin
<1>4. Tidy
  BY DEF Tidy, Shelf, Holding, Loading, IngestShape
<1>. QED  BY <1>1, <1>2, <1>3, <1>4 DEF IngestSafe
-----------------------------------------------------------------------------
(***************************************************************************)
(* The tools.  What a tool scanned of a video is its uploader's, or the    *)
(* owner is given up on; it has the source's mark if the mark was there to *)
(* be read; and a better text is better than the one scanned.              *)
(***************************************************************************)
Notes == [id : Videos, level : 0 .. 2, marked : BOOLEAN, owner : {"uploader", "bot"}]
ToolStates == [pc : {"idle", "look", "put", "restore"}, todo : Seq(Notes), got : 0 .. 2]

ToolShape ==
  /\ entries \in [Videos -> ListEntry] /\ scans \in 0 .. MaxScans /\ upsets \in 0 .. MaxUpsets
  /\ tool \in [Tools -> ToolStates] /\ \A k \in Tools : tool[k].pc # "idle" => tool[k].todo # <<>>
  /\ lost \subseteq Videos /\ sourced \subseteq Videos

\* Of a note, with these owners lost and these sources kept.
Frank(e, gone, kept) == (e.owner = "uploader" \/ e.id \in gone) /\ (e.id \in kept => e.marked)
AllFrank == \A k \in Tools : \A n \in DOMAIN tool[k].todo : Frank(tool[k].todo[n], lost, sourced)
MetaGains == \A k \in Tools : k = "meta" /\ tool[k].pc = "put" => tool[k].got > Mine(k).level

ToolsInv == ToolShape /\ AllFrank /\ MetaGains /\ OwnerComesBack /\ SourceKept

LEMMA NoToolIs == NoTool \in ToolStates /\ NoTool.pc = "idle" /\ NoTool.todo = <<>>
BY DEF NoTool, ToolStates

LEMMA ToolsInitially == ToolsInit => ToolsInv
<1>. SUFFICES ASSUME ToolsInit PROVE ToolsInv
  OBVIOUS
<1>1. ToolShape
  BY NoToolIs, CmsToolsAssumption DEF ToolsInit, ToolShape, ListEntry
<1>2. \A k \in Tools : tool[k] = NoTool
  BY DEF ToolsInit
<1>. QED  BY <1>1, <1>2, NoToolIs DEF ToolsInit, ToolsInv, AllFrank, MetaGains, OwnerComesBack, SourceKept

\* The note a tool is at, and what is left after it.
LEMMA MineType ==
  ASSUME ToolShape, NEW k \in Tools, tool[k].pc # "idle"
  PROVE  /\ Mine(k) \in Notes /\ Mine(k).id \in Videos /\ tool[k] \in ToolStates /\ tool[k].todo \in Seq(Notes)
         /\ 1 \in DOMAIN tool[k].todo /\ Mine(k) = tool[k].todo[1] /\ tool[k].got \in 0 .. 2
<1>1. tool[k] \in ToolStates /\ tool[k].todo # <<>>
  BY DEF ToolShape
<1>2. tool[k].todo \in Seq(Notes)
  BY <1>1 DEF ToolStates
<1>3. Mine(k) = tool[k].todo[1] /\ 1 \in DOMAIN tool[k].todo /\ tool[k].todo[1] \in Notes
  BY <1>1, <1>2 DEF Mine
<1>. QED  BY <1>1, <1>2, <1>3 DEF Notes, ToolStates

\* A step of one tool that leaves MediaCMS alone.
LEMMA ToolTurns ==
  ASSUME ToolsInv, NEW k \in Tools, NEW e \in ToolStates, tool' = [tool EXCEPT ![k] = e],
         scans' \in 0 .. MaxScans, upsets' \in 0 .. MaxUpsets, UNCHANGED <<entries, sourced>>,
         lost \subseteq lost', lost' \subseteq Videos,
         e.pc # "idle" => e.todo # <<>>,
         \A n \in DOMAIN e.todo : Frank(e.todo[n], lost', sourced'),
         k = "meta" /\ e.pc = "put" => e.got > Head(e.todo).level,
         tool[k].pc = "restore" => Mine(k).id \in lost' \/ entries[Mine(k).id].owner = "uploader"
  PROVE  ToolsInv' /\ NeverPoorer
<1>. USE DEF ToolsInv
<1>1. tool' \in [Tools -> ToolStates] /\ tool'[k] = e /\ \A j \in Tools \ {k} : tool'[j] = tool[j]
  BY DEF ToolShape
<1>2. ToolShape'
  BY <1>1 DEF ToolShape
<1>3. AllFrank'
  BY <1>1 DEF AllFrank, Frank
<1>4. MetaGains'
  BY <1>1 DEF MetaGains, Mine
<1>5. OwnerComesBack'
  BY <1>1 DEF OwnerComesBack, Mine
<1>6. NeverPoorer
  <2>1. \A i \in Videos : entries'[i].level = entries[i].level /\ entries[i].level \in 0 .. 2
    BY DEF ToolShape, ListEntry
  <2>. QED  BY <2>1 DEF NeverPoorer
<1>. QED  BY <1>2, <1>3, <1>4, <1>5, <1>6 DEF SourceKept

\* On to the next note, or done.
LEMMA OnwardIs ==
  ASSUME ToolShape, NEW k \in Tools, tool[k].pc # "idle", Onward(k)
  PROVE  \E e \in ToolStates :
           /\ tool' = [tool EXCEPT ![k] = e] /\ (e.pc # "idle" => e.todo # <<>>) /\ e.pc \in {"idle", "look"}
           /\ \A n \in DOMAIN e.todo : n + 1 \in DOMAIN tool[k].todo /\ e.todo[n] = tool[k].todo[n + 1]
<1>1. tool[k].todo \in Seq(Notes) /\ tool[k].todo # <<>>
  BY MineType DEF ToolShape
<1>2. CASE Len(tool[k].todo) = 1
  <2>1. tool' = [tool EXCEPT ![k] = NoTool]
    BY <1>2 DEF Onward
  <2>2. \A n \in DOMAIN NoTool.todo : FALSE
    BY NoToolIs
  <2>. QED  BY <2>1, <2>2, NoToolIs
<1>3. CASE Len(tool[k].todo) # 1
  <2>. DEFINE all == tool[k].todo
              rest == Tail(all)
              e == [pc |-> "look", todo |-> rest, got |-> 0]
  <2>1. all \in Seq(Notes) /\ all # <<>> /\ Len(all) # 1
    BY <1>1, <1>3
  <2>2. rest \in Seq(Notes) /\ rest # <<>> /\ \A n \in DOMAIN rest : n + 1 \in DOMAIN all /\ rest[n] = all[n + 1]
    <3>. HIDE DEF all
    <3>1. rest \in Seq(Notes) /\ Len(rest) = Len(all) - 1 /\ \A n \in 1 .. Len(rest) : rest[n] = all[n + 1]
      BY <2>1
    <3>2. Len(all) \in Nat \ {0} /\ DOMAIN rest = 1 .. Len(rest) /\ DOMAIN all = 1 .. Len(all)
      BY <2>1, <3>1
    <3>. HIDE DEF rest
    <3>. QED  BY <2>1, <3>1, <3>2
  <2>3. tool' = [tool EXCEPT ![k] = e]
    BY <1>3 DEF Onward
  <2>. HIDE DEF rest
  <2>4. e \in ToolStates /\ e.todo = rest /\ e.pc = "look"
    BY <2>2 DEF ToolStates
  <2>. QED  BY <2>2, <2>3, <2>4
<1>. QED  BY <1>2, <1>3

\* On, with MediaCMS left alone.
LEMMA OnwardStep ==
  ASSUME ToolsInv, NEW k \in Tools, tool[k].pc # "idle", Onward(k),
         scans' \in 0 .. MaxScans, upsets' \in 0 .. MaxUpsets, UNCHANGED <<entries, sourced>>,
         lost \subseteq lost', lost' \subseteq Videos,
         tool[k].pc = "restore" => Mine(k).id \in lost'
  PROVE  ToolsInv' /\ NeverPoorer
<1>1. PICK e \in ToolStates :
           /\ tool' = [tool EXCEPT ![k] = e] /\ (e.pc # "idle" => e.todo # <<>>) /\ e.pc \in {"idle", "look"}
           /\ \A n \in DOMAIN e.todo : n + 1 \in DOMAIN tool[k].todo /\ e.todo[n] = tool[k].todo[n + 1]
  BY OnwardIs DEF ToolsInv
<1>2. \A n \in DOMAIN e.todo : Frank(e.todo[n], lost', sourced')
  BY <1>1 DEF ToolsInv, AllFrank, Frank
<1>. QED  BY <1>1, <1>2, ToolTurns

\* A new place of the same note.
LEMMA GotoStep ==
  ASSUME ToolsInv, NEW k \in Tools, tool[k].pc = "look", NEW got \in 0 .. 2, ToolGoto(k, "put", got),
         k = "meta" => MetaBetter(k, got), UNCHANGED <<entries, scans, upsets, lost, sourced>>
  PROVE  ToolsInv' /\ NeverPoorer
<1>. DEFINE e == [[tool[k] EXCEPT !.pc = "put"] EXCEPT !.got = got]
<1>1. tool[k] \in ToolStates /\ Mine(k) = Head(tool[k].todo) /\ tool[k].todo # <<>>
  BY MineType DEF ToolsInv, ToolShape, Mine
<1>2. e \in ToolStates /\ e.pc = "put" /\ e.got = got /\ e.todo = tool[k].todo
  BY <1>1 DEF ToolStates
<1>3. tool' = [tool EXCEPT ![k] = e]
  BY <1>1 DEF ToolGoto, ToolsInv, ToolShape
<1>. HIDE DEF e
<1>4. \A n \in DOMAIN e.todo : Frank(e.todo[n], lost', sourced')
  BY <1>2 DEF ToolsInv, AllFrank, Frank
<1>5. scans' \in 0 .. MaxScans /\ upsets' \in 0 .. MaxUpsets /\ lost' \subseteq Videos
  BY DEF ToolsInv, ToolShape
<1>6. k = "meta" /\ e.pc = "put" => e.got > Head(e.todo).level
  BY <1>1, <1>2 DEF MetaBetter
<1>. QED  BY <1>1, <1>2, <1>3, <1>4, <1>5, <1>6, ToolTurns
LEMMA ScanStep == ASSUME ToolsInv, NEW k \in Tools, Scan(k) PROVE ToolsInv' /\ NeverPoorer
<1>1. PICK chosen \in SUBSET {i \in Videos : Wants(k, i)} :
       /\ chosen # {}
       /\ \E l \in InOrder(k, chosen) :
            tool' = [tool EXCEPT ![k] = [NoTool EXCEPT !.pc = "look", !.todo = [n \in DOMAIN l |-> Read(l[n])]]]
       /\ lost' = lost \cup {i \in chosen : entries[i].owner = "bot"}
  BY DEF Scan
<1>2. PICK l \in InOrder(k, chosen) :
            tool' = [tool EXCEPT ![k] = [NoTool EXCEPT !.pc = "look", !.todo = [n \in DOMAIN l |-> Read(l[n])]]]
  BY <1>1
<1>3. IsFiniteSet(chosen) /\ chosen \subseteq Videos
  BY CmsToolsAssumption, FS_Subset
<1>4. Cardinality(chosen) \in Nat /\ Cardinality(chosen) # 0
  BY <1>1, <1>3, FS_CardinalityType, FS_EmptySet
<1>5. l \in [1 .. Cardinality(chosen) -> chosen]
  BY DEF InOrder, SetToSeqs
<1>. DEFINE notes == [n \in DOMAIN l |-> Read(l[n])]
            e == [[NoTool EXCEPT !.pc = "look"] EXCEPT !.todo = notes]
<1>6. \A i \in Videos : entries[i] \in ListEntry
  BY DEF ToolsInv, ToolShape
<1>7. \A i \in Videos : Read(i) \in Notes /\ Read(i).id = i /\ Read(i).owner = entries[i].owner
                        /\ Read(i).marked = entries[i].marked
  BY <1>6 DEF Read, Notes, ListEntry
<1>8. notes \in Seq(Notes) /\ DOMAIN notes = 1 .. Cardinality(chosen) /\ notes # <<>>
  BY <1>3, <1>4, <1>5, <1>7
<1>9. \A n \in DOMAIN notes : \E i \in chosen : notes[n] = Read(i)
  BY <1>5
<1>. HIDE DEF notes
<1>10. e \in ToolStates /\ e.pc = "look" /\ e.todo = notes
  BY <1>8, NoToolIs DEF ToolStates
<1>11. \A n \in DOMAIN notes : Frank(notes[n], lost', sourced')
  <2>. SUFFICES ASSUME NEW n \in DOMAIN notes PROVE Frank(notes[n], lost', sourced')
    OBVIOUS
  <2>1. PICK i \in chosen : notes[n] = Read(i)
    BY <1>9
  <2>2. i \in sourced => entries[i].marked
    BY DEF ToolsInv, SourceKept
  <2>3. entries[i].owner = "uploader" \/ i \in lost'
    BY <1>1, <1>3, <1>6 DEF ListEntry
  <2>4. i \in Videos /\ sourced' = sourced
    BY <1>3 DEF Scan
  <2>. QED  BY <1>7, <2>1, <2>2, <2>3, <2>4 DEF Frank
<1>12. tool' = [tool EXCEPT ![k] = e]
  BY <1>2, NoToolIs DEF notes, ToolStates
<1>13. scans' \in 0 .. MaxScans /\ upsets' = upsets /\ upsets \in 0 .. MaxUpsets /\ lost' \subseteq Videos /\ lost \subseteq lost'
  BY <1>1, <1>3, CmsToolsAssumption DEF Scan, ToolsInv, ToolShape
<1>14. UNCHANGED <<entries, sourced>> /\ tool[k].pc # "restore"
  BY DEF Scan
<1>. HIDE DEF e
<1>. QED  BY <1>8, <1>10, <1>11, <1>12, <1>13, <1>14, ToolTurns

LEMMA LookStep ==
  ASSUME ToolsInv, NEW k \in Tools, LookMisses(k) \/ MetaLook(k) \/ TvLook(k) \/ TitlesLook(k)
  PROVE  ToolsInv' /\ NeverPoorer
<1>1. scans \in 0 .. MaxScans /\ upsets \in 0 .. MaxUpsets /\ lost \subseteq Videos
  BY DEF ToolsInv, ToolShape
<1>2. CASE LookMisses(k)
  BY <1>1, <1>2, OnwardStep DEF LookMisses
<1>3. CASE MetaLook(k)
  BY <1>3, GotoStep DEF MetaLook
<1>4. CASE TvLook(k)
  BY <1>4, GotoStep DEF TvLook
<1>5. CASE TitlesLook(k)
  BY <1>5, GotoStep DEF TitlesLook
<1>. QED  BY <1>2, <1>3, <1>4, <1>5

\* What a PUT may write.
LEMMA TextsAre ==
  ASSUME ToolsInv, NEW k \in Tools, tool[k].pc = "put", NEW text \in Texts(k)
  PROVE  /\ text \in ListEntry
         /\ text.marked \/ k = "writer" \/ Mine(k).id \notin sourced
         /\ k = "meta" => text.level > Mine(k).level
<1>. DEFINE old == entries[Mine(k).id]
<1>1. Mine(k) \in Notes /\ Mine(k).id \in Videos /\ tool[k].got \in 0 .. 2 /\ Frank(Mine(k), lost, sourced) /\ old \in ListEntry
  BY MineType DEF ToolsInv, ToolShape, AllFrank
<1>2. Mine(k).marked \in BOOLEAN /\ Mine(k).level \in 0 .. 2
  BY <1>1 DEF Notes
<1>3. old.marked \/ Mine(k).id \notin sourced
  BY <1>1 DEF ToolsInv, SourceKept
<1>4. Mine(k).marked \/ Mine(k).id \notin sourced
  BY <1>1 DEF Frank
<1>5. k = "meta" => tool[k].got > Mine(k).level
  BY DEF ToolsInv, MetaGains
<1>. DEFINE t1 == MetaText(k)
<1>6. t1 \in ListEntry /\ t1.marked = Mine(k).marked /\ t1.level = tool[k].got
  BY <1>1, <1>2 DEF MetaText, ListEntry
<1>7. TvText(k) \in ListEntry /\ TvText(k).marked = Mine(k).marked
  BY <1>1, <1>2 DEF TvText, ListEntry
<1>8. NewTitle(k) \in ListEntry /\ NewTitle(k).marked = old.marked
  BY <1>1, <1>2 DEF NewTitle, ListEntry
<1>9. NewText(k) \in ListEntry
  BY <1>1, <1>2 DEF NewText, ListEntry
<1>. HIDE DEF t1, old
<1>10. [t1 EXCEPT !.title = "clean"] \in ListEntry /\ [t1 EXCEPT !.title = "clean"].marked = Mine(k).marked
       /\ [t1 EXCEPT !.title = "clean"].level = tool[k].got
  BY <1>6 DEF ListEntry
<1>11. CASE k = "meta"
  <2>1. text \in {t1, [t1 EXCEPT !.title = "clean"]}
    BY <1>11 DEF Texts, t1
  <2>2. text \in ListEntry /\ text.marked = Mine(k).marked /\ text.level = tool[k].got
    BY <1>6, <1>10, <2>1
  <2>. QED  BY <1>4, <1>5, <1>11, <2>2
<1>12. CASE k = "tv"
  <2>1. text = TvText(k)
    BY <1>12 DEF Texts
  <2>. QED  BY <1>4, <1>7, <1>12, <2>1
<1>13. CASE k = "titles"
  <2>1. text = NewTitle(k)
    BY <1>13 DEF Texts
  <2>. QED  BY <1>3, <1>8, <1>13, <2>1
<1>14. CASE k \notin {"meta", "tv", "titles"}
  <2>1. k = "writer"
    BY <1>14, CmsToolsAssumption
  <2>2. text \in {NewTitle(k), NewText(k)}
    BY <1>14 DEF Texts
  <2>. QED  BY <1>8, <1>9, <2>1, <2>2
<1>. QED  BY <1>11, <1>12, <1>13, <1>14

\* A step that rewrites the entry a tool is at.
LEMMA WritesEntry ==
  ASSUME ToolsInv, NEW k \in Tools, NEW e \in ToolStates, tool' = [tool EXCEPT ![k] = e], NEW i \in Videos,
         NEW text \in ListEntry, entries' = [entries EXCEPT ![i] = text],
         scans' = scans, upsets' \in 0 .. MaxUpsets, lost \subseteq lost', lost' \subseteq Videos,
         sourced' \subseteq sourced, i \in sourced' => text.marked,
         e.pc # "idle" => e.todo # <<>>, e.pc # "put",
         \A n \in DOMAIN e.todo : Frank(e.todo[n], lost, sourced),
         tool[k].pc = "restore" => Mine(k).id = i,
         i \in lost' \/ text.owner = "uploader" \/ (e.pc = "restore" /\ Head(e.todo).id = i)
  PROVE  ToolsInv'
<1>. USE DEF ToolsInv
<1>1. tool' \in [Tools -> ToolStates] /\ tool'[k] = e /\ \A j \in Tools \ {k} : tool'[j] = tool[j]
  BY DEF ToolShape
<1>2. entries' \in [Videos -> ListEntry] /\ entries'[i] = text /\ \A j \in Videos \ {i} : entries'[j] = entries[j]
  BY DEF ToolShape
<1>3. ToolShape'
  BY <1>1, <1>2 DEF ToolShape
<1>4. AllFrank'
  BY <1>1 DEF AllFrank, Frank
<1>5. MetaGains'
  BY <1>1 DEF MetaGains, Mine
<1>6. OwnerComesBack'
  <2>. SUFFICES ASSUME NEW v \in Videos, v \notin lost'
               PROVE  entries'[v].owner = "uploader" \/ \E j \in Tools : tool'[j].pc = "restore" /\ Head(tool'[j].todo).id = v
    BY DEF OwnerComesBack, Mine
  <2>1. CASE v = i
    BY <1>1, <1>2, <2>1
  <2>2. CASE v # i
    BY <1>1, <1>2, <2>2 DEF OwnerComesBack, Mine
  <2>. QED  BY <2>1, <2>2
<1>7. SourceKept'
  BY <1>2, CmsToolsAssumption DEF SourceKept, ToolShape
<1>. QED  BY <1>3, <1>4, <1>5, <1>6, <1>7
LEMMA PutStep == ASSUME ToolsInv, NEW k \in Tools, Put(k) PROVE ToolsInv' /\ NeverPoorer
<1>. DEFINE i == Mine(k).id
<1>1. Mine(k) \in Notes /\ i \in Videos /\ tool[k] \in ToolStates /\ tool[k].pc = "put" /\ Mine(k) = Head(tool[k].todo)
      /\ tool[k].todo # <<>>
  BY MineType DEF Put, ToolsInv, ToolShape, Mine
<1>2. scans' = scans /\ scans \in 0 .. MaxScans /\ upsets \in 0 .. MaxUpsets /\ lost \subseteq Videos
  BY DEF Put, ToolsInv, ToolShape
<1>3. CASE Onward(k) /\ UNCHANGED <<entries, lost, upsets, sourced>>
  BY <1>1, <1>2, <1>3, OnwardStep
<1>4. CASE ~(Onward(k) /\ UNCHANGED <<entries, lost, upsets, sourced>>)
  <2>1. PICK text \in Texts(k) :
             /\ entries' = [entries EXCEPT ![i] = text]
             /\ sourced' = IF k = "writer" /\ ~text.marked THEN sourced \ {i} ELSE sourced
    BY <1>4 DEF Put
  <2>2. /\ text \in ListEntry /\ text.level \in 0 .. 2 /\ (text.marked \/ k = "writer" \/ i \notin sourced)
        /\ k = "meta" => text.level > Mine(k).level
    BY <1>1, TextsAre DEF ListEntry
  <2>3. sourced' \subseteq sourced /\ (i \in sourced' => text.marked)
    BY <2>1, <2>2
  <2>4. NeverPoorer
    <3>. SUFFICES ASSUME NEW v \in Videos, entries'[v].level < entries[v].level
                  PROVE  tool[k].pc = "put" /\ Mine(k).id = v /\ (k # "meta" \/ Mine(k).level # entries[v].level)
      BY DEF NeverPoorer
    <3>1. entries \in [Videos -> ListEntry] /\ entries[v].level \in 0 .. 2
      BY DEF ToolsInv, ToolShape, ListEntry
    <3>2. v = i
      BY <1>1, <2>1, <3>1
    <3>3. entries'[v] = text
      BY <1>1, <2>1, <3>1, <3>2
    <3>4. Mine(k).level \in 0 .. 2
      BY <1>1 DEF Notes
    <3>. QED  BY <1>1, <2>2, <3>1, <3>2, <3>3, <3>4
  <2>5. CASE ToolGoto(k, "restore", 0) /\ UNCHANGED <<lost, upsets>>
    <3>. DEFINE e == [[tool[k] EXCEPT !.pc = "restore"] EXCEPT !.got = 0]
    <3>. DEFINE d == [tool[k] EXCEPT !.pc = "restore"]
    <3>0. d \in ToolStates /\ d.pc = "restore" /\ d.todo = tool[k].todo /\ 0 \in 0 .. 2
      BY <1>1 DEF ToolStates
    <3>1. e \in ToolStates /\ e.pc = "restore" /\ e.todo = tool[k].todo
      <4>. HIDE DEF d
      <4>1. [d EXCEPT !.got = 0] \in ToolStates /\ [d EXCEPT !.got = 0].pc = "restore"
            /\ [d EXCEPT !.got = 0].todo = tool[k].todo
        BY <3>0 DEF ToolStates
      <4>. QED  BY <4>1 DEF d
    <3>2. tool' = [tool EXCEPT ![k] = e]
      BY <1>1, <2>5 DEF ToolGoto, ToolsInv, ToolShape
    <3>. HIDE DEF e
    <3>3. \A n \in DOMAIN e.todo : Frank(e.todo[n], lost, sourced)
      BY <3>1 DEF ToolsInv, AllFrank
    <3>4. Head(e.todo).id = i
      BY <1>1, <3>1
    <3>. HIDE DEF i
    <3>. QED  BY <1>1, <1>2, <2>1, <2>2, <2>3, <2>4, <2>5, <3>1, <3>2, <3>3, <3>4, WritesEntry
  <2>6. CASE Upset /\ Onward(k) /\ lost' = lost \cup {i}
    <3>1. PICK e \in ToolStates :
             /\ tool' = [tool EXCEPT ![k] = e] /\ (e.pc # "idle" => e.todo # <<>>) /\ e.pc \in {"idle", "look"}
             /\ \A n \in DOMAIN e.todo : n + 1 \in DOMAIN tool[k].todo /\ e.todo[n] = tool[k].todo[n + 1]
      BY <1>1, <2>6, OnwardIs DEF ToolsInv
    <3>2. \A n \in DOMAIN e.todo : Frank(e.todo[n], lost, sourced)
      BY <3>1 DEF ToolsInv, AllFrank
    <3>3. upsets' \in 0 .. MaxUpsets
      BY <1>2, <2>6, CmsToolsAssumption DEF Upset
    <3>4. lost' \subseteq Videos /\ lost \subseteq lost' /\ i \in lost'
      BY <1>1, <1>2, <2>6
    <3>. HIDE DEF i
    <3>. QED  BY <1>1, <1>2, <2>1, <2>2, <2>3, <2>4, <3>1, <3>2, <3>3, <3>4, WritesEntry
  <2>. QED  BY <1>4, <2>5, <2>6 DEF Put
<1>. QED  BY <1>3, <1>4

LEMMA RestoreStep == ASSUME ToolsInv, NEW k \in Tools, Restore(k) PROVE ToolsInv' /\ NeverPoorer
<1>. DEFINE i == Mine(k).id
<1>1. Mine(k) \in Notes /\ i \in Videos /\ tool[k] \in ToolStates /\ tool[k].pc = "restore" /\ Frank(Mine(k), lost, sourced)
  BY MineType DEF Restore, ToolsInv, ToolShape, AllFrank
<1>2. scans' = scans /\ scans \in 0 .. MaxScans /\ upsets \in 0 .. MaxUpsets /\ lost \subseteq Videos /\ sourced' = sourced
  BY DEF Restore, ToolsInv, ToolShape
<1>3. Onward(k)
  BY DEF Restore
<1>4. CASE entries' = [entries EXCEPT ![i].owner = Mine(k).owner] /\ UNCHANGED <<upsets, lost>>
  <2>. DEFINE old == entries[i]
              text == [old EXCEPT !.owner = Mine(k).owner]
  <2>1. old \in ListEntry /\ Mine(k).owner \in {"uploader", "bot"} /\ (i \in sourced => old.marked)
    BY <1>1 DEF ToolsInv, ToolShape, Notes, SourceKept
  <2>2. text \in ListEntry /\ text.level = old.level /\ text.marked = old.marked /\ text.owner = Mine(k).owner
    BY <2>1 DEF ListEntry
  <2>3. entries' = [entries EXCEPT ![i] = text]
    BY <1>1, <1>4 DEF ToolsInv, ToolShape
  <2>4. PICK e \in ToolStates :
             /\ tool' = [tool EXCEPT ![k] = e] /\ (e.pc # "idle" => e.todo # <<>>) /\ e.pc \in {"idle", "look"}
             /\ \A n \in DOMAIN e.todo : n + 1 \in DOMAIN tool[k].todo /\ e.todo[n] = tool[k].todo[n + 1]
    BY <1>1, <1>3, OnwardIs DEF ToolsInv
  <2>5. \A n \in DOMAIN e.todo : Frank(e.todo[n], lost, sourced)
    BY <2>4 DEF ToolsInv, AllFrank
  <2>6. NeverPoorer
    <3>1. \A v \in Videos : entries'[v].level = entries[v].level /\ entries[v].level \in 0 .. 2
      BY <1>1, <2>2, <2>3 DEF ToolsInv, ToolShape, ListEntry
    <3>. QED  BY <3>1 DEF NeverPoorer
  <2>7. i \in lost' \/ text.owner = "uploader"
    BY <1>1, <1>4, <2>2 DEF Frank
  <2>. HIDE DEF i, text, old
  <2>8. Mine(k).id = i /\ i \in Videos
    BY <1>1 DEF i
  <2>9. sourced' \subseteq sourced /\ (i \in sourced' => text.marked) /\ lost \subseteq lost' /\ lost' \subseteq Videos
        /\ upsets' \in 0 .. MaxUpsets /\ e.pc # "put"
    BY <1>2, <1>4, <2>1, <2>2, <2>4
  <2>. QED  BY <1>2, <2>2, <2>3, <2>4, <2>5, <2>6, <2>7, <2>8, <2>9, WritesEntry
<1>5. CASE Upset /\ lost' = lost \cup {i} /\ UNCHANGED entries
  <2>1. upsets' \in 0 .. MaxUpsets
    BY <1>2, <1>5, CmsToolsAssumption DEF Upset
  <2>. QED  BY <1>1, <1>2, <1>3, <1>5, <2>1, OnwardStep
<1>. QED  BY <1>4, <1>5 DEF Restore

LEMMA InterruptStep == ASSUME ToolsInv, NEW k \in Tools, Interrupt(k) PROVE ToolsInv' /\ NeverPoorer
<1>1. Mine(k).id \in Videos
  BY MineType DEF Interrupt, ToolsInv
<1>2. scans' \in 0 .. MaxScans /\ upsets' \in 0 .. MaxUpsets /\ lost' \subseteq Videos /\ lost \subseteq lost'
  <2>1. scans' \in 0 .. MaxScans
    BY DEF Interrupt, ToolsInv, ToolShape
  <2>2. upsets' \in 0 .. MaxUpsets
    BY CmsToolsAssumption DEF Interrupt, Upset, ToolsInv, ToolShape
  <2>3. lost' = lost \cup {Mine(k).id} \/ lost' = lost
    BY DEF Interrupt
  <2>4. lost \subseteq Videos
    BY DEF ToolsInv, ToolShape
  <2>. QED  BY <1>1, <2>1, <2>2, <2>3, <2>4
<1>3. \A n \in DOMAIN NoTool.todo : FALSE
  BY NoToolIs
<1>4. /\ tool' = [tool EXCEPT ![k] = NoTool] /\ UNCHANGED <<entries, sourced>>
      /\ tool[k].pc = "restore" => Mine(k).id \in lost'
  BY DEF Interrupt
<1>5. \A n \in DOMAIN NoTool.todo : Frank(NoTool.todo[n], lost', sourced')
  BY <1>3
<1>6. NoTool \in ToolStates /\ NoTool.pc = "idle"
  BY NoToolIs
<1>. QED  BY <1>2, <1>4, <1>5, <1>6, ToolTurns, ZenonT(30)

LEMMA UsersStep == ASSUME ToolsInv, NEW i \in Videos, Improve(i) \/ MarkSource(i) PROVE ToolsInv' /\ NeverPoorer
<1>. DEFINE old == entries[i]
<1>1. old \in ListEntry /\ tool' = tool /\ lost' = lost /\ scans' = scans /\ upsets' \in 0 .. MaxUpsets
  BY CmsToolsAssumption DEF Improve, MarkSource, Upset, ToolsInv, ToolShape
<1>2. PICK text \in ListEntry :
        /\ entries' = [entries EXCEPT ![i] = text] /\ text.owner = old.owner /\ ~(text.level < old.level)
        /\ (old.marked => text.marked) /\ (i \in sourced' \ sourced => text.marked)
  <2>1. CASE Improve(i)
    <3>1. [old EXCEPT !.level = 2] \in ListEntry /\ [old EXCEPT !.level = 2].level = 2 /\ old.level \in 0 .. 2
          /\ [old EXCEPT !.level = 2].owner = old.owner /\ [old EXCEPT !.level = 2].marked = old.marked
      BY <1>1 DEF ListEntry
    <3>2. entries' = [entries EXCEPT ![i] = [old EXCEPT !.level = 2]] /\ sourced' = sourced
      BY <2>1 DEF Improve, ToolsInv, ToolShape
    <3>. DEFINE new == [old EXCEPT !.level = 2]
    <3>3. new \in ListEntry /\ new.owner = old.owner /\ ~(new.level < old.level) /\ (old.marked => new.marked)
      BY <3>1
    <3>. HIDE DEF old, new
    <3>. QED  BY <3>2, <3>3 DEF new
  <2>2. CASE MarkSource(i)
    <3>1. [old EXCEPT !.marked = TRUE] \in ListEntry /\ [old EXCEPT !.marked = TRUE].level = old.level /\ old.level \in 0 .. 2
          /\ [old EXCEPT !.marked = TRUE].owner = old.owner /\ [old EXCEPT !.marked = TRUE].marked = TRUE
      BY <1>1 DEF ListEntry
    <3>2. entries' = [entries EXCEPT ![i] = [old EXCEPT !.marked = TRUE]]
      BY <2>2 DEF MarkSource, ToolsInv, ToolShape
    <3>. DEFINE new == [old EXCEPT !.marked = TRUE]
    <3>3. new \in ListEntry /\ new.owner = old.owner /\ ~(new.level < old.level) /\ new.marked
      BY <3>1
    <3>. HIDE DEF old, new
    <3>. QED  BY <3>2, <3>3 DEF new
  <2>. QED  BY <2>1, <2>2
<1>3. sourced' \subseteq sourced \cup {i} /\ (i \in sourced' \ sourced => \A k \in Tools : ~OnBench(k, i))
  BY DEF Improve, MarkSource
<1>4. entries' \in [Videos -> ListEntry] /\ entries'[i] = text /\ \A v \in Videos \ {i} : entries'[v] = entries[v]
  BY <1>2 DEF ToolsInv, ToolShape
<1>5. ToolShape'
  BY <1>1, <1>3, <1>4 DEF ToolsInv, ToolShape
<1>6. AllFrank'
  <2>. SUFFICES ASSUME NEW k \in Tools, NEW n \in DOMAIN tool[k].todo PROVE Frank(tool[k].todo[n], lost, sourced')
    BY <1>1 DEF AllFrank
  <2>1. Frank(tool[k].todo[n], lost, sourced)
    BY DEF ToolsInv, AllFrank
  <2>2. tool[k].todo[n].id # i \/ i \notin sourced' \/ i \in sourced
    BY <1>3 DEF OnBench
  <2>. QED  BY <1>3, <2>1, <2>2 DEF Frank
<1>7. MetaGains' /\ OwnerComesBack'
  BY <1>1, <1>2, <1>4 DEF ToolsInv, MetaGains, OwnerComesBack, Mine
<1>8. SourceKept'
  BY <1>2, <1>3, <1>4 DEF ToolsInv, SourceKept, ToolShape
<1>9. NeverPoorer
  <2>1. \A v \in Videos : ~(entries'[v].level < entries[v].level)
    BY <1>2, <1>4 DEF ToolsInv, ToolShape, ListEntry
  <2>. QED  BY <2>1 DEF NeverPoorer
<1>. QED  BY <1>5, <1>6, <1>7, <1>8, <1>9 DEF ToolsInv

LEMMA ToolsInductive == ToolsInv /\ [ToolsNext]_toolVars => ToolsInv' /\ [NeverPoorer]_toolVars
<1>. SUFFICES ASSUME ToolsInv, [ToolsNext]_toolVars PROVE ToolsInv' /\ [NeverPoorer]_toolVars
  OBVIOUS
<1>1. CASE UNCHANGED toolVars
  BY <1>1 DEF toolVars, ToolsInv, ToolShape, AllFrank, MetaGains, OwnerComesBack, SourceKept, Mine
<1>2. CASE ToolsNext
  BY <1>2, ScanStep, LookStep, PutStep, RestoreStep, InterruptStep, UsersStep DEF ToolsNext, ToolStep
<1>. QED  BY <1>1, <1>2

LEMMA ToolsInvSafe == ToolsInv => ToolsSafe
<1>1. ToolsInv => ToolsType
  BY DEF ToolsInv, ToolShape, ToolsType, ToolStates
<1>. QED  BY <1>1 DEF ToolsInv, ToolsSafe
-----------------------------------------------------------------------------
(***************************************************************************)
(* The mirror.  What is promised to stay hidden is hidden in both, and the *)
(* sync has read it so or will (Promise); what a sync met has its number,  *)
(* and, unless it failed or the list lost items, whatever row it has paged *)
(* past it has met or has in hand (Met); and while nothing else happens,   *)
(* what it is done with is as MediaCMS has it (Mirrored).                  *)
(***************************************************************************)
MirrorRows == [title : {"none", "a", "b"}, hidden : BOOLEAN, at : 0 .. MaxSyncs]
PageItems == [token : Tokens, title : {"a", "b"}]
TagMaps == UNION {[S -> BOOLEAN] : S \in SUBSET Tokens}
SyncPlaces == {"idle", "facets", "list", "row", "facet", "tags", "end"}
Syncs == [pc : SyncPlaces, no : 1 .. MaxSyncs, before : Nat, page : Nat \ {0}, todo : Seq(PageItems), seen : Nat,
          facets : TagMaps, tags : {"none", "hidden", "shown"}, errors : BOOLEAN, quiet : BOOLEAN,
          met : SUBSET Tokens, whole : BOOLEAN]
Admins == [pc : {"idle", "read", "put", "local", "push"}, op : {"none", "hide", "unhide", "edit", "delete"},
           token : Tokens \cup {"none"}, beside : BOOLEAN]

SyncShape ==
  /\ library \in Seq(Tokens) /\ IsInjective(library) /\ entry \in [Tokens -> [title : {"a", "b"}, hidden : BOOLEAN]]
  /\ mirror \in [Tokens -> MirrorRows] /\ \A t \in Tokens : mirror[t].at <= sync.no
  /\ sync \in Syncs /\ (sync.pc \in {"row", "facet", "tags"} <=> sync.todo # <<>>)
  /\ admin \in Admins /\ (admin.pc # "idle" => admin.token \in Tokens)
  /\ agreed \in BOOLEAN /\ promised \subseteq Tokens

Promise ==
  /\ \A t \in promised :
       /\ mirror[t].at # 0 /\ mirror[t].hidden /\ entry[t].hidden
       /\ sync.pc \notin {"idle", "facets"} /\ t \in DOMAIN sync.facets => sync.facets[t]
  /\ sync.pc = "tags" /\ Item \in promised => sync.tags = "hidden"
  /\ admin.pc \in {"read", "put"} =>
       /\ admin.token \notin promised
       /\ ~admin.beside => sync.pc = "idle" /\ mirror[admin.token].at # 0 /\ mirror[admin.token].hidden = (admin.op = "hide")

\* Paged past; still in hand.
Past(n) == n <= (sync.page - 1) * PageSize \/ sync.pc = "end"
InHand(t) == \E j \in DOMAIN sync.todo : sync.todo[j].token = t
Met ==
  /\ \A t \in sync.met : mirror[t].at \in {0, sync.no}
  /\ sync.pc \in {"facet", "tags"} => Item \in sync.met
  /\ sync.pc # "idle" /\ sync.whole /\ ~sync.errors =>
       \A n \in DOMAIN library : Past(n) => mirror[library[n]].at \in {0, sync.no} \/ InHand(library[n])

AsIs(t) == mirror[t].title = entry[t].title /\ mirror[t].hidden = entry[t].hidden
Mirrored ==
  sync.pc # "idle" /\ sync.quiet =>
    /\ \A t \in Tokens : mirror[t].at = sync.no => Listed(t)
    /\ \A j \in DOMAIN sync.todo : Listed(sync.todo[j].token) /\ sync.todo[j].title = entry[sync.todo[j].token].title
    /\ sync.pc # "facets" => \A t \in DOMAIN sync.facets : sync.facets[t] = entry[t].hidden
    /\ sync.pc \in {"facet", "tags"} => mirror[Item].at = sync.no /\ mirror[Item].title = entry[Item].title
    /\ sync.pc = "tags" => (sync.tags = "hidden") = entry[Item].hidden
    /\ sync.whole /\ ~sync.errors =>
         \A n \in DOMAIN library : Past(n) => (mirror[library[n]].at = sync.no /\ AsIs(library[n])) \/ InHand(library[n])

Agreeing == agreed => sync.pc = "idle" /\ \A t \in Tokens : (mirror[t].at # 0 <=> Listed(t)) /\ (mirror[t].at # 0 => AsIs(t))

SyncInv == SyncShape /\ Promise /\ Met /\ Mirrored /\ Agreeing

LEMMA NoSyncIs == <<>> \in TagMaps /\ DOMAIN <<>> = {} /\ <<>> \in Seq(PageItems)
<1>1. <<>> \in [{} -> BOOLEAN]
  OBVIOUS
<1>. QED  BY <1>1 DEF TagMaps

\* A sync that has read nothing.
LEMMA FreshSync ==
  ASSUME NEW pc \in SyncPlaces, NEW no \in 1 .. MaxSyncs, NEW before \in Nat, NEW facets \in TagMaps, NEW s,
         s = [pc |-> pc, no |-> no, before |-> before, page |-> 1, todo |-> <<>>, seen |-> 0, facets |-> facets,
              tags |-> "none", errors |-> FALSE, quiet |-> TRUE, met |-> {}, whole |-> TRUE]
  PROVE  s \in Syncs
BY NoSyncIs DEF Syncs

LEMMA SyncInitially == CatalogInit => SyncInv
<1>. SUFFICES ASSUME CatalogInit PROVE SyncInv
  OBVIOUS
<1>1. library \in Seq(Tokens) /\ IsInjective(library) /\ \A n \in DOMAIN library : library[n] \in Tokens
  BY CatalogSyncAssumption DEF CatalogInit
<1>2. \A t \in Tokens : entry[t] = [title |-> "a", hidden |-> FALSE]
                        /\ mirror[t] = IF Listed(t) THEN [title |-> "a", hidden |-> FALSE, at |-> 1] ELSE Absent
  BY DEF CatalogInit
<1>3. sync = [pc |-> "idle", no |-> 1, before |-> 0, page |-> 1, todo |-> <<>>, seen |-> 0, facets |-> <<>>,
              tags |-> "none", errors |-> FALSE, quiet |-> TRUE, met |-> {}, whole |-> TRUE]
  BY DEF CatalogInit, NoSync
<1>4. 1 \in 1 .. MaxSyncs /\ 0 \in 0 .. MaxSyncs
  BY CatalogSyncAssumption
<1>5. sync \in Syncs
  BY <1>3, <1>4, NoSyncIs, FreshSync DEF SyncPlaces
<1>6. \A t \in Tokens : mirror[t] \in MirrorRows /\ mirror[t].at <= 1
  <2>1. [title |-> "a", hidden |-> FALSE, at |-> 1] \in MirrorRows /\ Absent \in MirrorRows
        /\ Absent.at <= 1 /\ [title |-> "a", hidden |-> FALSE, at |-> 1].at <= 1
    BY <1>4 DEF MirrorRows, Absent
  <2>. QED  BY <1>2, <2>1
<1>7. mirror \in [Tokens -> MirrorRows] /\ entry \in [Tokens -> [title : {"a", "b"}, hidden : BOOLEAN]]
  BY <1>2, <1>6 DEF CatalogInit
<1>8. admin \in Admins /\ admin.pc = "idle" /\ agreed = TRUE /\ promised = {}
  BY DEF CatalogInit, NoAdmin, Admins
<1>9. SyncShape
  BY <1>1, <1>3, <1>5, <1>6, <1>7, <1>8 DEF SyncShape
<1>10. Promise /\ Met /\ Mirrored
  BY <1>3, <1>8 DEF Promise, Met, Mirrored
<1>11. Agreeing
  <2>1. \A t \in Tokens : (mirror[t].at # 0 <=> Listed(t)) /\ (mirror[t].at # 0 => AsIs(t))
    <3>. SUFFICES ASSUME NEW t \in Tokens PROVE (mirror[t].at # 0 <=> Listed(t)) /\ (mirror[t].at # 0 => AsIs(t))
      OBVIOUS
    <3>1. CASE Listed(t)
      <4>1. mirror[t] = [title |-> "a", hidden |-> FALSE, at |-> 1] /\ entry[t] = [title |-> "a", hidden |-> FALSE]
        BY <1>2, <3>1
      <4>2. mirror[t].title = entry[t].title /\ mirror[t].hidden = entry[t].hidden /\ mirror[t].at = 1
        BY <4>1
      <4>. QED  BY <3>1, <4>2 DEF AsIs
    <3>2. CASE ~Listed(t)
      BY <1>2, <3>2 DEF Absent
    <3>. QED  BY <3>1, <3>2
  <2>. QED  BY <1>3, <2>1 DEF Agreeing
<1>. QED  BY <1>9, <1>10, <1>11 DEF SyncInv

\* The list with one item less, and with one more.
LEMMA UnlistedType ==
  ASSUME library \in Seq(Tokens), IsInjective(library), NEW t, Listed(t)
  PROVE  Unlisted(t) \in Seq(Tokens) /\ IsInjective(Unlisted(t))
<1>. DEFINE k == CHOOSE n \in DOMAIN library : library[n] = t
<1>1. k \in 1 .. Len(library) /\ Unlisted(t) = SubSeq(library, 1, k - 1) \o SubSeq(library, k + 1, Len(library))
  BY DEF Listed, Unlisted, RemoveAt
<1>7. Len(library) \in Nat /\ DOMAIN library = 1 .. Len(library)
  OBVIOUS
<1>. HIDE DEF k
<1>8. k \in Nat /\ 1 <= k /\ k <= Len(library)
  BY <1>1, <1>7
<1>. DEFINE a == SubSeq(library, 1, k - 1)
            b == SubSeq(library, k + 1, Len(library))
<1>2. /\ a \in Seq(Tokens) /\ b \in Seq(Tokens) /\ Len(a) = k - 1 /\ Len(b) = Len(library) - k
      /\ \A n \in 1 .. k - 1 : a[n] = library[n]
      /\ \A n \in 1 .. Len(library) - k : b[n] = library[n + k]
  BY <1>1
<1>. HIDE DEF a, b
<1>3. a \o b \in Seq(Tokens) /\ DOMAIN (a \o b) = 1 .. Len(library) - 1
      /\ \A n \in DOMAIN (a \o b) : (a \o b)[n] = IF n < k THEN library[n] ELSE library[n + 1]
  <2>3. a \o b \in Seq(Tokens) /\ Len(a \o b) = Len(a) + Len(b)
        /\ \A n \in 1 .. Len(a) + Len(b) : (a \o b)[n] = IF n <= Len(a) THEN a[n] ELSE b[n - Len(a)]
    BY <1>2, ConcatProperties
  <2>4. Len(library) \in Nat /\ Len(a) + Len(b) = Len(library) - 1
    <3>1. Len(a) = k - 1 /\ Len(b) = Len(library) - k
      BY <1>2
    <3>. QED  BY <1>7, <1>8, <3>1
  <2>1. a \o b \in Seq(Tokens) /\ Len(a \o b) = Len(library) - 1 /\ Len(library) \in Nat
        /\ \A n \in 1 .. Len(a) + Len(b) : (a \o b)[n] = IF n <= Len(a) THEN a[n] ELSE b[n - Len(a)]
    BY <2>3, <2>4
  <2>2. DOMAIN (a \o b) = 1 .. Len(library) - 1
    BY <2>1
  <2>. QED  BY <1>1, <1>2, <2>1, <2>2, SMTT(30)
<1>. DEFINE c == a \o b
<1>6. c \in Seq(Tokens) /\ DOMAIN c = 1 .. Len(library) - 1 /\ \A n \in DOMAIN c : c[n] = IF n < k THEN library[n] ELSE library[n + 1]
  BY <1>3
<1>. HIDE DEF c
<1>4. \A m, n \in DOMAIN library : library[m] = library[n] => m = n
  BY DEF IsInjective
<1>5. \A m, n \in DOMAIN c : c[m] = c[n] => m = n
  <2>. SUFFICES ASSUME NEW m \in DOMAIN c, NEW n \in DOMAIN c, c[m] = c[n] PROVE m = n
    OBVIOUS
  <2>. DEFINE p == IF m < k THEN m ELSE m + 1
              q == IF n < k THEN n ELSE n + 1
  <2>1. p \in DOMAIN library /\ library[p] = c[m]
    BY <1>1, <1>6, <1>7
  <2>2. q \in DOMAIN library /\ library[q] = c[n]
    BY <1>1, <1>6, <1>7
  <2>3. p = q
    BY <1>4, <2>1, <2>2
  <2>. QED  BY <1>1, <1>6, <1>7, <2>3
<1>. QED  BY <1>1, <1>6, <1>5 DEF IsInjective, a, b, c

LEMMA UploadType ==
  ASSUME library \in Seq(Tokens), IsInjective(library), NEW t \in Tokens, ~Listed(t)
  PROVE  /\ <<t>> \o library \in Seq(Tokens) /\ IsInjective(<<t>> \o library)
         /\ \A n \in DOMAIN (<<t>> \o library) :
              (<<t>> \o library)[n] = t \/ (n - 1 \in DOMAIN library /\ (<<t>> \o library)[n] = library[n - 1])
<1>. DEFINE l == <<t>> \o library
<1>1. l \in Seq(Tokens) /\ DOMAIN l = 1 .. Len(library) + 1 /\ DOMAIN library = 1 .. Len(library) /\ Len(library) \in Nat
      /\ \A n \in DOMAIN l : l[n] = IF n = 1 THEN t ELSE library[n - 1]
  OBVIOUS
<1>. HIDE DEF l
<1>2. \A m, n \in DOMAIN library : library[m] = library[n] => m = n
  BY DEF IsInjective
<1>3. \A n \in DOMAIN library : library[n] # t
  BY DEF Listed
<1>4. \A n \in DOMAIN l : l[n] = t \/ (n - 1 \in DOMAIN library /\ l[n] = library[n - 1])
  BY <1>1
<1>5. \A m, n \in DOMAIN l : l[m] = l[n] => m = n
  BY <1>1, <1>2, <1>3
<1>. QED  BY <1>1, <1>4, <1>5 DEF l, IsInjective

\* What is in hand after an item is one item less.
LEMMA NextItemIs ==
  ASSUME NEW s \in Syncs, s.todo # <<>>
  PROVE  /\ NextItem(s) \in Syncs /\ NextItem(s).tags = "none" /\ NextItem(s).pc \in {"row", "list"}
         /\ NextItem(s).pc = "row" <=> NextItem(s).todo # <<>>
         /\ NextItem(s).no = s.no /\ NextItem(s).page = s.page /\ NextItem(s).facets = s.facets
         /\ NextItem(s).errors = s.errors /\ NextItem(s).quiet = s.quiet /\ NextItem(s).met = s.met /\ NextItem(s).whole = s.whole
         /\ NextItem(s).todo = Tail(s.todo) /\ Head(s.todo) = s.todo[1] /\ 1 \in DOMAIN s.todo
         /\ \A j \in DOMAIN Tail(s.todo) : j + 1 \in DOMAIN s.todo /\ Tail(s.todo)[j] = s.todo[j + 1]
         /\ \A j \in DOMAIN s.todo : j = 1 \/ (j - 1 \in DOMAIN Tail(s.todo) /\ Tail(s.todo)[j - 1] = s.todo[j])
<1>. DEFINE all == s.todo
            rest == Tail(all)
            pc == IF Len(all) > 1 THEN "row" ELSE "list"
<1>1. all \in Seq(PageItems) /\ all # <<>>
  BY DEF Syncs
<1>2. rest \in Seq(PageItems) /\ DOMAIN all = 1 .. Len(all) /\ Len(all) \in Nat \ {0} /\ Head(all) = all[1]
      /\ Len(rest) = Len(all) - 1 /\ DOMAIN rest = 1 .. Len(rest) /\ \A j \in 1 .. Len(rest) : rest[j] = all[j + 1]
  <2>. HIDE DEF all
  <2>1. Len(all) \in Nat \ {0} /\ Head(all) = all[1] /\ DOMAIN all = 1 .. Len(all)
    BY <1>1
  <2>2. rest \in Seq(PageItems) /\ Len(rest) = Len(all) - 1 /\ \A j \in 1 .. Len(rest) : rest[j] = all[j + 1]
    BY <1>1
  <2>3. DOMAIN rest = 1 .. Len(rest)
    BY <2>2
  <2>. QED  BY <2>1, <2>2, <2>3
<1>. HIDE DEF rest
<1>3. (pc = "row" <=> rest # <<>>) /\ pc \in SyncPlaces /\ pc \in {"row", "list"}
  BY <1>2 DEF SyncPlaces
<1>. DEFINE s1 == [s EXCEPT !.todo = rest]
            s2 == [s1 EXCEPT !.tags = "none"]
            s3 == [s2 EXCEPT !.pc = pc]
<1>4. NextItem(s) = s3
  BY DEF NextItem, Syncs, rest
<1>. HIDE DEF pc
<1>5. s1 \in Syncs /\ s1.todo = rest /\ s1.no = s.no /\ s1.page = s.page /\ s1.facets = s.facets /\ s1.errors = s.errors
      /\ s1.quiet = s.quiet /\ s1.met = s.met /\ s1.whole = s.whole
  BY <1>2 DEF Syncs
<1>. HIDE DEF s1
<1>6. s2 \in Syncs /\ s2.todo = rest /\ s2.no = s.no /\ s2.page = s.page /\ s2.facets = s.facets /\ s2.errors = s.errors
      /\ s2.quiet = s.quiet /\ s2.met = s.met /\ s2.whole = s.whole /\ s2.tags = "none"
  BY <1>5 DEF Syncs
<1>. HIDE DEF s2
<1>7. s3 \in Syncs /\ s3.todo = rest /\ s3.no = s.no /\ s3.page = s.page /\ s3.facets = s.facets /\ s3.errors = s.errors
      /\ s3.quiet = s.quiet /\ s3.met = s.met /\ s3.whole = s.whole /\ s3.tags = "none" /\ s3.pc = pc
  BY <1>3, <1>6 DEF Syncs
<1>. HIDE DEF s3
<1>8. \A j \in DOMAIN rest : j + 1 \in DOMAIN all /\ rest[j] = all[j + 1]
  BY <1>2
<1>9. \A j \in DOMAIN all : j = 1 \/ (j - 1 \in DOMAIN rest /\ rest[j - 1] = all[j])
  BY <1>2
<1>10. 1 \in DOMAIN all
  BY <1>2
<1>11. rest = Tail(s.todo)
  BY DEF rest
<1>. QED  BY <1>2, <1>3, <1>4, <1>7, <1>8, <1>9, <1>10, <1>11

\* Of a sync beside which something happened: where it is and what it has.
Alike(s) ==
  /\ s \in Syncs /\ s.pc = sync.pc /\ s.no = sync.no /\ s.page = sync.page /\ s.todo = sync.todo /\ s.facets = sync.facets
  /\ s.tags = sync.tags /\ s.errors = sync.errors /\ s.met = sync.met

LEMMA DisturbedIs ==
  ASSUME SyncShape
  PROVE  /\ Alike([sync EXCEPT !.quiet = FALSE]) /\ [sync EXCEPT !.quiet = FALSE].quiet = FALSE
         /\ [sync EXCEPT !.quiet = FALSE].whole = sync.whole
         /\ Alike([sync EXCEPT !.quiet = FALSE, !.whole = FALSE]) /\ [sync EXCEPT !.quiet = FALSE, !.whole = FALSE].quiet = FALSE
         /\ [sync EXCEPT !.quiet = FALSE, !.whole = FALSE].whole = FALSE
<1>1. sync \in Syncs
  BY DEF SyncShape
<1>. DEFINE s == [sync EXCEPT !.quiet = FALSE]
            z == [s EXCEPT !.whole = FALSE]
<1>2. Alike(s) /\ s.quiet = FALSE /\ s.whole = sync.whole
  BY <1>1 DEF Syncs, Alike
<1>3. [sync EXCEPT !.quiet = FALSE, !.whole = FALSE] = z
  BY <1>1 DEF Syncs
<1>. HIDE DEF s
<1>4. Alike(z) /\ z.quiet = FALSE /\ z.whole = FALSE
  BY <1>1, <1>2 DEF Syncs, Alike
<1>. QED  BY <1>2, <1>3, <1>4 DEF s

\* Whatever else happens to the list, the rows and the request.
LEMMA Disturbs ==
  ASSUME SyncInv, Alike(sync'), sync'.quiet = FALSE, sync'.whole => sync.whole, agreed' = FALSE,
         library' \in Seq(Tokens), IsInjective(library'), entry' \in [Tokens -> [title : {"a", "b"}, hidden : BOOLEAN]],
         mirror' \in [Tokens -> MirrorRows], \A t \in Tokens : mirror'[t].at \in {0, mirror[t].at},
         admin' \in Admins, admin'.pc # "idle" => admin'.token \in Tokens,
         sync'.whole => \A n \in DOMAIN library' : mirror'[library'[n]].at = 0
                           \/ \E m \in DOMAIN library : m <= n /\ library[m] = library'[n],
         promised' \subseteq Tokens, \A t \in promised' : mirror'[t].at # 0 /\ mirror'[t].hidden /\ entry'[t].hidden,
         \A t \in promised' : t \in promised \/ sync.pc = "idle",
         admin'.pc \in {"read", "put"} =>
           /\ admin'.token \notin promised'
           /\ ~admin'.beside => sync.pc = "idle" /\ mirror'[admin'.token].at # 0
                                 /\ mirror'[admin'.token].hidden = (admin'.op = "hide")
  PROVE  SyncInv'
<1>1. /\ sync' \in Syncs /\ sync'.pc = sync.pc /\ sync'.no = sync.no /\ sync'.page = sync.page /\ sync'.todo = sync.todo
      /\ sync'.facets = sync.facets /\ sync'.tags = sync.tags /\ sync'.errors = sync.errors /\ sync'.met = sync.met
  BY DEF Alike
<1>2. /\ sync.page \in Nat \ {0} /\ sync.no \in Nat /\ sync.met \subseteq Tokens /\ library \in Seq(Tokens)
      /\ \A t \in Tokens : mirror[t].at \in Nat /\ mirror[t].at <= sync.no
  BY DEF SyncInv, SyncShape, Syncs, MirrorRows
<1>3. SyncShape'
  <2>1. \A t \in Tokens : mirror'[t].at <= sync'.no
    BY <1>1, <1>2
  <2>2. sync'.pc \in {"row", "facet", "tags"} <=> sync'.todo # <<>>
    BY <1>1 DEF SyncInv, SyncShape
  <2>3. promised' \subseteq Tokens
    BY DEF SyncInv, SyncShape
  <2>. QED  BY <1>1, <2>1, <2>2, <2>3 DEF SyncShape
<1>4. Promise'
  <2>1. \A t \in promised' : sync'.pc \notin {"idle", "facets"} /\ t \in DOMAIN sync'.facets => sync'.facets[t]
    BY <1>1 DEF SyncInv, Promise
  <2>2. sync'.pc = "tags" /\ Item' \in promised' => sync'.tags = "hidden"
    BY <1>1 DEF SyncInv, Promise, Item
  <2>. QED  BY <1>1, <2>1, <2>2 DEF Promise
<1>5. Met'
  <2>1. \A t \in sync'.met : mirror'[t].at \in {0, sync'.no}
    BY <1>1, <1>2 DEF SyncInv, Met
  <2>2. sync'.pc \in {"facet", "tags"} => Item' \in sync'.met
    BY <1>1 DEF SyncInv, Met, Item
  <2>3. ASSUME sync'.pc # "idle", sync'.whole, ~sync'.errors, NEW n \in DOMAIN library', Past(n)'
        PROVE  mirror'[library'[n]].at \in {0, sync'.no} \/ \E j \in DOMAIN sync'.todo : sync'.todo[j].token = library'[n]
    <3>. DEFINE t == library'[n]
    <3>1. t \in Tokens /\ n \in Nat
      OBVIOUS
    <3>2. CASE mirror'[t].at = 0
      BY <3>2
    <3>3. ASSUME NEW m \in DOMAIN library, m <= n, library[m] = t
          PROVE  mirror'[t].at \in {0, sync'.no} \/ \E j \in DOMAIN sync'.todo : sync'.todo[j].token = t
      <4>1. m \in Nat /\ PageSize \in Nat /\ (sync.page - 1) * PageSize \in Int
        BY <1>2, CatalogSyncAssumption
      <4>2. Past(m)
        BY <1>1, <2>3, <3>1, <3>3, <4>1 DEF Past
      <4>3. mirror[t].at \in {0, sync.no} \/ InHand(t)
        BY <1>1, <2>3, <3>3, <4>2 DEF SyncInv, Met
      <4>. QED  BY <1>1, <3>1, <4>3 DEF InHand
    <3>. QED  BY <2>3, <3>2, <3>3
  <2>. QED  BY <2>1, <2>2, <2>3 DEF Met, InHand
<1>6. Mirrored' /\ Agreeing'
  BY DEF Mirrored, Agreeing
<1>. QED  BY <1>3, <1>4, <1>5, <1>6 DEF SyncInv

LEMMA UploadStep == ASSUME SyncInv, NEW t \in Tokens, Upload(t) PROVE SyncInv'
<1>1. library' \in Seq(Tokens) /\ IsInjective(library')
      /\ \A n \in DOMAIN library' : library'[n] = t \/ (n - 1 \in DOMAIN library /\ library'[n] = library[n - 1])
  BY UploadType DEF Upload, SyncInv, SyncShape
<1>2. \A n \in DOMAIN library' : mirror[library'[n]].at = 0 \/ \E m \in DOMAIN library : m <= n /\ library[m] = library'[n]
  <2>. SUFFICES ASSUME NEW n \in DOMAIN library', library'[n] # t
                PROVE  \E m \in DOMAIN library : m <= n /\ library[m] = library'[n]
    BY DEF Upload, Rows
  <2>1. n - 1 <= n
    BY <1>1
  <2>. QED  BY <1>1, <2>1
<1>3. Alike(sync') /\ sync'.quiet = FALSE /\ sync'.whole = sync.whole /\ agreed' = FALSE
  BY DisturbedIs DEF Upload, Disturbed, SyncInv
<1>4. entry' = entry /\ mirror' = mirror /\ admin' = admin /\ promised' = promised
  BY DEF Upload
<1>. QED  BY <1>1, <1>2, <1>3, <1>4, Disturbs DEF SyncInv, SyncShape, Promise

LEMMA WithdrawStep == ASSUME SyncInv, NEW t \in Tokens, Withdraw(t) PROVE SyncInv'
<1>1. library' \in Seq(Tokens) /\ IsInjective(library')
  BY UnlistedType DEF Withdraw, SyncInv, SyncShape
<1>2. Alike(sync') /\ sync'.quiet = FALSE /\ sync'.whole = FALSE /\ agreed' = FALSE
  BY DisturbedIs DEF Withdraw, SyncInv
<1>3. entry' = entry /\ mirror' = mirror /\ admin' = admin /\ promised' = promised \ {t}
  BY DEF Withdraw
<1>. QED  BY <1>1, <1>2, <1>3, Disturbs DEF SyncInv, SyncShape, Promise

\* A step that leaves the list alone.
LEMMA Unlists ==
  ASSUME SyncInv, Disturbed, library' = library, entry' \in [Tokens -> [title : {"a", "b"}, hidden : BOOLEAN]],
         mirror' \in [Tokens -> MirrorRows], \A t \in Tokens : mirror'[t].at \in {0, mirror[t].at},
         admin' \in Admins, admin'.pc # "idle" => admin'.token \in Tokens,
         promised' \subseteq Tokens, \A t \in promised' : mirror'[t].at # 0 /\ mirror'[t].hidden /\ entry'[t].hidden,
         \A t \in promised' : t \in promised \/ sync.pc = "idle",
         admin'.pc \in {"read", "put"} =>
           /\ admin'.token \notin promised'
           /\ ~admin'.beside => sync.pc = "idle" /\ mirror'[admin'.token].at # 0
                                 /\ mirror'[admin'.token].hidden = (admin'.op = "hide")
  PROVE  SyncInv'
<1>1. Alike(sync') /\ sync'.quiet = FALSE /\ sync'.whole = sync.whole /\ agreed' = FALSE
  BY DisturbedIs DEF Disturbed, SyncInv
<1>2. library' \in Seq(Tokens) /\ IsInjective(library') /\ \A n \in DOMAIN library' : n <= n /\ library[n] = library'[n]
  BY DEF SyncInv, SyncShape
<1>. QED  BY <1>1, <1>2, Disturbs

LEMMA RetitleStep == ASSUME SyncInv, NEW t \in Tokens, Retitle(t) PROVE SyncInv'
<1>1. entry[t] \in [title : {"a", "b"}, hidden : BOOLEAN]
  BY DEF SyncInv, SyncShape
<1>2. [entry[t] EXCEPT !.title = "b"] \in [title : {"a", "b"}, hidden : BOOLEAN]
      /\ [entry[t] EXCEPT !.title = "b"].hidden = entry[t].hidden
  BY <1>1
<1>3. entry' = [entry EXCEPT ![t] = [entry[t] EXCEPT !.title = "b"]]
  BY DEF Retitle, SyncInv, SyncShape
<1>4. entry' \in [Tokens -> [title : {"a", "b"}, hidden : BOOLEAN]] /\ \A u \in Tokens : entry'[u].hidden = entry[u].hidden
  BY <1>2, <1>3 DEF SyncInv, SyncShape
<1>5. Disturbed /\ library' = library /\ mirror' = mirror /\ admin' = admin /\ promised' = promised
  BY DEF Retitle
<1>. QED  BY <1>4, <1>5, Unlists DEF SyncInv, SyncShape, Promise

LEMMA PushStep == ASSUME SyncInv, Push PROVE SyncInv'
<1>. DEFINE t == admin.token
<1>1. t \in Tokens /\ entry[t] \in [title : {"a", "b"}, hidden : BOOLEAN]
  BY DEF Push, SyncInv, SyncShape
<1>2. [entry[t] EXCEPT !.title = "b"] \in [title : {"a", "b"}, hidden : BOOLEAN]
      /\ [entry[t] EXCEPT !.title = "b"].hidden = entry[t].hidden
  BY <1>1
<1>3. entry' = entry \/ entry' = [entry EXCEPT ![t] = [entry[t] EXCEPT !.title = "b"]]
  BY DEF Push, SyncInv, SyncShape
<1>4. entry' \in [Tokens -> [title : {"a", "b"}, hidden : BOOLEAN]] /\ \A u \in Tokens : entry'[u].hidden = entry[u].hidden
  BY <1>1, <1>2, <1>3, ZenonT(30) DEF SyncInv, SyncShape
<1>5. Disturbed /\ library' = library /\ mirror' = mirror /\ promised' = promised
  BY DEF Push
<1>6. admin' \in Admins /\ admin'.pc = "idle"
  BY DEF Push, AdminRests, NoAdmin, Admins
<1>. QED  BY <1>4, <1>5, <1>6, Unlists DEF SyncInv, SyncShape, Promise

\* A row with another title, another mark, or none.
LEMMA RowTypes ==
  ASSUME NEW row \in MirrorRows, NEW hide \in BOOLEAN
  PROVE  /\ [row EXCEPT !.title = "b"] \in MirrorRows /\ [row EXCEPT !.title = "b"].at = row.at
         /\ [row EXCEPT !.title = "b"].hidden = row.hidden
         /\ [row EXCEPT !.hidden = hide] \in MirrorRows /\ [row EXCEPT !.hidden = hide].at = row.at
         /\ [row EXCEPT !.hidden = hide].hidden = hide /\ [row EXCEPT !.hidden = hide].title = row.title
         /\ Absent \in MirrorRows /\ Absent.at = 0
<1>1. 0 \in 0 .. MaxSyncs
  BY CatalogSyncAssumption
<1>. QED  BY <1>1 DEF MirrorRows, Absent

LEMMA EditStep == ASSUME SyncInv, NEW t \in Tokens, Edit(t) PROVE SyncInv'
<1>. DEFINE row == [mirror[t] EXCEPT !.title = "b"]
<1>1. row \in MirrorRows /\ row.at = mirror[t].at /\ row.hidden = mirror[t].hidden
  BY RowTypes DEF SyncInv, SyncShape
<1>2. mirror' = [mirror EXCEPT ![t] = row]
  BY DEF Edit, SyncInv, SyncShape
<1>. HIDE DEF row
<1>3. mirror' \in [Tokens -> MirrorRows]
      /\ \A u \in Tokens : mirror'[u].at = mirror[u].at /\ mirror'[u].hidden = mirror[u].hidden
  BY <1>1, <1>2 DEF SyncInv, SyncShape
<1>4. NoAdmin \in Admins /\ NoAdmin.pc = "idle"
  BY DEF NoAdmin, Admins
<1>6. [pc |-> "push", op |-> "edit", token |-> t, beside |-> FALSE] \in Admins
  BY DEF Admins
<1>7. admin' \in Admins /\ admin'.pc \in {"idle", "push"} /\ (admin'.pc # "idle" => admin'.token \in Tokens)
  <2>1. admin' = NoAdmin \/ admin' = [pc |-> "push", op |-> "edit", token |-> t, beside |-> FALSE]
    BY DEF Edit
  <2>2. [pc |-> "push", op |-> "edit", token |-> t, beside |-> FALSE].pc = "push"
        /\ [pc |-> "push", op |-> "edit", token |-> t, beside |-> FALSE].token = t
    OBVIOUS
  <2>. QED  BY <1>4, <1>6, <2>1, <2>2
<1>8. Disturbed /\ library' = library /\ entry' = entry /\ promised' = promised
  BY DEF Edit
<1>. QED  BY <1>3, <1>7, <1>8, Unlists DEF SyncInv, SyncShape, Promise

LEMMA HideStep == ASSUME SyncInv, NEW t \in Tokens, NEW op \in {"hide", "unhide"}, Hide(t, op) PROVE SyncInv'
<1>1. PICK hide \in BOOLEAN, beside \in BOOLEAN : (hide <=> op = "hide") /\ (beside <=> sync.pc # "idle")
  <2>1. (op = "hide") \in BOOLEAN /\ (sync.pc # "idle") \in BOOLEAN
    OBVIOUS
  <2>. QED  BY <2>1, Zenon
<1>. DEFINE row == [mirror[t] EXCEPT !.hidden = hide]
<1>2. mirror' = [mirror EXCEPT ![t] = row]
  BY <1>1 DEF Hide, SyncInv, SyncShape
<1>3. admin' = [pc |-> "read", op |-> op, token |-> t, beside |-> beside]
  BY <1>1 DEF Hide
<1>4. row \in MirrorRows /\ row.at = mirror[t].at /\ row.hidden = hide
  <2>1. mirror[t] \in MirrorRows /\ hide \in BOOLEAN
    BY DEF SyncInv, SyncShape
  <2>. QED  BY <2>1 DEF MirrorRows
<1>. HIDE DEF row
<1>5. mirror' \in [Tokens -> MirrorRows] /\ mirror'[t].hidden = hide
      /\ \A u \in Tokens : mirror'[u].at = mirror[u].at /\ (u # t => mirror'[u].hidden = mirror[u].hidden)
  BY <1>2, <1>4 DEF SyncInv, SyncShape
<1>6. admin' \in Admins /\ admin'.token = t /\ admin'.op = op /\ admin'.beside = beside
  BY <1>1, <1>3 DEF Admins
<1>7. Disturbed /\ library' = library /\ entry' = entry /\ promised' = promised \ {t} /\ mirror[t].at # 0
  BY DEF Hide, Rows
<1>8. \A u \in promised' : mirror'[u].at # 0 /\ mirror'[u].hidden /\ entry'[u].hidden
  BY <1>5, <1>7 DEF SyncInv, SyncShape, Promise
<1>9. ~admin'.beside => sync.pc = "idle" /\ mirror'[admin'.token].at # 0 /\ mirror'[admin'.token].hidden = (admin'.op = "hide")
  BY <1>1, <1>5, <1>6, <1>7
<1>. QED  BY <1>5, <1>6, <1>7, <1>8, <1>9, Unlists DEF SyncInv, SyncShape

LEMMA DeleteStep == ASSUME SyncInv, NEW t \in Tokens, Delete(t) PROVE SyncInv'
<1>2. admin' \in Admins /\ admin'.pc = "local" /\ admin'.token = t
  BY DEF Delete, Admins
<1>3. entry' = entry /\ mirror' = mirror /\ promised' = promised \ {t} /\ agreed' = FALSE
  BY DEF Delete
<1>4. CASE library' = library /\ sync' = [sync EXCEPT !.quiet = FALSE]
  BY <1>2, <1>3, <1>4, Unlists DEF SyncInv, SyncShape, Promise, Disturbed
<1>5. CASE Listed(t) /\ library' = Unlisted(t) /\ sync' = [sync EXCEPT !.quiet = FALSE, !.whole = FALSE]
  <2>1. library' \in Seq(Tokens) /\ IsInjective(library')
    BY <1>5, UnlistedType DEF SyncInv, SyncShape
  <2>2. Alike(sync') /\ sync'.quiet = FALSE /\ sync'.whole = FALSE
    BY <1>5, DisturbedIs DEF SyncInv
  <2>. QED  BY <1>2, <1>3, <2>1, <2>2, Disturbs DEF SyncInv, SyncShape, Promise
<1>. QED  BY <1>4, <1>5 DEF Delete

LEMMA DeleteRowStep == ASSUME SyncInv, DeleteRow PROVE SyncInv'
<1>. DEFINE t == admin.token
<1>1. t \in Tokens /\ mirror[t] \in MirrorRows
  BY DEF DeleteRow, SyncInv, SyncShape
<1>2. Absent \in MirrorRows /\ Absent.at = 0
  BY <1>1, RowTypes
<1>3. mirror' \in [Tokens -> MirrorRows] /\ mirror'[t].at = 0 /\ \A u \in Tokens \ {t} : mirror'[u] = mirror[u]
  BY <1>1, <1>2 DEF DeleteRow, SyncInv, SyncShape
<1>4. admin' \in Admins /\ admin'.pc = "idle"
  BY DEF DeleteRow, AdminRests, NoAdmin, Admins
<1>5. Disturbed /\ library' = library /\ entry' = entry /\ promised' = promised \ {t}
  BY DEF DeleteRow
<1>. QED  BY <1>3, <1>4, <1>5, Unlists DEF SyncInv, SyncShape, Promise

LEMMA PutTagsStep == ASSUME SyncInv, PutTags PROVE SyncInv'
<1>. DEFINE t == admin.token
<1>1. t \in Tokens /\ t \notin promised /\ entry[t] \in [title : {"a", "b"}, hidden : BOOLEAN]
  BY DEF PutTags, SyncInv, SyncShape, Promise
<1>2. admin' \in Admins /\ admin'.pc = "idle"
  BY DEF PutTags, AdminRests, NoAdmin, Admins
<1>3. Disturbed /\ library' = library /\ mirror' = mirror
  BY DEF PutTags
<1>4. CASE UNCHANGED <<entry, promised>>
  BY <1>2, <1>3, <1>4, Unlists DEF SyncInv, SyncShape, Promise
<1>5. CASE ~(UNCHANGED <<entry, promised>>)
  <2>1. PICK hide \in BOOLEAN : hide <=> admin.op = "hide"
    <3>1. (admin.op = "hide") \in BOOLEAN
      OBVIOUS
    <3>. QED  BY <3>1, Zenon
  <2>2. entry' = [entry EXCEPT ![t] = [entry[t] EXCEPT !.hidden = hide]]
    BY <1>5, <2>1 DEF PutTags, SyncInv, SyncShape
  <2>3. [entry[t] EXCEPT !.hidden = hide] \in [title : {"a", "b"}, hidden : BOOLEAN]
        /\ [entry[t] EXCEPT !.hidden = hide].hidden = hide
    <3>1. hide \in BOOLEAN
      OBVIOUS
    <3>. QED  BY <1>1, <3>1
  <2>4. entry' \in [Tokens -> [title : {"a", "b"}, hidden : BOOLEAN]] /\ entry'[t].hidden = hide
        /\ \A u \in Tokens \ {t} : entry'[u] = entry[u]
    BY <1>1, <2>2, <2>3 DEF SyncInv, SyncShape
  <2>5. promised' = promised \/ (promised' = promised \cup {t} /\ hide /\ ~admin.beside)
    BY <1>5, <2>1 DEF PutTags
  <2>6. ~admin.beside => sync.pc = "idle" /\ mirror[t].at # 0 /\ mirror[t].hidden = (admin.op = "hide")
    BY DEF PutTags, SyncInv, Promise
  <2>7. \A u \in promised' : mirror'[u].at # 0 /\ mirror'[u].hidden /\ entry'[u].hidden /\ (u \in promised \/ sync.pc = "idle")
    <3>1. \A u \in promised : mirror[u].at # 0 /\ mirror[u].hidden /\ entry'[u].hidden
      BY <1>1, <2>4 DEF SyncInv, SyncShape, Promise
    <3>2. CASE promised' = promised
      BY <1>3, <3>1, <3>2
    <3>3. CASE promised' = promised \cup {t} /\ hide /\ ~admin.beside
      BY <1>3, <2>1, <2>4, <2>6, <3>1, <3>3
    <3>. QED  BY <2>5, <3>2, <3>3
  <2>8. promised' \subseteq Tokens
    BY <1>1, <2>5 DEF SyncInv, SyncShape
  <2>. QED  BY <1>2, <1>3, <2>4, <2>7, <2>8, Unlists DEF SyncInv, SyncShape
<1>. QED  BY <1>4, <1>5

LEMMA ReadTagsStep == ASSUME SyncInv, ReadTags PROVE SyncInv'
<1>. DEFINE t == admin.token
<1>1. t \in Tokens /\ t \notin promised
  BY DEF ReadTags, SyncInv, SyncShape, Promise
<1>2. UNCHANGED <<library, entry, mirror, sync, agreed>>
  BY DEF ReadTags
<1>3. NoAdmin \in Admins /\ NoAdmin.pc = "idle"
  BY DEF NoAdmin, Admins
<1>4. \/ admin' = NoAdmin /\ promised' = promised
      \/ admin' = NoAdmin /\ promised' = promised \cup {t} /\ admin.op = "hide" /\ ~admin.beside
           /\ entry[t].hidden = (admin.op = "hide")
      \/ admin' = [admin EXCEPT !.pc = "put"] /\ promised' = promised
  BY DEF ReadTags, AdminRests
<1>5. admin \in Admins
  BY DEF SyncInv, SyncShape
<1>6. [admin EXCEPT !.pc = "put"] \in Admins /\ [admin EXCEPT !.pc = "put"].token = t
      /\ [admin EXCEPT !.pc = "put"].op = admin.op /\ [admin EXCEPT !.pc = "put"].beside = admin.beside
  BY <1>5 DEF Admins
<1>7. ~admin.beside => sync.pc = "idle" /\ mirror[t].at # 0 /\ mirror[t].hidden = (admin.op = "hide")
  BY DEF ReadTags, SyncInv, Promise
<1>8. SyncShape'
  BY <1>1, <1>2, <1>3, <1>4, <1>6 DEF SyncInv, SyncShape
<1>9. Met' /\ Mirrored' /\ Agreeing'
  <2>1. Met'
    BY <1>2 DEF SyncInv, Met, Past, InHand, Item
  <2>2. Mirrored'
    BY <1>2, SMTT(30) DEF SyncInv, Mirrored, Past, InHand, Item, Listed, AsIs
  <2>3. Agreeing'
    BY <1>2 DEF SyncInv, Agreeing, Listed, AsIs
  <2>. QED  BY <2>1, <2>2, <2>3
<1>10. Promise'
  <2>1. \A u \in promised' :
          /\ mirror[u].at # 0 /\ mirror[u].hidden /\ entry[u].hidden
          /\ sync.pc \notin {"idle", "facets"} /\ u \in DOMAIN sync.facets => sync.facets[u]
    <3>1. CASE promised' = promised
      BY <3>1 DEF SyncInv, Promise
    <3>2. CASE promised' = promised \cup {t} /\ admin.op = "hide" /\ ~admin.beside /\ entry[t].hidden = (admin.op = "hide")
      BY <1>7, <3>2 DEF SyncInv, Promise
    <3>. QED  BY <1>4, <3>1, <3>2
  <2>2. sync.pc = "tags" /\ Item \in promised' => sync.tags = "hidden"
    BY <1>4, <1>7 DEF SyncInv, Promise
  <2>3. admin'.pc \in {"read", "put"} =>
          admin' = [admin EXCEPT !.pc = "put"] /\ promised' = promised
    BY <1>3, <1>4
  <2>4. Item' = Item
    BY <1>2 DEF Item
  <2>. QED  BY <1>1, <1>2, <1>6, <1>7, <2>1, <2>2, <2>3, <2>4 DEF Promise
<1>. QED  BY <1>8, <1>9, <1>10 DEF SyncInv

LEMMA StartSyncStep == ASSUME SyncInv, StartSync PROVE SyncInv'
<1>1. sync \in Syncs /\ sync.pc = "idle" /\ sync.no + 1 \in 1 .. MaxSyncs /\ sync.no \in Nat
  <2>1. sync \in Syncs /\ sync.pc = "idle" /\ sync.no < MaxSyncs
    BY DEF StartSync, SyncInv, SyncShape
  <2>2. sync.no \in 1 .. MaxSyncs
    BY <2>1 DEF Syncs
  <2>. QED  BY <2>1, <2>2, CatalogSyncAssumption
<1>2. Cardinality(Counted) \in Nat
  <2>1. Counted \subseteq Tokens
    BY DEF Counted, Rows
  <2>. QED  BY <2>1, CatalogSyncAssumption, FS_Subset, FS_CardinalityType
<1>3. sync' = [pc |-> "facets", no |-> sync.no + 1, before |-> Cardinality(Counted), page |-> 1, todo |-> <<>>, seen |-> 0,
               facets |-> sync.facets, tags |-> "none", errors |-> FALSE, quiet |-> TRUE, met |-> {}, whole |-> TRUE]
  BY DEF StartSync, NoSync
<1>4. sync.facets \in TagMaps
  BY <1>1 DEF Syncs
<1>5. sync' \in Syncs
  BY <1>1, <1>2, <1>3, <1>4, FreshSync DEF SyncPlaces
<1>6. sync'.pc = "facets" /\ sync'.no = sync.no + 1 /\ sync'.page = 1 /\ sync'.todo = <<>> /\ sync'.met = {}
  BY <1>3
<1>7. UNCHANGED <<library, entry, mirror, promised>> /\ agreed' = FALSE
  BY DEF StartSync
<1>8. PICK b \in BOOLEAN : b <=> admin.pc # "idle"
  <2>1. (admin.pc # "idle") \in BOOLEAN
    OBVIOUS
  <2>. QED  BY <2>1, Zenon
<1>9. admin' = [admin EXCEPT !.beside = b]
  BY <1>8 DEF StartSync
<1>10. admin' \in Admins /\ admin'.pc = admin.pc /\ admin'.token = admin.token /\ admin'.beside = b
  <2>1. admin \in Admins /\ b \in BOOLEAN
    BY DEF SyncInv, SyncShape
  <2>. QED  BY <1>9, <2>1 DEF Admins
<1>11. \A t \in Tokens : mirror[t].at \in Nat /\ mirror[t].at <= sync.no
  BY DEF SyncInv, SyncShape, MirrorRows
<1>12. SyncShape'
  <2>1. \A t \in Tokens : mirror'[t].at <= sync'.no
    BY <1>1, <1>6, <1>7, <1>11
  <2>2. admin' \in Admins /\ (admin'.pc # "idle" => admin'.token \in Tokens)
    BY <1>10 DEF SyncInv, SyncShape
  <2>3. sync'.pc \in {"row", "facet", "tags"} <=> sync'.todo # <<>>
    BY <1>6
  <2>. QED  BY <1>5, <1>7, <2>1, <2>2, <2>3 DEF SyncInv, SyncShape
<1>13. Promise'
  BY <1>6, <1>7, <1>8, <1>10 DEF SyncInv, Promise
<1>14. \A n \in DOMAIN library : ~Past(n)'
  <2>1. \A n \in DOMAIN library : n \in Nat /\ n >= 1
    BY DEF SyncInv, SyncShape
  <2>2. (1 - 1) * PageSize = 0
    BY CatalogSyncAssumption
  <2>. QED  BY <1>6, <2>1, <2>2 DEF Past
<1>15. Met'
  BY <1>6, <1>7, <1>14 DEF Met
<1>16. \A t \in Tokens : mirror'[t].at # sync'.no
  BY <1>1, <1>6, <1>7, <1>11
<1>17. Mirrored'
  BY <1>6, <1>7, <1>14, <1>16 DEF Mirrored
<1>18. Agreeing'
  BY <1>7 DEF Agreeing
<1>. QED  BY <1>12, <1>13, <1>15, <1>17, <1>18 DEF SyncInv

LEMMA PrefetchStep == ASSUME SyncInv, Prefetch PROVE SyncInv'
<1>. DEFINE S == {u \in Tokens : Listed(u)}
            all == [t \in S |-> entry[t].hidden]
<1>1. all \in TagMaps /\ <<>> \in TagMaps /\ DOMAIN <<>> = {}
  <2>1. \A t \in S : entry[t].hidden \in BOOLEAN
    BY DEF SyncInv, SyncShape
  <2>2. all \in [S -> BOOLEAN] /\ S \in SUBSET Tokens
    BY <2>1
  <2>. HIDE DEF all, S
  <2>. QED  BY <2>2, NoSyncIs DEF TagMaps
<1>2. PICK f \in {<<>>, all} : sync' = [sync EXCEPT !.pc = "list", !.facets = f]
  BY DEF Prefetch
<1>3. f \in TagMaps /\ \A t \in DOMAIN f : t \in Tokens /\ f[t] = entry[t].hidden
  BY <1>1
<1>4. sync \in Syncs /\ sync.pc = "facets" /\ sync.todo = <<>>
  BY DEF Prefetch, SyncInv, SyncShape
<1>. HIDE DEF all
<1>. DEFINE s == [sync EXCEPT !.pc = "list"]
            z == [s EXCEPT !.facets = f]
<1>5. /\ s \in Syncs /\ s.pc = "list" /\ s.no = sync.no /\ s.page = sync.page /\ s.todo = <<>> /\ s.errors = sync.errors
      /\ s.quiet = sync.quiet /\ s.met = sync.met /\ s.whole = sync.whole
  BY <1>4 DEF Syncs, SyncPlaces
<1>6. sync' = z
  BY <1>2, <1>4 DEF Syncs
<1>. HIDE DEF s
<1>7. /\ sync' \in Syncs /\ sync'.pc = "list" /\ sync'.no = sync.no /\ sync'.page = sync.page /\ sync'.todo = <<>>
      /\ sync'.errors = sync.errors /\ sync'.quiet = sync.quiet /\ sync'.met = sync.met /\ sync'.whole = sync.whole
      /\ sync'.facets = f
  BY <1>3, <1>5, <1>6 DEF Syncs
<1>8. UNCHANGED <<library, entry, mirror, admin, promised, agreed>>
  BY DEF Prefetch
<1>9. SyncShape'
  BY <1>7, <1>8 DEF SyncInv, SyncShape
<1>10. Promise'
  BY <1>3, <1>4, <1>7, <1>8 DEF SyncInv, Promise
<1>11. \A n : Past(n)' <=> Past(n)
  BY <1>4, <1>7 DEF Past
<1>12. \A t : ~InHand(t)
  BY <1>4, NoSyncIs DEF InHand
<1>13. Met'
  BY <1>4, <1>7, <1>8, <1>11, <1>12 DEF SyncInv, Met
<1>14. Mirrored'
  <2>1. \A t : (Listed(t) <=> Listed(t)') /\ (AsIs(t) <=> AsIs(t)')
    BY <1>8 DEF Listed, AsIs
  <2>2. \A t \in DOMAIN sync'.facets : sync'.facets[t] = entry'[t].hidden
    BY <1>3, <1>7, <1>8
  <2>3. DOMAIN sync'.todo = {}
    BY <1>7, NoSyncIs
  <2>. QED  BY <1>4, <1>7, <1>8, <1>11, <1>12, <2>1, <2>2, <2>3 DEF SyncInv, Mirrored
<1>15. Agreeing'
  BY <1>4, <1>8 DEF SyncInv, Agreeing
<1>. QED  BY <1>9, <1>10, <1>13, <1>14, <1>15 DEF SyncInv

\* A page: what stands at the places it covers.
LEMMA ShownIs ==
  ASSUME SyncShape
  PROVE  /\ Shown(sync.page) \in Seq(PageItems)
         /\ \A n \in DOMAIN library : n <= sync.page * PageSize =>
              n <= (sync.page - 1) * PageSize \/ \E j \in DOMAIN Shown(sync.page) : Shown(sync.page)[j].token = library[n]
         /\ \A j \in DOMAIN Shown(sync.page) :
              Listed(Shown(sync.page)[j].token) /\ Shown(sync.page)[j].title = entry[Shown(sync.page)[j].token].title
<1>. DEFINE from == (sync.page - 1) * PageSize
            many == IF from + PageSize <= Len(library) THEN PageSize ELSE Len(library) - from
            page == [i \in 1 .. many |-> [token |-> library[from + i], title |-> entry[library[from + i]].title]]
<1>1. Shown(sync.page) = page
  BY DEF Shown
<1>2. sync.page \in Nat \ {0} /\ PageSize \in Nat \ {0} /\ library \in Seq(Tokens)
  BY CatalogSyncAssumption DEF SyncShape, Syncs
<1>3. from \in Nat /\ sync.page * PageSize = from + PageSize
  BY <1>2
<1>4. Len(library) \in Nat /\ DOMAIN library = 1 .. Len(library) /\ \A n \in DOMAIN library : library[n] \in Tokens
  BY <1>2
<1>. HIDE DEF from
<1>5. many \in Int /\ from + many <= Len(library) /\ (many = PageSize \/ from + many = Len(library))
  BY <1>2, <1>3, <1>4
<1>. HIDE DEF many
<1>. DEFINE all == Len(library)
<1>14. all \in Nat /\ DOMAIN library = 1 .. all /\ from + many <= all /\ (many = PageSize \/ from + many = all) /\ from \in Nat
       /\ many \in Int /\ PageSize \in Nat
  BY <1>2, <1>3, <1>4, <1>5
<1>. HIDE DEF all
<1>6. \A i \in 1 .. many : from + i \in DOMAIN library
  <2>. SUFFICES ASSUME NEW i \in 1 .. many PROVE from + i \in 1 .. all
    BY <1>14
  <2>1. i \in Int /\ 1 <= i /\ i <= many
    BY <1>14
  <2>. QED  BY <1>14, <2>1
<1>7. \A t \in Tokens : entry[t].title \in {"a", "b"}
  BY DEF SyncShape
<1>8. \A i \in 1 .. many : page[i] \in PageItems /\ page[i].token = library[from + i] /\ page[i].title = entry[library[from + i]].title
  BY <1>4, <1>6, <1>7 DEF PageItems
<1>9. DOMAIN page = 1 .. many
  OBVIOUS
<1>10. page \in Seq(PageItems)
  <2>1. page \in [1 .. many -> PageItems]
    BY <1>8
  <2>2. CASE many >= 0
    <3>1. many \in Nat
      BY <1>14, <2>2
    <3>. HIDE DEF page
    <3>. QED  BY <2>1, <3>1, SeqDef
  <2>3. CASE many < 0
    <3>1. 1 .. many = 1 .. 0
      BY <1>5, <2>3
    <3>2. page \in [1 .. 0 -> PageItems]
      BY <2>1, <3>1
    <3>. HIDE DEF page
    <3>. QED  BY <3>2
  <2>. QED  BY <1>5, <2>2, <2>3
<1>. HIDE DEF page
<1>11. \A n \in DOMAIN library : n <= sync.page * PageSize =>
              n <= from \/ \E j \in DOMAIN page : page[j].token = library[n]
  <2>. SUFFICES ASSUME NEW n \in DOMAIN library, n <= from + PageSize, ~(n <= from)
                PROVE  \E j \in DOMAIN page : page[j].token = library[n]
    BY <1>3
  <2>1. n - from \in 1 .. many /\ from + (n - from) = n
    <3>1. n \in Int /\ 1 <= n /\ n <= all
      BY <1>14
    <3>2. n - from \in Int /\ 1 <= n - from /\ n - from <= many
      BY <1>14, <3>1
    <3>. QED  BY <1>14, <3>1, <3>2
  <2>. QED  BY <1>8, <1>9, <2>1
<1>12. \A j \in DOMAIN page : Listed(page[j].token) /\ page[j].title = entry[page[j].token].title
  BY <1>6, <1>8, <1>9 DEF Listed
<1>. QED  BY <1>1, <1>10, <1>11, <1>12 DEF from

\* The end is reached.
LEMMA EndOfList ==
  ASSUME SyncInv, sync.pc = "list", NEW w \in BOOLEAN, NEW e \in BOOLEAN,
         sync' = [[[sync EXCEPT !.pc = "end"] EXCEPT !.whole = w] EXCEPT !.errors = e],
         w /\ ~e => sync.whole /\ ~sync.errors /\ Shown(sync.page) = <<>>,
         UNCHANGED <<library, entry, mirror, admin, promised, agreed>>
  PROVE  SyncInv'
<1>1. sync \in Syncs /\ sync.todo = <<>> /\ SyncShape
  BY DEF SyncInv, SyncShape
<1>. DEFINE s == [sync EXCEPT !.pc = "end"]
            z == [s EXCEPT !.whole = w]
            y == [z EXCEPT !.errors = e]
<1>2. /\ s \in Syncs /\ s.pc = "end" /\ s.no = sync.no /\ s.todo = <<>> /\ s.errors = sync.errors /\ s.facets = sync.facets
      /\ s.quiet = sync.quiet /\ s.met = sync.met /\ s.page = sync.page
  BY <1>1 DEF Syncs, SyncPlaces
<1>3. sync' = y
  OBVIOUS
<1>. HIDE DEF s
<1>4. /\ z \in Syncs /\ z.pc = "end" /\ z.no = sync.no /\ z.todo = <<>> /\ z.facets = sync.facets
      /\ z.quiet = sync.quiet /\ z.met = sync.met /\ z.page = sync.page /\ z.whole = w
  BY <1>2 DEF Syncs
<1>. HIDE DEF z
<1>5. /\ sync' \in Syncs /\ sync'.pc = "end" /\ sync'.no = sync.no /\ sync'.todo = <<>> /\ sync'.facets = sync.facets
      /\ sync'.quiet = sync.quiet /\ sync'.met = sync.met /\ sync'.whole = w /\ sync'.errors = e
  BY <1>3, <1>4 DEF Syncs
<1>6. SyncShape'
  BY <1>5 DEF SyncInv, SyncShape
<1>7. Promise'
  BY <1>5 DEF SyncInv, Promise
<1>8. Shown(sync.page) = <<>> => \A n \in DOMAIN library : Past(n)
  <2>. SUFFICES ASSUME Shown(sync.page) = <<>>, NEW n \in DOMAIN library PROVE Past(n)
    OBVIOUS
  <2>1. n \in Nat /\ library \in Seq(Tokens)
    BY DEF SyncInv, SyncShape
  <2>2. \A m \in DOMAIN library : m <= sync.page * PageSize => m <= (sync.page - 1) * PageSize
    BY <1>1, ShownIs, NoSyncIs
  <2>3. sync.page \in Nat \ {0} /\ PageSize \in Nat \ {0} /\ (sync.page - 1) * PageSize \in Nat
        /\ sync.page * PageSize = (sync.page - 1) * PageSize + PageSize
    BY <1>1, CatalogSyncAssumption DEF Syncs
  <2>. DEFINE k == (sync.page - 1) * PageSize
  <2>4. k \in Nat /\ sync.page * PageSize = k + PageSize
    BY <2>3
  <2>. HIDE DEF k
  <2>5. \A m \in DOMAIN library : m <= k + PageSize => m <= k
    BY <2>2, <2>4 DEF k
  <2>6. n <= k
    <3>. SUFFICES ASSUME n > k PROVE FALSE
      BY <2>1, <2>4
    <3>1. k + 1 \in DOMAIN library
      BY <2>1, <2>4
    <3>. QED  BY <2>3, <2>4, <2>5, <3>1
  <2>. QED  BY <2>6 DEF Past, k
<1>9. \A t : ~InHand(t)
  BY <1>1, NoSyncIs DEF InHand
<1>10. Met'
  <2>1. ASSUME w, ~e, NEW n \in DOMAIN library PROVE mirror[library[n]].at \in {0, sync.no}
    BY <1>8, <1>9, <2>1 DEF SyncInv, Met
  <2>. QED  BY <1>5, <2>1 DEF SyncInv, Met
<1>11. Mirrored'
  <2>1. ASSUME w, ~e, sync.quiet, NEW n \in DOMAIN library PROVE mirror[library[n]].at = sync.no /\ AsIs(library[n])
    BY <1>8, <1>9, <2>1 DEF SyncInv, Mirrored
  <2>2. \A t : (Listed(t) <=> Listed(t)') /\ (AsIs(t) <=> AsIs(t)')
    BY DEF Listed, AsIs
  <2>3. DOMAIN sync'.todo = {}
    BY <1>5, NoSyncIs
  <2>. QED  BY <1>5, <2>1, <2>2, <2>3 DEF SyncInv, Mirrored
<1>12. Agreeing'
  BY DEF SyncInv, Agreeing
<1>. QED  BY <1>6, <1>7, <1>10, <1>11, <1>12 DEF SyncInv

LEMMA ListStep == ASSUME SyncInv, List PROVE SyncInv'
<1>1. sync \in Syncs /\ sync.todo = <<>> /\ sync.pc = "list" /\ SyncShape
  BY DEF List, SyncInv, SyncShape
<1>2. UNCHANGED <<library, entry, mirror, admin, promised, agreed>>
  BY DEF List
<1>. DEFINE page == Shown(sync.page)
<1>3. PICK cut \in {FALSE, TRUE} :
        sync' = IF page = <<>> \/ cut
                THEN [sync EXCEPT !.pc = "end", !.whole = @ /\ (~cut \/ page = <<>>)]
                ELSE [sync EXCEPT !.pc = "row", !.todo = page, !.page = @ + 1]
  BY DEF List
<1>4. CASE page = <<>> \/ cut
  <2>1. PICK w \in BOOLEAN : w <=> sync.whole /\ (~cut \/ page = <<>>)
    <3>1. (sync.whole /\ (~cut \/ page = <<>>)) \in BOOLEAN
      OBVIOUS
    <3>. QED  BY <3>1, Zenon
  <2>2. sync.errors \in BOOLEAN
    BY <1>1 DEF Syncs
  <2>3. sync' = [[[sync EXCEPT !.pc = "end"] EXCEPT !.whole = w] EXCEPT !.errors = sync.errors]
    BY <1>1, <1>3, <1>4, <2>1 DEF Syncs
  <2>4. w => sync.whole /\ page = <<>>
    BY <1>4, <2>1
  <2>5. w /\ ~sync.errors => sync.whole /\ ~sync.errors /\ Shown(sync.page) = <<>>
    BY <2>4
  <2>. QED  BY <1>1, <1>2, <2>2, <2>3, <2>5, EndOfList
<1>5. CASE page # <<>> /\ ~cut
  <2>. DEFINE s == [sync EXCEPT !.pc = "row"]
              z == [s EXCEPT !.todo = page]
              y == [z EXCEPT !.page = sync.page + 1]
  <2>1. page \in Seq(PageItems) /\ sync.page \in Nat \ {0}
    BY <1>1, ShownIs DEF Syncs
  <2>2. sync' = y
    BY <1>1, <1>3, <1>5 DEF Syncs
  <2>3. /\ s \in Syncs /\ s.pc = "row" /\ s.no = sync.no /\ s.errors = sync.errors /\ s.facets = sync.facets
        /\ s.quiet = sync.quiet /\ s.met = sync.met /\ s.whole = sync.whole
    BY <1>1 DEF Syncs, SyncPlaces
  <2>. HIDE DEF page
  <2>. HIDE DEF s
  <2>4. /\ z \in Syncs /\ z.pc = "row" /\ z.no = sync.no /\ z.errors = sync.errors /\ z.facets = sync.facets
        /\ z.quiet = sync.quiet /\ z.met = sync.met /\ z.whole = sync.whole /\ z.todo = page
    BY <2>1, <2>3 DEF Syncs
  <2>. HIDE DEF z
  <2>5. sync.page + 1 \in Nat \ {0}
    BY <2>1
  <2>6. /\ sync' \in Syncs /\ sync'.pc = "row" /\ sync'.no = sync.no /\ sync'.errors = sync.errors /\ sync'.facets = sync.facets
        /\ sync'.quiet = sync.quiet /\ sync'.met = sync.met /\ sync'.whole = sync.whole /\ sync'.todo = page
        /\ sync'.page = sync.page + 1
    BY <2>2, <2>4, <2>5 DEF Syncs
  <2>7. SyncShape'
    BY <1>2, <1>5, <2>6 DEF SyncInv, SyncShape
  <2>8. Promise'
    BY <1>1, <1>2, <2>6 DEF SyncInv, Promise
  <2>9. \A t : ~InHand(t)
    BY <1>1, NoSyncIs DEF InHand
  <2>10. \A n \in DOMAIN library : Past(n)' => Past(n) \/ \E j \in DOMAIN page : page[j].token = library[n]
    <3>1. (sync.page + 1) - 1 = sync.page
      BY <2>1
    <3>2. \A n \in DOMAIN library : Past(n)' => n <= sync.page * PageSize
      BY <2>6, <3>1 DEF Past
    <3>. QED  BY <1>1, <3>2, ShownIs DEF page, Past
  <2>11. Met'
    <3>1. ASSUME sync.whole, ~sync.errors, NEW n \in DOMAIN library, Past(n)'
          PROVE  mirror[library[n]].at \in {0, sync.no} \/ \E j \in DOMAIN page : page[j].token = library[n]
      BY <1>1, <2>9, <2>10, <3>1 DEF SyncInv, Met
    <3>. QED  BY <1>1, <1>2, <2>6, <3>1 DEF SyncInv, Met, InHand
  <2>12. Mirrored'
    <3>1. ASSUME sync.whole, ~sync.errors, sync.quiet, NEW n \in DOMAIN library, Past(n)'
          PROVE  (mirror[library[n]].at = sync.no /\ AsIs(library[n])) \/ \E j \in DOMAIN page : page[j].token = library[n]
      BY <1>1, <2>9, <2>10, <3>1 DEF SyncInv, Mirrored
    <3>2. \A t : (Listed(t) <=> Listed(t)') /\ (AsIs(t) <=> AsIs(t)')
      BY <1>2 DEF Listed, AsIs
    <3>3. \A j \in DOMAIN page : Listed(page[j].token) /\ page[j].title = entry[page[j].token].title
      BY <1>1, ShownIs DEF page
    <3>. QED  BY <1>1, <1>2, <2>6, <3>1, <3>2, <3>3 DEF SyncInv, Mirrored, InHand
  <2>13. Agreeing'
    BY <1>1, <1>2 DEF SyncInv, Agreeing
  <2>. QED  BY <2>7, <2>8, <2>11, <2>12, <2>13 DEF SyncInv
<1>. QED  BY <1>4, <1>5

LEMMA ListFailsStep == ASSUME SyncInv, ListFails PROVE SyncInv'
<1>1. sync \in Syncs /\ sync.pc = "list" /\ sync.whole \in BOOLEAN
  BY DEF ListFails, SyncInv, SyncShape, Syncs
<1>2. sync' = [[[sync EXCEPT !.pc = "end"] EXCEPT !.whole = sync.whole] EXCEPT !.errors = TRUE]
  BY <1>1 DEF ListFails, Syncs
<1>3. UNCHANGED <<library, entry, mirror, admin, promised, agreed>>
  BY DEF ListFails
<1>. QED  BY <1>1, <1>2, <1>3, EndOfList

\* The item in hand.
LEMMA ItemIs ==
  ASSUME SyncShape, sync.pc \in {"row", "facet", "tags"}
  PROVE  /\ Item \in Tokens /\ 1 \in DOMAIN sync.todo /\ Item = sync.todo[1].token /\ Head(sync.todo) = sync.todo[1]
         /\ Head(sync.todo).title \in {"a", "b"} /\ InHand(Item) /\ sync \in Syncs /\ sync.todo # <<>> /\ sync.no \in 1 .. MaxSyncs
<1>1. sync \in Syncs /\ sync.todo # <<>>
  BY DEF SyncShape
<1>2. sync.todo \in Seq(PageItems) /\ sync.no \in 1 .. MaxSyncs
  BY <1>1 DEF Syncs
<1>3. Head(sync.todo) = sync.todo[1] /\ 1 \in DOMAIN sync.todo /\ sync.todo[1] \in PageItems
  BY <1>1, <1>2
<1>. QED  BY <1>1, <1>2, <1>3 DEF Item, InHand, PageItems

\* An item is done with, or given up.
LEMMA NextStep ==
  ASSUME SyncInv, sync.pc \in {"row", "facet", "tags"}, NEW s \in Syncs,
         s.no = sync.no, s.page = sync.page, s.todo = sync.todo, s.facets = sync.facets, s.met = sync.met, s.whole = sync.whole,
         sync.errors => s.errors, s.quiet => sync.quiet, sync' = NextItem(s),
         UNCHANGED <<library, entry, admin, promised, agreed>>, mirror' \in [Tokens -> MirrorRows],
         \A t \in Tokens : mirror'[t].at = mirror[t].at /\ mirror'[t].title = mirror[t].title,
         \A t \in Tokens : t # Item => mirror'[t].hidden = mirror[t].hidden,
         Item \in promised => mirror'[Item].hidden,
         ~s.errors => mirror[Item].at \in {0, sync.no},
         s.quiet /\ ~s.errors => mirror[Item].at = sync.no /\ mirror'[Item].title = entry[Item].title
                                  /\ mirror'[Item].hidden = entry[Item].hidden
  PROVE  SyncInv'
<1>. DEFINE i == Item
<1>1. i \in Tokens /\ 1 \in DOMAIN sync.todo /\ i = sync.todo[1].token /\ sync.todo # <<>> /\ SyncShape
  BY ItemIs DEF SyncInv
<1>2. /\ sync' \in Syncs /\ sync'.tags = "none" /\ sync'.pc \in {"row", "list"} /\ (sync'.pc = "row" <=> sync'.todo # <<>>)
      /\ sync'.no = sync.no /\ sync'.page = sync.page /\ sync'.facets = sync.facets /\ sync'.errors = s.errors
      /\ sync'.quiet = s.quiet /\ sync'.met = sync.met /\ sync'.whole = sync.whole
  BY <1>1, NextItemIs
<1>13. s.todo # <<>>
  BY <1>1
<1>14. /\ NextItem(s).todo = Tail(s.todo)
       /\ \A j \in DOMAIN Tail(s.todo) : j + 1 \in DOMAIN s.todo /\ Tail(s.todo)[j] = s.todo[j + 1]
       /\ \A j \in DOMAIN s.todo : j = 1 \/ (j - 1 \in DOMAIN Tail(s.todo) /\ Tail(s.todo)[j - 1] = s.todo[j])
  BY <1>13, NextItemIs
<1>15. sync'.todo = Tail(s.todo)
  BY <1>14
<1>3. \A j \in DOMAIN sync'.todo : j + 1 \in DOMAIN sync.todo /\ sync'.todo[j] = sync.todo[j + 1]
  BY <1>14, <1>15
<1>4. \A j \in DOMAIN sync.todo : j = 1 \/ (j - 1 \in DOMAIN sync'.todo /\ sync'.todo[j - 1] = sync.todo[j])
  BY <1>14, <1>15
<1>. HIDE DEF i
<1>5. \A t : InHand(t) => t = i \/ \E j \in DOMAIN sync'.todo : sync'.todo[j].token = t
  BY <1>1, <1>4 DEF InHand
<1>6. SyncShape'
  <2>1. \A t \in Tokens : mirror'[t].at <= sync'.no
    BY <1>1, <1>2 DEF SyncShape
  <2>. QED  BY <1>1, <1>2, <2>1 DEF SyncShape
<1>7. Promise'
  <2>1. \A t \in promised : mirror'[t].at # 0 /\ mirror'[t].hidden /\ entry[t].hidden
    BY <1>1 DEF SyncInv, Promise, SyncShape
  <2>2. \A t \in promised : t \in DOMAIN sync.facets => sync.facets[t]
    BY DEF SyncInv, Promise
  <2>3. admin.pc \in {"read", "put"} => admin.token \notin promised /\ admin.beside
    BY DEF SyncInv, Promise
  <2>. QED  BY <1>2, <2>1, <2>2, <2>3 DEF Promise
<1>8. \A n : Past(n)' => Past(n)
  BY <1>2 DEF Past
<1>9. \A n \in DOMAIN library : library[n] \in Tokens
  BY <1>1 DEF SyncShape
<1>10. Met'
  <2>1. ASSUME sync.whole, ~s.errors, NEW n \in DOMAIN library, Past(n)'
        PROVE  mirror'[library[n]].at \in {0, sync.no} \/ \E j \in DOMAIN sync'.todo : sync'.todo[j].token = library[n]
    <3>1. mirror[library[n]].at \in {0, sync.no} \/ InHand(library[n])
      BY <1>8, <2>1 DEF SyncInv, Met
    <3>. QED  BY <1>5, <1>9, <2>1, <3>1 DEF i
  <2>2. \A t \in sync.met : mirror'[t].at \in {0, sync.no}
    BY <1>1 DEF SyncInv, Met, SyncShape, Syncs
  <2>. QED  BY <1>2, <2>1, <2>2 DEF Met, InHand
<1>11. Mirrored'
  <2>. SUFFICES ASSUME s.quiet PROVE Mirrored'
    BY <1>2 DEF Mirrored
  <2>1. \A t : Listed(t) <=> Listed(t)'
    BY DEF Listed
  <2>2. \A t \in Tokens : mirror'[t].at = sync.no => Listed(t)
    BY DEF SyncInv, Mirrored
  <2>3. \A j \in DOMAIN sync'.todo : Listed(sync'.todo[j].token) /\ sync'.todo[j].title = entry[sync'.todo[j].token].title
    BY <1>3 DEF SyncInv, Mirrored
  <2>4. sync.pc # "facets" /\ \A t \in DOMAIN sync.facets : sync.facets[t] = entry[t].hidden
    BY DEF SyncInv, Mirrored
  <2>5. ASSUME sync.whole, ~s.errors, NEW n \in DOMAIN library, Past(n)'
        PROVE  \/ mirror'[library[n]].at = sync.no /\ mirror'[library[n]].title = entry[library[n]].title
                    /\ mirror'[library[n]].hidden = entry[library[n]].hidden
               \/ \E j \in DOMAIN sync'.todo : sync'.todo[j].token = library[n]
    <3>1. (mirror[library[n]].at = sync.no /\ AsIs(library[n])) \/ InHand(library[n])
      BY <1>8, <2>5 DEF SyncInv, Mirrored
    <3>2. CASE library[n] = i
      BY <1>1, <2>5, <3>2 DEF i
    <3>3. CASE library[n] # i
      BY <1>5, <1>9, <3>1, <3>3 DEF i, AsIs
    <3>. QED  BY <3>2, <3>3
  <2>. QED  BY <1>2, <2>1, <2>2, <2>3, <2>4, <2>5 DEF Mirrored, InHand, AsIs
<1>12. Agreeing'
  BY DEF SyncInv, Agreeing
<1>. QED  BY <1>6, <1>7, <1>10, <1>11, <1>12 DEF SyncInv

LEMMA ProcessStep == ASSUME SyncInv, Process PROVE SyncInv'
<1>. DEFINE i == Item
            title == Head(sync.todo).title
<1>1. /\ i \in Tokens /\ 1 \in DOMAIN sync.todo /\ i = sync.todo[1].token /\ title = sync.todo[1].title /\ title \in {"a", "b"}
      /\ InHand(i) /\ sync \in Syncs /\ sync.todo # <<>> /\ sync.pc = "row" /\ sync.no \in 1 .. MaxSyncs /\ sync.seen + 1 \in Nat
  BY ItemIs DEF Process, SyncInv, Syncs
<1>2. UNCHANGED <<library, entry, admin, promised, agreed>>
  BY DEF Process
<1>3. CASE mirror' = mirror /\ sync' = NextItem([sync EXCEPT !.seen = @ + 1, !.errors = TRUE])
  <2>. DEFINE s0 == [sync EXCEPT !.seen = sync.seen + 1]
              s == [s0 EXCEPT !.errors = TRUE]
  <2>1. sync' = NextItem(s)
    <3>1. [sync EXCEPT !.seen = @ + 1, !.errors = TRUE] = s
      BY <1>1 DEF Syncs
    <3>. QED  BY <1>3, <3>1
  <2>2. /\ s0 \in Syncs /\ s0.no = sync.no /\ s0.page = sync.page /\ s0.todo = sync.todo /\ s0.facets = sync.facets
        /\ s0.met = sync.met /\ s0.whole = sync.whole /\ s0.quiet = sync.quiet
    BY <1>1 DEF Syncs
  <2>. HIDE DEF s0
  <2>3. /\ s \in Syncs /\ s.no = sync.no /\ s.page = sync.page /\ s.todo = sync.todo /\ s.facets = sync.facets
        /\ s.met = sync.met /\ s.whole = sync.whole /\ s.quiet = sync.quiet /\ s.errors = TRUE
    BY <2>2 DEF Syncs
  <2>. HIDE DEF s
  <2>4. Item \in promised => mirror'[Item].hidden
    BY <1>3 DEF SyncInv, Promise
  <2>. QED  BY <1>1, <1>2, <1>3, <2>1, <2>3, <2>4, NextStep DEF SyncInv, SyncShape
<1>4. CASE mirror' = Written /\ sync' = [sync EXCEPT !.pc = "facet", !.seen = @ + 1, !.met = @ \cup {Item}]
  <2>. DEFINE r0 == [mirror[i] EXCEPT !.title = title]
              row == [r0 EXCEPT !.at = sync.no]
  <2>1. mirror[i] \in MirrorRows /\ sync.no \in 0 .. MaxSyncs
    BY <1>1 DEF SyncInv, SyncShape
  <2>2. mirror' = [mirror EXCEPT ![i] = row]
    <3>1. mirror \in [Tokens -> MirrorRows]
      BY DEF SyncInv, SyncShape
    <3>2. [mirror EXCEPT ![i].title = title, ![i].at = sync.no] = [mirror EXCEPT ![i] = row]
      BY <1>1, <2>1, <3>1 DEF MirrorRows
    <3>. QED  BY <1>4, <3>2 DEF Written
  <2>3. r0 \in MirrorRows /\ r0.title = title /\ r0.hidden = mirror[i].hidden
    BY <1>1, <2>1 DEF MirrorRows
  <2>. HIDE DEF r0, title
  <2>4. row \in MirrorRows /\ row.title = title /\ row.hidden = mirror[i].hidden /\ row.at = sync.no
    BY <2>1, <2>3 DEF MirrorRows
  <2>. HIDE DEF row
  <2>5. mirror' \in [Tokens -> MirrorRows] /\ mirror'[i] = row /\ \A t \in Tokens \ {i} : mirror'[t] = mirror[t]
    BY <1>1, <2>2, <2>4 DEF SyncInv, SyncShape
  <2>. DEFINE s == [sync EXCEPT !.pc = "facet"]
              z == [s EXCEPT !.seen = sync.seen + 1]
              y == [z EXCEPT !.met = sync.met \cup {i}]
  <2>6. sync' = y
    BY <1>1, <1>4 DEF Syncs
  <2>. HIDE DEF i
  <2>7. /\ s \in Syncs /\ s.pc = "facet" /\ s.no = sync.no /\ s.page = sync.page /\ s.todo = sync.todo /\ s.facets = sync.facets
        /\ s.errors = sync.errors /\ s.quiet = sync.quiet /\ s.whole = sync.whole
    BY <1>1 DEF Syncs, SyncPlaces
  <2>. HIDE DEF s
  <2>8. /\ z \in Syncs /\ z.pc = "facet" /\ z.no = sync.no /\ z.page = sync.page /\ z.todo = sync.todo /\ z.facets = sync.facets
        /\ z.errors = sync.errors /\ z.quiet = sync.quiet /\ z.whole = sync.whole
    BY <1>1, <2>7 DEF Syncs
  <2>. HIDE DEF z
  <2>9. sync.met \cup {i} \in SUBSET Tokens
    BY <1>1 DEF Syncs
  <2>10. /\ sync' \in Syncs /\ sync'.pc = "facet" /\ sync'.no = sync.no /\ sync'.page = sync.page /\ sync'.todo = sync.todo
         /\ sync'.facets = sync.facets /\ sync'.errors = sync.errors /\ sync'.quiet = sync.quiet /\ sync'.whole = sync.whole
         /\ sync'.met = sync.met \cup {i}
    BY <2>6, <2>8, <2>9 DEF Syncs
  <2>11. Item' = i
    BY <2>10 DEF i, Item
  <2>12. SyncShape'
    <3>1. \A t \in Tokens : mirror'[t].at <= sync'.no
      BY <1>1, <2>4, <2>5, <2>10 DEF SyncInv, SyncShape
    <3>. QED  BY <1>1, <1>2, <2>5, <2>10, <3>1 DEF SyncInv, SyncShape
  <2>13. Promise'
    <3>1. \A t \in promised : mirror'[t].at # 0 /\ mirror'[t].hidden /\ entry[t].hidden
      BY <1>1, <2>4, <2>5 DEF SyncInv, SyncShape, Promise
    <3>2. \A t \in promised : t \in DOMAIN sync.facets => sync.facets[t]
      BY <1>1 DEF SyncInv, Promise
    <3>3. admin.pc \in {"read", "put"} => admin.token \notin promised /\ admin.beside
      BY <1>1 DEF SyncInv, Promise
    <3>. QED  BY <1>2, <2>10, <3>1, <3>2, <3>3 DEF Promise
  <2>14. \A n : Past(n)' => Past(n)
    BY <2>10 DEF Past
  <2>15. \A n \in DOMAIN library : library[n] \in Tokens
    BY DEF SyncInv, SyncShape
  <2>16. \A t : InHand(t)' <=> InHand(t)
    BY <2>10 DEF InHand
  <2>17. Met'
    <3>1. ASSUME sync.whole, ~sync.errors, NEW n \in DOMAIN library, Past(n)'
          PROVE  mirror'[library[n]].at \in {0, sync.no} \/ InHand(library[n])
      <4>1. mirror[library[n]].at \in {0, sync.no} \/ InHand(library[n])
        BY <1>1, <2>14, <3>1 DEF SyncInv, Met
      <4>. QED  BY <2>4, <2>5, <2>15, <4>1
    <3>2. \A t \in sync.met \cup {i} : mirror'[t].at \in {0, sync.no}
      BY <1>1, <2>4, <2>5 DEF SyncInv, Met, Syncs
    <3>. QED  BY <1>2, <2>10, <2>11, <2>16, <3>1, <3>2 DEF Met
  <2>18. Mirrored'
    <3>. SUFFICES ASSUME sync.quiet PROVE Mirrored'
      BY <2>10 DEF Mirrored
    <3>1. \A t : Listed(t) <=> Listed(t)'
      BY <1>2 DEF Listed
    <3>2. \A j \in DOMAIN sync.todo : Listed(sync.todo[j].token) /\ sync.todo[j].title = entry[sync.todo[j].token].title
      BY <1>1 DEF SyncInv, Mirrored
    <3>3. Listed(i) /\ title = entry[i].title
      BY <1>1, <3>2 DEF title
    <3>4. \A t \in Tokens : mirror'[t].at = sync.no => Listed(t)
      BY <1>1, <2>5, <3>3 DEF SyncInv, Mirrored
    <3>5. \A t \in DOMAIN sync.facets : sync.facets[t] = entry[t].hidden
      BY <1>1 DEF SyncInv, Mirrored
    <3>6. ASSUME sync.whole, ~sync.errors, NEW n \in DOMAIN library, Past(n)'
          PROVE  \/ mirror'[library[n]].at = sync.no /\ mirror'[library[n]].title = entry[library[n]].title
                      /\ mirror'[library[n]].hidden = entry[library[n]].hidden
                 \/ InHand(library[n])
      <4>1. (mirror[library[n]].at = sync.no /\ AsIs(library[n])) \/ InHand(library[n])
        BY <1>1, <2>14, <3>6 DEF SyncInv, Mirrored
      <4>2. CASE library[n] = i
        BY <1>1, <4>2
      <4>3. CASE library[n] # i
        BY <2>5, <2>15, <4>1, <4>3 DEF AsIs
      <4>. QED  BY <4>2, <4>3
    <3>7. mirror'[i].at = sync.no /\ mirror'[i].title = entry[i].title
      BY <2>4, <2>5, <3>3
    <3>. QED  BY <1>2, <2>10, <2>11, <2>16, <3>1, <3>2, <3>4, <3>5, <3>6, <3>7 DEF Mirrored, AsIs
  <2>19. Agreeing'
    BY <1>1, <1>2 DEF SyncInv, Agreeing
  <2>. QED  BY <2>12, <2>13, <2>17, <2>18, <2>19 DEF SyncInv
<1>. QED  BY <1>3, <1>4 DEF Process

LEMMA FacetsStep == ASSUME SyncInv, Facets PROVE SyncInv'
<1>. DEFINE i == Item
<1>1. /\ i \in Tokens /\ sync \in Syncs /\ sync.todo # <<>> /\ sync.pc = "facet" /\ SyncShape
  BY ItemIs DEF Facets, SyncInv
<1>2. UNCHANGED <<library, entry, mirror, admin, promised, agreed>>
  BY DEF Facets
<1>3. CASE sync' = NextItem([sync EXCEPT !.quiet = FALSE])
  <2>. DEFINE s == [sync EXCEPT !.quiet = FALSE]
  <2>1. /\ s \in Syncs /\ s.no = sync.no /\ s.page = sync.page /\ s.todo = sync.todo /\ s.facets = sync.facets
        /\ s.met = sync.met /\ s.whole = sync.whole /\ s.quiet = FALSE /\ s.errors = sync.errors
    BY <1>1 DEF Syncs
  <2>2. sync' = NextItem(s)
    BY <1>3
  <2>. HIDE DEF s
  <2>3. Item \in promised => mirror'[Item].hidden
    BY <1>2 DEF SyncInv, Promise
  <2>4. mirror[Item].at \in {0, sync.no}
    BY <1>1 DEF SyncInv, Met
  <2>5. mirror' \in [Tokens -> MirrorRows]
    BY <1>1, <1>2 DEF SyncShape
  <2>. QED  BY <1>1, <1>2, <2>1, <2>2, <2>3, <2>4, <2>5, NextStep
<1>4. ASSUME NEW b \in BOOLEAN, sync' = [sync EXCEPT !.pc = "tags", !.tags = IF b THEN "hidden" ELSE "shown"],
             \/ i \in DOMAIN sync.facets /\ (b <=> sync.facets[i])
             \/ b <=> entry[i].hidden
      PROVE  SyncInv'
  <2>. DEFINE tags == IF b THEN "hidden" ELSE "shown"
  <2>1. (tags = "hidden" <=> b) /\ tags \in {"none", "hidden", "shown"}
    OBVIOUS
  <2>. HIDE DEF tags
  <2>. DEFINE s == [sync EXCEPT !.pc = "tags"]
              z == [s EXCEPT !.tags = tags]
  <2>2. sync' = z
    BY <1>1, <1>4 DEF Syncs, tags
  <2>. HIDE DEF i
  <2>3. /\ s \in Syncs /\ s.pc = "tags" /\ s.no = sync.no /\ s.page = sync.page /\ s.todo = sync.todo /\ s.facets = sync.facets
        /\ s.errors = sync.errors /\ s.quiet = sync.quiet /\ s.whole = sync.whole /\ s.met = sync.met
    BY <1>1 DEF Syncs, SyncPlaces
  <2>. HIDE DEF s
  <2>4. /\ sync' \in Syncs /\ sync'.pc = "tags" /\ sync'.no = sync.no /\ sync'.page = sync.page /\ sync'.todo = sync.todo
        /\ sync'.facets = sync.facets /\ sync'.errors = sync.errors /\ sync'.quiet = sync.quiet /\ sync'.whole = sync.whole
        /\ sync'.met = sync.met /\ sync'.tags = tags
    BY <2>1, <2>2, <2>3 DEF Syncs
  <2>5. Item' = i
    BY <2>4 DEF i, Item
  <2>6. SyncShape'
    BY <1>1, <1>2, <2>4 DEF SyncShape
  <2>7. i \in promised => b
    BY <1>1, <1>4 DEF SyncInv, Promise
  <2>8. Promise'
    <3>1. \A t \in promised : mirror[t].at # 0 /\ mirror[t].hidden /\ entry[t].hidden
      BY DEF SyncInv, Promise
    <3>2. \A t \in promised : t \in DOMAIN sync.facets => sync.facets[t]
      BY <1>1 DEF SyncInv, Promise
    <3>3. admin.pc \in {"read", "put"} => admin.token \notin promised /\ admin.beside
      BY <1>1 DEF SyncInv, Promise
    <3>. QED  BY <1>2, <2>1, <2>4, <2>5, <2>7, <3>1, <3>2, <3>3 DEF Promise
  <2>9. \A n : Past(n)' <=> Past(n)
    BY <1>1, <2>4 DEF Past
  <2>10. \A t : (InHand(t)' <=> InHand(t)) /\ (Listed(t)' <=> Listed(t)) /\ (AsIs(t)' <=> AsIs(t))
    BY <1>2, <2>4 DEF InHand, Listed, AsIs
  <2>11. Met'
    BY <1>1, <1>2, <2>4, <2>5, <2>9, <2>10 DEF SyncInv, Met, i
  <2>12. Mirrored'
    <3>. SUFFICES ASSUME sync.quiet PROVE Mirrored'
      BY <2>4 DEF Mirrored
    <3>1. b <=> entry[i].hidden
      BY <1>1, <1>4 DEF SyncInv, Mirrored
    <3>2. entry[i].hidden \in BOOLEAN
      BY <1>1 DEF SyncShape
    <3>3. mirror[i].at = sync.no /\ mirror[i].title = entry[i].title
      BY <1>1 DEF SyncInv, Mirrored, i
    <3>4. (sync'.tags = "hidden") = entry[i].hidden
      BY <2>1, <2>4, <3>1, <3>2
    <3>5. /\ \A t \in Tokens : mirror[t].at = sync.no => Listed(t)
          /\ \A j \in DOMAIN sync.todo : Listed(sync.todo[j].token) /\ sync.todo[j].title = entry[sync.todo[j].token].title
          /\ \A t \in DOMAIN sync.facets : sync.facets[t] = entry[t].hidden
          /\ sync.whole /\ ~sync.errors =>
               \A n \in DOMAIN library : Past(n) => (mirror[library[n]].at = sync.no /\ AsIs(library[n])) \/ InHand(library[n])
      BY <1>1 DEF SyncInv, Mirrored
    <3>. QED  BY <1>2, <2>4, <2>5, <2>9, <2>10, <3>3, <3>4, <3>5 DEF Mirrored
  <2>13. Agreeing'
    BY <1>1, <1>2 DEF SyncInv, Agreeing
  <2>. QED  BY <2>6, <2>8, <2>11, <2>12, <2>13 DEF SyncInv
<1>5. sync.facets \in TagMaps /\ entry[i].hidden \in BOOLEAN
  BY <1>1 DEF SyncShape, Syncs
<1>6. CASE i \in DOMAIN sync.facets
  <2>1. sync.facets[i] \in BOOLEAN
    BY <1>5, <1>6 DEF TagMaps
  <2>2. sync' = [sync EXCEPT !.pc = "tags", !.tags = IF sync.facets[i] THEN "hidden" ELSE "shown"]
    BY <1>6 DEF Facets
  <2>. QED  BY <1>4, <1>6, <2>1, <2>2
<1>7. CASE i \notin DOMAIN sync.facets
  <2>1. sync' = NextItem([sync EXCEPT !.quiet = FALSE])
        \/ sync' = [sync EXCEPT !.pc = "tags", !.tags = IF entry[i].hidden THEN "hidden" ELSE "shown"]
    BY <1>7 DEF Facets
  <2>. QED  BY <1>3, <1>4, <1>5, <2>1
<1>. QED  BY <1>6, <1>7

LEMMA SetTagsStep == ASSUME SyncInv, SetTags PROVE SyncInv'
<1>. DEFINE i == Item
<1>1. /\ i \in Tokens /\ sync \in Syncs /\ sync.todo # <<>> /\ sync.pc = "tags" /\ SyncShape /\ sync.no \in 1 .. MaxSyncs
  BY ItemIs DEF SetTags, SyncInv
<1>2. UNCHANGED <<library, entry, admin, promised, agreed>> /\ sync' = NextItem(sync)
  BY DEF SetTags
<1>3. PICK hide \in BOOLEAN : hide <=> sync.tags = "hidden"
  <2>1. (sync.tags = "hidden") \in BOOLEAN
    OBVIOUS
  <2>. QED  BY <2>1, Zenon
<1>. DEFINE row == [mirror[i] EXCEPT !.hidden = hide]
<1>4. row \in MirrorRows /\ row.at = mirror[i].at /\ row.title = mirror[i].title /\ row.hidden = hide
  <2>1. mirror[i] \in MirrorRows /\ hide \in BOOLEAN
    BY <1>1 DEF SyncShape
  <2>. QED  BY <2>1 DEF MirrorRows
<1>5. IF mirror[i].at # 0 THEN mirror' = [mirror EXCEPT ![i] = row] ELSE mirror' = mirror
  BY <1>1, <1>3 DEF SetTags, Rows, SyncShape
<1>. HIDE DEF row
<1>6. /\ mirror' \in [Tokens -> MirrorRows]
      /\ \A t \in Tokens : mirror'[t].at = mirror[t].at /\ mirror'[t].title = mirror[t].title
      /\ \A t \in Tokens : t # i => mirror'[t].hidden = mirror[t].hidden
      /\ mirror[i].at # 0 => mirror'[i].hidden = hide
  BY <1>1, <1>4, <1>5 DEF SyncShape
<1>7. i \in promised => mirror'[i].hidden
  BY <1>1, <1>3, <1>6 DEF SyncInv, Promise
<1>8. mirror[i].at \in {0, sync.no}
  BY <1>1 DEF SyncInv, Met
<1>9. sync.quiet => mirror[i].at = sync.no /\ mirror'[i].title = entry[i].title /\ mirror'[i].hidden = entry[i].hidden
  <2>. SUFFICES ASSUME sync.quiet
                PROVE  mirror[i].at = sync.no /\ mirror'[i].title = entry[i].title /\ mirror'[i].hidden = entry[i].hidden
    OBVIOUS
  <2>1. mirror[i].at = sync.no /\ mirror[i].title = entry[i].title /\ (sync.tags = "hidden") = entry[i].hidden
    BY <1>1 DEF SyncInv, Mirrored
  <2>2. entry[i].hidden \in BOOLEAN /\ sync.no # 0
    BY <1>1 DEF SyncShape
  <2>3. hide = entry[i].hidden
    BY <1>3, <2>1, <2>2
  <2>. QED  BY <1>1, <1>6, <2>1, <2>2, <2>3
<1>. QED  BY <1>1, <1>2, <1>6, <1>7, <1>8, <1>9, NextStep

LEMMA EndSyncStep == ASSUME SyncInv, EndSync PROVE SyncInv' /\ PrunedRightly /\ ShrinkBounded
<1>1. sync \in Syncs /\ sync.pc = "end" /\ SyncShape /\ sync.no \in 1 .. MaxSyncs /\ sync.facets \in TagMaps /\ sync.todo = <<>>
  BY DEF EndSync, SyncInv, SyncShape, Syncs
<1>2. sync' = [pc |-> "idle", no |-> sync.no, before |-> 0, page |-> 1, todo |-> <<>>, seen |-> 0,
               facets |-> sync.facets, tags |-> "none", errors |-> FALSE, quiet |-> TRUE, met |-> {}, whole |-> TRUE]
  BY DEF EndSync, NoSync
<1>3. sync' \in Syncs
  BY <1>1, <1>2, FreshSync DEF SyncPlaces
<1>4. sync'.pc = "idle" /\ sync'.no = sync.no /\ sync'.met = {} /\ sync'.todo = <<>>
  BY <1>2
<1>5. UNCHANGED <<library, entry, admin>>
  BY DEF EndSync
<1>6. \A t \in Tokens : mirror[t] \in MirrorRows /\ mirror[t].at \in Nat /\ mirror[t].at <= sync.no
  BY <1>1 DEF SyncShape, MirrorRows
<1>7. Absent \in MirrorRows /\ Absent.at = 0
  <2>1. 0 \in 0 .. MaxSyncs
    BY CatalogSyncAssumption
  <2>. QED  BY <2>1 DEF Absent, MirrorRows
<1>8. /\ mirror' \in [Tokens -> MirrorRows]
      /\ \A t \in Tokens : mirror'[t] = mirror[t] \/ (Trusted /\ t \in Stale /\ mirror'[t] = Absent)
      /\ Trusted => \A t \in Stale : mirror'[t] = Absent
  <2>1. CASE Trusted
    BY <1>1, <1>6, <1>7, <2>1 DEF EndSync, Stale, Rows
  <2>2. CASE ~Trusted
    BY <1>1, <2>2 DEF EndSync, SyncShape
  <2>. QED  BY <2>1, <2>2
<1>9. promised' \subseteq promised /\ \A t \in promised' : mirror'[t] = mirror[t]
  <2>1. promised \subseteq Tokens
    BY <1>1 DEF SyncShape
  <2>. QED  BY <1>8, <2>1 DEF EndSync
<1>10. SyncShape'
  <2>1. \A t \in Tokens : mirror'[t].at <= sync'.no
    BY <1>1, <1>4, <1>6, <1>7, <1>8
  <2>2. agreed' \in BOOLEAN
    BY <1>1 DEF EndSync, Syncs, Trusted
  <2>. QED  BY <1>1, <1>3, <1>4, <1>5, <1>8, <1>9, <2>1, <2>2 DEF SyncShape
<1>11. Promise'
  <2>1. admin.pc \in {"read", "put"} => admin.token \notin promised /\ admin.beside
    BY <1>1 DEF SyncInv, Promise
  <2>2. \A t \in promised : mirror[t].at # 0 /\ mirror[t].hidden /\ entry[t].hidden
    BY DEF SyncInv, Promise
  <2>. QED  BY <1>4, <1>5, <1>9, <2>1, <2>2 DEF Promise
<1>12. Met' /\ Mirrored'
  BY <1>4 DEF Met, Mirrored
<1>13. \A n : Past(n)
  BY <1>1 DEF Past
<1>14. \A t : ~InHand(t)
  BY <1>1, NoSyncIs DEF InHand
<1>15. sync.whole /\ ~sync.errors => \A t \in Tokens : Listed(t) => mirror[t].at \in {0, sync.no}
  BY <1>1, <1>13, <1>14 DEF SyncInv, Met, Listed
<1>16. Agreeing'
  <2>. SUFFICES ASSUME agreed', NEW t \in Tokens PROVE (mirror'[t].at # 0 <=> Listed(t)) /\ (mirror'[t].at # 0 => AsIs(t)')
    BY <1>4, <1>5 DEF Agreeing, Listed
  <2>1. Trusted /\ sync.quiet /\ sync.whole /\ ~sync.errors
    BY DEF EndSync, Trusted
  <2>2. mirror[t].at = sync.no => Listed(t)
    BY <1>1, <2>1 DEF SyncInv, Mirrored
  <2>3. Listed(t) => mirror[t].at = sync.no /\ AsIs(t)
    BY <1>1, <1>13, <1>14, <2>1 DEF SyncInv, Mirrored, Listed
  <2>4. CASE mirror[t].at = sync.no
    <3>1. t \notin Stale
      BY <1>6, <2>4 DEF Stale
    <3>2. mirror'[t] = mirror[t]
      BY <1>8, <3>1
    <3>. QED  BY <1>1, <1>5, <2>2, <2>3, <2>4, <3>2 DEF AsIs
  <2>5. CASE mirror[t].at # sync.no
    <3>1. mirror'[t].at = 0
      BY <1>1, <1>6, <1>7, <1>8, <2>1, <2>5 DEF Stale, Rows
    <3>. QED  BY <2>3, <2>5, <3>1
  <2>. QED  BY <2>4, <2>5
<1>17. PrunedRightly
  <2>. SUFFICES ASSUME sync.whole, NEW t \in Rows, Listed(t) PROVE mirror'[t].at # 0
    BY DEF PrunedRightly
  <2>1. t \in Tokens /\ mirror[t].at # 0
    BY DEF Rows
  <2>2. CASE mirror'[t] = mirror[t]
    BY <2>1, <2>2
  <2>3. CASE mirror'[t] # mirror[t]
    <3>1. Trusted /\ t \in Stale /\ ~sync.errors
      BY <1>8, <2>1, <2>3 DEF Trusted
    <3>. QED  BY <1>1, <1>6, <1>15, <2>1, <3>1 DEF Stale
  <2>. QED  BY <2>2, <2>3
<1>18. ShrinkBounded
  <2>. DEFINE left == {t \in Tokens : mirror'[t].at # 0}
  <2>. SUFFICES ASSUME sync.before >= Least, sync.seen = Cardinality(sync.met), sync.met \subseteq Rows,
                       \E r \in Rows : mirror'[r].at = 0
                PROVE  4 * Cardinality(left) >= 3 * sync.before
    BY DEF ShrinkBounded
  <2>1. Trusted
    BY <1>8 DEF Rows
  <2>2. \A t \in sync.met : t \in Tokens /\ mirror[t].at = sync.no
    BY DEF SyncInv, Met, Rows
  <2>3. sync.met \subseteq left
    <3>1. \A t \in sync.met : t \notin Stale
      BY <1>1, <1>6, <2>2 DEF Stale
    <3>. QED  BY <1>1, <1>8, <2>2, <3>1
  <2>4. IsFiniteSet(left) /\ Cardinality(left) \in Nat
    <3>1. left \subseteq Tokens
      OBVIOUS
    <3>. QED  BY <3>1, CatalogSyncAssumption, FS_Subset, FS_CardinalityType
  <2>. HIDE DEF left
  <2>5. Cardinality(sync.met) <= Cardinality(left)
    BY <2>3, <2>4, FS_Subset
  <2>6. ~(sync.seen * 4 < sync.before * 3) /\ sync.seen \in Nat /\ sync.before \in Nat
    BY <1>1, <2>1 DEF Trusted, Syncs
  <2>7. sync.seen <= Cardinality(left)
    BY <2>5
  <2>. QED  BY <2>4, <2>6, <2>7
<1>. QED  BY <1>10, <1>11, <1>12, <1>16, <1>17, <1>18 DEF SyncInv

LEMMA SyncInductive == SyncInv /\ [CatalogNext]_catalogVars => SyncInv' /\ [PrunedRightly /\ ShrinkBounded]_catalogVars
<1>. SUFFICES ASSUME SyncInv, [CatalogNext]_catalogVars PROVE SyncInv' /\ [PrunedRightly /\ ShrinkBounded]_catalogVars
  OBVIOUS
<1>1. CASE UNCHANGED catalogVars
  <2>1. SyncShape' /\ Promise'
    BY <1>1 DEF catalogVars, SyncInv, SyncShape, Promise, Item
  <2>2. Met'
    BY <1>1 DEF catalogVars, SyncInv, Met, Item, Past, InHand
  <2>3. Mirrored'
    BY <1>1 DEF catalogVars, SyncInv, Mirrored, Item, Past, InHand, Listed, AsIs
  <2>4. Agreeing'
    BY <1>1 DEF catalogVars, SyncInv, Agreeing, Listed, AsIs
  <2>. QED  BY <1>1, <2>1, <2>2, <2>3, <2>4 DEF SyncInv
<1>2. CASE EndSync
  BY <1>2, EndSyncStep
<1>3. ASSUME SyncInv', sync.pc # "end" \/ sync'.pc # "idle" PROVE SyncInv' /\ [PrunedRightly /\ ShrinkBounded]_catalogVars
  BY <1>3 DEF PrunedRightly, ShrinkBounded
<1>4. CASE StartSync \/ Prefetch \/ List \/ ListFails \/ Process \/ Facets \/ SetTags
  <2>1. sync.pc # "end" \/ sync'.pc # "idle"
    BY <1>4 DEF StartSync, Prefetch, List, ListFails, Process, Facets, SetTags
  <2>. QED  BY <1>3, <1>4, <2>1, StartSyncStep, PrefetchStep, ListStep, ListFailsStep, ProcessStep, FacetsStep, SetTagsStep
<1>5. CASE AdminStep \/ \E t \in Tokens : Upload(t) \/ Withdraw(t) \/ Retitle(t) \/ Edit(t) \/ Delete(t)
                          \/ \E op \in {"hide", "unhide"} : Hide(t, op)
  <2>1. sync'.pc = sync.pc
    <3>1. [sync EXCEPT !.quiet = FALSE].pc = sync.pc /\ [sync EXCEPT !.quiet = FALSE, !.whole = FALSE].pc = sync.pc
      BY DisturbedIs DEF SyncInv, Alike
    <3>. QED  BY <1>5, <3>1 DEF AdminStep, ReadTags, PutTags, Push, DeleteRow, Upload, Withdraw, Retitle, Edit, Delete, Hide, Disturbed
  <2>2. SyncInv'
    BY <1>5, ReadTagsStep, PutTagsStep, PushStep, DeleteRowStep, UploadStep, WithdrawStep, RetitleStep, EditStep, DeleteStep,
       HideStep DEF AdminStep
  <2>. QED  BY <1>3, <2>1, <2>2
<1>. QED  BY <1>1, <1>2, <1>4, <1>5 DEF CatalogNext, SyncStep

LEMMA SyncInvSafe == SyncInv => MirrorSafe
<1>. SUFFICES ASSUME SyncInv PROVE MirrorSafe
  OBVIOUS
<1>1. CatalogType
  BY DEF SyncInv, SyncShape, CatalogType, Syncs, SyncPlaces, Admins, MirrorRows
<1>2. HideStays
  BY DEF SyncInv, Promise, HideStays
<1>3. MirrorAgrees
  BY DEF SyncInv, Agreeing, AsIs, MirrorAgrees, Rows
<1>. QED  BY <1>1, <1>2, <1>3 DEF MirrorSafe
-----------------------------------------------------------------------------
(***************************************************************************)
(* The recorder.  Of every title, what it has counted and what it still    *)
(* owes is never more than the plays that were seen past half, and exactly *)
(* those unless the title is excused (Tally): the play in hand is owed     *)
(* until its write, and is the one that is on or the last that was.        *)
(***************************************************************************)
PlayRecords == [n : Nat, media : Playable, seen : Nat, over : BOOLEAN]
Good(m, point) == 2 * point >= Real(m) /\ point > 0
\* The numbers of the plays seen past half, and of those over.
PastHalf(m) == {p.n : p \in Enough(m)}
PastHalfOver(m) == {p.n : p \in {q \in Enough(m) : q.over}}

PlaysShape ==
  /\ plays \subseteq PlayRecords /\ IsFiniteSet(plays) /\ Count <= MaxPlays
  /\ \A p \in plays : p.n < Count
  /\ \A p, q \in plays : p.n = q.n \/ (~p.over /\ ~q.over) => p = q
  /\ playing \in [media : Playable \cup {Stopped}, at : Nat, told : BOOLEAN]
  /\ \A p \in plays : ~p.over => p.media = playing.media
  /\ playing.media = Stopped => ~playing.told
  /\ playing.media # Stopped => \E p \in plays : ~p.over

TrackShape ==
  /\ tracked \in [key : Playable \cup {Stopped}, known : BOOLEAN, length : Nat, most : Nat]
  /\ tracked.known => tracked.key \in Titles
  /\ tracked.key # Stopped => tracked.length \in {0, Real(tracked.key)}
  /\ finalizing \in [pc : {"none", "record", "rotate", "resolve"}, media : Playable \cup {Stopped}, at : Nat, length : Nat]
  /\ finalizing.pc = "none" => finalizing.media = Stopped
  /\ finalizing.pc # "none" => finalizing.media # tracked.key
  /\ finalizing.media # Stopped => finalizing.length \in {0, Real(finalizing.media)}
  /\ finalizing.pc \in {"record", "rotate"} => Played(tracked)
  /\ recorded \in [Titles -> Nat] /\ sunk \in [Titles -> Nat] /\ excused \subseteq Playable

\* Of a title that is not excused, the play that is on is the one in hand.
Watched ==
  \A p \in plays : ~p.over /\ p.media \notin excused =>
    /\ tracked.key = p.media => finalizing.pc = "none" /\ p.seen = tracked.most
    /\ tracked.key # p.media => p.seen = IF finalizing.pc # "none" /\ finalizing.media = p.media THEN finalizing.at ELSE 0
\* And its length is known.
Measured ==
  tracked.key \in Titles \ excused /\ Length[tracked.key] # 0 => tracked.known /\ tracked.length = Real(tracked.key)

\* What is still to be written of a title, when it is written before these places.
Owed(m, past) ==
  IF tracked.key = m /\ Good(m, tracked.most) /\ finalizing.pc \notin past THEN 1
  ELSE IF finalizing.pc # "none" /\ finalizing.media = m /\ Good(m, finalizing.at) THEN 1 ELSE 0
Tally(n, past, m) ==
  /\ n + Owed(m, past) <= Cardinality(PastHalf(m))
  /\ n <= Cardinality(PastHalfOver(m))
  /\ tracked.key = m /\ finalizing.pc # "none" => n + Owed(m, past) <= Cardinality(PastHalfOver(m))
  /\ m \notin excused /\ Length[m] # 0 => n + Owed(m, past) = Cardinality(PastHalf(m))
Tallies == \A m \in Titles : Tally(recorded[m], {"rotate", "resolve"}, m) /\ Tally(sunk[m], {"resolve"}, m)

CompInv == PlaysShape /\ TrackShape /\ Watched /\ Measured /\ Tallies

\* A set and its image by an injective function are of one size.
LEMMA SameSize ==
  ASSUME NEW S, IsFiniteSet(S), NEW f, f = [x \in S |-> f[x]], \A x, y \in S : f[x] = f[y] => x = y
  PROVE  IsFiniteSet({f[x] : x \in S}) /\ Cardinality({f[x] : x \in S}) = Cardinality(S)
<1>. DEFINE T == {f[x] : x \in S}
<1>1. f \in Surjection(S, T)
  BY DEF Surjection
<1>2. f \in Injection(S, T)
  BY DEF Injection, IsInjective
<1>3. ExistsBijection(S, T)
  BY <1>1, <1>2 DEF ExistsBijection, Bijection
<1>. QED  BY <1>3, FS_Bijection

LEMMA RealIs ==
  ASSUME NEW m \in Playable
  PROVE  Real(m) \in Nat \ {0} /\ (m \in Titles /\ Length[m] # 0 => Real(m) = Length[m])
BY CompletionAssumption DEF Playable, Real

LEMMA StoppedIs == Stopped \notin Playable /\ Titles \subseteq Playable /\ Playable \subseteq Titles \cup {Alien} /\ Alien \notin Titles
BY CompletionAssumption DEF Playable

LEMMA HalfIs ==
  ASSUME NEW m
  PROVE  /\ \A x : x \in PastHalf(m) <=> \E p \in plays : p.n = x /\ p.media = m /\ Good(m, p.seen)
         /\ \A x : x \in PastHalfOver(m) <=> \E p \in plays : p.n = x /\ p.media = m /\ Good(m, p.seen) /\ p.over
BY DEF PastHalf, PastHalfOver, Enough, Good

\* They are as many as the plays, and the ones over are not more.
LEMMA HalfSize ==
  ASSUME PlaysShape, NEW m
  PROVE  /\ IsFiniteSet(PastHalf(m)) /\ IsFiniteSet(PastHalfOver(m))
         /\ Cardinality(PastHalf(m)) \in Nat /\ Cardinality(PastHalfOver(m)) \in Nat
         /\ PastHalfOver(m) \subseteq PastHalf(m) /\ Cardinality(PastHalfOver(m)) <= Cardinality(PastHalf(m))
         /\ Cardinality(PastHalf(m)) = Cardinality(Enough(m)) /\ Cardinality(PastHalf(m)) <= Count /\ Count \in Nat
<1>. DEFINE f == [p \in Enough(m) |-> p.n]
<1>1. IsFiniteSet(plays) /\ Enough(m) \subseteq plays
  BY DEF PlaysShape, Enough
<1>2. IsFiniteSet(Enough(m)) /\ Cardinality(Enough(m)) <= Count /\ Count \in Nat
  BY <1>1, FS_Subset, FS_CardinalityType DEF Count
<1>3. \A p, q \in Enough(m) : f[p] = f[q] => p = q
  BY <1>1 DEF PlaysShape
<1>4. {f[p] : p \in Enough(m)} = PastHalf(m)
  BY DEF PastHalf
<1>5. f = [p \in Enough(m) |-> f[p]]
  OBVIOUS
<1>. HIDE DEF f
<1>6. IsFiniteSet(PastHalf(m)) /\ Cardinality(PastHalf(m)) = Cardinality(Enough(m))
  BY <1>2, <1>3, <1>4, <1>5, SameSize
<1>7. PastHalfOver(m) \subseteq PastHalf(m)
  BY DEF PastHalf, PastHalfOver
<1>. QED  BY <1>2, <1>6, <1>7, FS_Subset, FS_CardinalityType

\* The plays with something noted on each of them.
LEMMA NotedPlays ==
  ASSUME PlaysShape, NEW f \in [plays -> PlayRecords], \A p \in plays : f[p].n = p.n
  PROVE  /\ {f[p] : p \in plays} \subseteq PlayRecords /\ IsFiniteSet({f[p] : p \in plays})
         /\ Cardinality({f[p] : p \in plays}) = Count
         /\ \A p, q \in {f[x] : x \in plays} : p.n = q.n => p = q
<1>1. f = [p \in plays |-> f[p]] /\ IsFiniteSet(plays)
  BY DEF PlaysShape
<1>2. \A p, q \in plays : f[p].n = f[q].n => p = q
  BY DEF PlaysShape
<1>3. IsFiniteSet({f[p] : p \in plays}) /\ Cardinality({f[p] : p \in plays}) = Count
  BY <1>1, <1>2, SameSize DEF Count
<1>. QED  BY <1>2, <1>3

\* All of them over.
LEMMA EndedPlays ==
  ASSUME PlaysShape, NEW E, E = {[p EXCEPT !.over = TRUE] : p \in plays}
  PROVE  /\ E \subseteq PlayRecords /\ IsFiniteSet(E) /\ Cardinality(E) = Count
         /\ \A p, q \in E : p.n = q.n => p = q
         /\ \A p \in E : p.over /\ p.n < Count /\ \E q \in plays : q.n = p.n /\ q.media = p.media /\ q.seen = p.seen
         /\ \A q \in plays : \E p \in E : q.n = p.n /\ q.media = p.media /\ q.seen = p.seen
<1>. DEFINE f == [p \in plays |-> [p EXCEPT !.over = TRUE]]
<1>1. \A p \in plays : /\ f[p] \in PlayRecords /\ f[p].n = p.n /\ f[p].media = p.media /\ f[p].seen = p.seen /\ f[p].over
                       /\ p.n < Count
  BY DEF PlaysShape, PlayRecords
<1>2. E = {f[p] : p \in plays} /\ f \in [plays -> PlayRecords]
  BY <1>1
<1>. HIDE DEF f
<1>3. \A p \in plays : f[p].n = p.n
  BY <1>1
<1>4. /\ E \subseteq PlayRecords /\ IsFiniteSet(E) /\ Cardinality(E) = Count
      /\ \A p, q \in E : p.n = q.n => p = q
  BY <1>2, <1>3, NotedPlays
<1>. QED  BY <1>1, <1>2, <1>4

\* The one that is on seen at a point.
LEMMA SeenOnes ==
  ASSUME PlaysShape, NEW at \in Nat
  PROVE  /\ SeenPlays(at) \subseteq PlayRecords /\ IsFiniteSet(SeenPlays(at)) /\ Cardinality(SeenPlays(at)) = Count
         /\ \A p, q \in SeenPlays(at) : p.n = q.n => p = q
         /\ \A p \in SeenPlays(at) : \E q \in plays :
              /\ q.n = p.n /\ q.media = p.media /\ q.over = p.over
              /\ p.seen = IF q.over \/ at <= q.seen THEN q.seen ELSE at
         /\ \A q \in plays : \E p \in SeenPlays(at) :
              /\ q.n = p.n /\ q.media = p.media /\ q.over = p.over
              /\ p.seen = IF q.over \/ at <= q.seen THEN q.seen ELSE at
<1>. DEFINE f == [p \in plays |-> IF p.over THEN p ELSE [p EXCEPT !.seen = IF at > @ THEN at ELSE @]]
<1>1. \A p \in plays : /\ f[p] \in PlayRecords /\ f[p].n = p.n /\ f[p].media = p.media /\ f[p].over = p.over
                       /\ f[p].seen = IF p.over \/ at <= p.seen THEN p.seen ELSE at
  <2>. SUFFICES ASSUME NEW p \in plays
                PROVE  /\ f[p] \in PlayRecords /\ f[p].n = p.n /\ f[p].media = p.media /\ f[p].over = p.over
                       /\ f[p].seen = IF p.over \/ at <= p.seen THEN p.seen ELSE at
    OBVIOUS
  <2>1. p \in PlayRecords /\ p.seen \in Nat
    BY DEF PlaysShape, PlayRecords
  <2>2. CASE p.over
    BY <2>1, <2>2
  <2>3. CASE ~p.over
    <3>. DEFINE seen == IF at > p.seen THEN at ELSE p.seen
    <3>1. f[p] = [p EXCEPT !.seen = seen] /\ seen \in Nat /\ (seen = IF p.over \/ at <= p.seen THEN p.seen ELSE at)
      BY <2>1, <2>3
    <3>. HIDE DEF seen, f
    <3>2. [p EXCEPT !.seen = seen] \in PlayRecords /\ [p EXCEPT !.seen = seen].n = p.n /\ [p EXCEPT !.seen = seen].media = p.media
          /\ [p EXCEPT !.seen = seen].over = p.over /\ [p EXCEPT !.seen = seen].seen = seen
      BY <2>1, <3>1 DEF PlayRecords
    <3>. QED  BY <3>1, <3>2
  <2>. QED  BY <2>2, <2>3
<1>2. SeenPlays(at) = {f[p] : p \in plays} /\ f \in [plays -> PlayRecords]
  BY <1>1 DEF SeenPlays
<1>. HIDE DEF f
<1>3. \A p \in plays : f[p].n = p.n
  BY <1>1
<1>4. /\ SeenPlays(at) \subseteq PlayRecords /\ IsFiniteSet(SeenPlays(at)) /\ Cardinality(SeenPlays(at)) = Count
      /\ \A p, q \in SeenPlays(at) : p.n = q.n => p = q
  BY <1>2, <1>3, NotedPlays
<1>. QED  BY <1>1, <1>2, <1>4

LEMMA CompInitially == CompletionInit => CompInv
<1>. SUFFICES ASSUME CompletionInit PROVE CompInv
  OBVIOUS
<1>1. plays = {} /\ Count = 0 /\ IsFiniteSet(plays) /\ playing = Silence /\ tracked = Nobody /\ finalizing = NoPoll
      /\ recorded = [m \in Titles |-> 0] /\ sunk = [m \in Titles |-> 0] /\ excused = {}
  BY FS_EmptySet DEF CompletionInit, Count
<1>2. PlaysShape
  BY <1>1, CompletionAssumption DEF PlaysShape, Silence
<1>3. TrackShape
  BY <1>1 DEF TrackShape, Nobody, NoPoll
<1>4. Watched /\ Measured
  BY <1>1, CompletionAssumption DEF Watched, Measured, Nobody
<1>5. \A m \in Titles : PastHalf(m) = {} /\ PastHalfOver(m) = {}
  BY <1>1 DEF PastHalf, PastHalfOver, Enough
<1>6. \A m \in Titles : Owed(m, {"rotate", "resolve"}) = 0 /\ Owed(m, {"resolve"}) = 0
  BY <1>1, CompletionAssumption DEF Owed, Nobody, NoPoll
<1>7. Cardinality({}) = 0
  BY FS_EmptySet
<1>8. Tallies
  BY <1>1, <1>5, <1>6, <1>7, CompletionAssumption DEF Tallies, Tally, Nobody
<1>. QED  BY <1>2, <1>3, <1>4, <1>8 DEF CompInv

\* The halves of the next state, in terms of its plays.
LEMMA HalfNext ==
  ASSUME NEW m
  PROVE  /\ \A x : x \in PastHalf(m)' <=> \E p \in plays' : p.n = x /\ p.media = m /\ Good(m, p.seen)
         /\ \A x : x \in PastHalfOver(m)' <=> \E p \in plays' : p.n = x /\ p.media = m /\ Good(m, p.seen) /\ p.over
BY DEF PastHalf, PastHalfOver, Enough, Good

\* A play that is on is not among those over: with it they are one more.
LEMMA OneMore ==
  ASSUME PlaysShape, NEW m, NEW q \in plays, ~q.over
  PROVE  /\ Cardinality(PastHalfOver(m)) + 1 <= Cardinality(PastHalf(m) \cup {q.n})
         /\ q.n \notin PastHalf(m) => Cardinality(PastHalf(m) \cup {q.n}) = Cardinality(PastHalf(m)) + 1
<1>1. q.n \notin PastHalfOver(m)
  BY HalfIs DEF PlaysShape
<1>2. /\ IsFiniteSet(PastHalf(m)) /\ IsFiniteSet(PastHalfOver(m)) /\ PastHalfOver(m) \subseteq PastHalf(m)
      /\ Cardinality(PastHalf(m)) \in Nat /\ Cardinality(PastHalfOver(m)) \in Nat
  BY HalfSize
<1>3. Cardinality(PastHalfOver(m) \cup {q.n}) = Cardinality(PastHalfOver(m)) + 1
  BY <1>1, <1>2, FS_AddElement
<1>4. q.n \notin PastHalf(m) => Cardinality(PastHalf(m) \cup {q.n}) = Cardinality(PastHalf(m)) + 1
  BY <1>2, FS_AddElement
<1>5. IsFiniteSet(PastHalf(m) \cup {q.n})
  BY <1>2, FS_AddElement
<1>6. PastHalfOver(m) \cup {q.n} \subseteq PastHalf(m) \cup {q.n}
  BY <1>2
<1>7. Cardinality(PastHalfOver(m) \cup {q.n}) <= Cardinality(PastHalf(m) \cup {q.n})
  BY <1>5, <1>6, FS_Subset
<1>. QED  BY <1>3, <1>4, <1>7

\* When what is on ends, those past half are those over.
LEMMA EndHalf ==
  ASSUME PlaysShape, NEW m \in Playable, NEW E, E = {[p EXCEPT !.over = TRUE] : p \in plays},
         \/ plays' = E
         \/ \E r : plays' = E \cup {r} /\ r.seen = 0
  PROVE  PastHalf(m)' = PastHalf(m) /\ PastHalfOver(m)' = PastHalf(m)
<1>1. ~Good(m, 0)
  BY DEF Good
<1>2. /\ \A p \in E : p.over /\ \E q \in plays : q.n = p.n /\ q.media = p.media /\ q.seen = p.seen
      /\ \A q \in plays : \E p \in E : q.n = p.n /\ q.media = p.media /\ q.seen = p.seen
  BY EndedPlays, SMTT(30)
<1>3. E \subseteq plays' /\ \A p \in plays' : p \in E \/ p.seen = 0
  OBVIOUS
<1>4. \A x : x \in PastHalf(m) <=> \E p \in plays : p.n = x /\ p.media = m /\ Good(m, p.seen)
  BY HalfIs
<1>5. /\ \A x : x \in PastHalf(m)' <=> \E p \in plays' : p.n = x /\ p.media = m /\ Good(m, p.seen)
      /\ \A x : x \in PastHalfOver(m)' <=> \E p \in plays' : p.n = x /\ p.media = m /\ Good(m, p.seen) /\ p.over
  BY HalfNext
<1>6. \A x : x \in PastHalf(m)' => x \in PastHalf(m)
  BY <1>1, <1>2, <1>3, <1>4, <1>5, SMTT(30)
<1>8. \A x : x \in PastHalfOver(m)' => x \in PastHalf(m)'
  BY <1>5
<1>7. \A x : x \in PastHalf(m) => x \in PastHalfOver(m)' /\ x \in PastHalf(m)'
  <2>. SUFFICES ASSUME NEW x \in PastHalf(m) PROVE x \in PastHalfOver(m)'
    BY <1>8
  <2>1. PICK q \in plays : q.n = x /\ q.media = m /\ Good(m, q.seen)
    BY <1>4
  <2>2. PICK p \in E : q.n = p.n /\ q.media = p.media /\ q.seen = p.seen /\ p.over
    BY <1>2
  <2>3. p \in plays'
    BY <1>3
  <2>. QED  BY <1>5, <2>1, <2>2, <2>3
<1>. QED  BY <1>6, <1>7, <1>8

\* A poll can only add the play that is on.
LEMMA SeenHalf ==
  ASSUME PlaysShape, NEW m \in Playable, plays' = SeenPlays(playing.at)
  PROVE  /\ PastHalfOver(m)' = PastHalfOver(m)
         /\ m # playing.media => PastHalf(m)' = PastHalf(m) /\ PastHalfOver(m) = PastHalf(m)
         /\ \A q \in plays : ~q.over /\ m = playing.media =>
              PastHalf(m)' = IF Good(m, playing.at) THEN PastHalf(m) \cup {q.n} ELSE PastHalf(m)
<1>. DEFINE at == playing.at
<1>1. at \in Nat /\ Real(m) \in Nat
  BY RealIs DEF PlaysShape
<1>2. \A p \in plays : p.seen \in Nat
  BY DEF PlaysShape, PlayRecords
<1>3. /\ \A p \in plays' : \E q \in plays :
           /\ q.n = p.n /\ q.media = p.media /\ q.over = p.over
           /\ p.seen = IF q.over \/ at <= q.seen THEN q.seen ELSE at
      /\ \A q \in plays : \E p \in plays' :
           /\ q.n = p.n /\ q.media = p.media /\ q.over = p.over
           /\ p.seen = IF q.over \/ at <= q.seen THEN q.seen ELSE at
  BY <1>1, SeenOnes
<1>4. \A q \in plays : \A s : s = (IF q.over \/ at <= q.seen THEN q.seen ELSE at) =>
        (Good(m, s) <=> Good(m, q.seen) \/ (~q.over /\ Good(m, at)))
  BY <1>1, <1>2 DEF Good
<1>. HIDE DEF at
<1>5. /\ \A p \in plays' : \E q \in plays :
           /\ q.n = p.n /\ q.media = p.media /\ q.over = p.over
           /\ Good(m, p.seen) <=> Good(m, q.seen) \/ (~q.over /\ Good(m, at))
      /\ \A q \in plays : \E p \in plays' :
           /\ q.n = p.n /\ q.media = p.media /\ q.over = p.over
           /\ Good(m, p.seen) <=> Good(m, q.seen) \/ (~q.over /\ Good(m, at))
  BY <1>3, <1>4
<1>6. \A q \in plays : ~q.over => q.media = playing.media
  BY DEF PlaysShape
<1>7. \A p, q \in plays : ~p.over /\ ~q.over => p = q
  BY DEF PlaysShape
<1>8. /\ \A x : x \in PastHalf(m)' <=> \E p \in plays' : p.n = x /\ p.media = m /\ Good(m, p.seen)
      /\ \A x : x \in PastHalfOver(m)' <=> \E p \in plays' : p.n = x /\ p.media = m /\ Good(m, p.seen) /\ p.over
  BY HalfNext
<1>9. /\ \A x : x \in PastHalf(m) <=> \E p \in plays : p.n = x /\ p.media = m /\ Good(m, p.seen)
      /\ \A x : x \in PastHalfOver(m) <=> \E p \in plays : p.n = x /\ p.media = m /\ Good(m, p.seen) /\ p.over
  BY HalfIs
<1>10. PastHalfOver(m)' = PastHalfOver(m)
  <2>1. \A x : x \in PastHalfOver(m)' => x \in PastHalfOver(m)
    BY <1>5, <1>8, <1>9
  <2>2. \A x : x \in PastHalfOver(m) => x \in PastHalfOver(m)'
    BY <1>5, <1>8, <1>9
  <2>. QED  BY <2>1, <2>2
<1>11. ASSUME m # playing.media PROVE PastHalf(m)' = PastHalf(m) /\ PastHalfOver(m) = PastHalf(m)
  <2>1. \A x : x \in PastHalf(m) <=> x \in PastHalfOver(m)
    BY <1>6, <1>9, <1>11
  <2>2. \A x : x \in PastHalf(m)' <=> x \in PastHalfOver(m)'
    BY <1>5, <1>6, <1>8, <1>11
  <2>. QED  BY <1>10, <2>1, <2>2
<1>12. ASSUME NEW q \in plays, ~q.over, m = playing.media
       PROVE  PastHalf(m)' = IF Good(m, at) THEN PastHalf(m) \cup {q.n} ELSE PastHalf(m)
  <2>1. q.media = m /\ \A p \in plays : ~p.over => p = q
    BY <1>6, <1>7, <1>12
  <2>2. \A x : x \in PastHalf(m)' => x \in PastHalf(m) \/ (x = q.n /\ Good(m, at))
    BY <1>5, <1>8, <1>9, <2>1
  <2>3. \A x : x \in PastHalf(m) => x \in PastHalf(m)'
    BY <1>5, <1>8, <1>9
  <2>4. Good(m, at) => q.n \in PastHalf(m)'
    BY <1>5, <1>8, <1>12, <2>1
  <2>5. CASE Good(m, at)
    BY <2>2, <2>3, <2>4, <2>5
  <2>6. CASE ~Good(m, at)
    BY <2>2, <2>3, <2>6
  <2>. QED  BY <2>5, <2>6
<1>. QED  BY <1>10, <1>11, <1>12 DEF at

LEMMA SeenShape == PlaysShape /\ plays' = SeenPlays(playing.at) /\ UNCHANGED playing => PlaysShape'
<1>. SUFFICES ASSUME PlaysShape, plays' = SeenPlays(playing.at), playing' = playing PROVE PlaysShape'
  OBVIOUS
<1>1. playing.at \in Nat
  BY DEF PlaysShape
<1>2. /\ plays' \subseteq PlayRecords /\ IsFiniteSet(plays') /\ Cardinality(plays') = Count
      /\ \A p, q \in plays' : p.n = q.n => p = q
  BY <1>1, SeenOnes
<1>3. /\ \A p \in plays' : \E q \in plays : q.n = p.n /\ q.media = p.media /\ q.over = p.over
      /\ \A q \in plays : \E p \in plays' : q.n = p.n /\ q.media = p.media /\ q.over = p.over
  BY <1>1, SeenOnes
<1>4. Count' = Count
  BY <1>2 DEF Count
<1>5. \A p \in plays' : p.n < Count'
  BY <1>3, <1>4 DEF PlaysShape
<1>6. \A p, q \in plays' : p.n = q.n \/ (~p.over /\ ~q.over) => p = q
  BY <1>2, <1>3 DEF PlaysShape
<1>7. \A p \in plays' : ~p.over => p.media = playing'.media
  BY <1>3 DEF PlaysShape
<1>8. playing'.media # Stopped => \E p \in plays' : ~p.over
  BY <1>3 DEF PlaysShape
<1>9. Count <= MaxPlays
  BY DEF PlaysShape
<1>10. playing' \in [media : Playable \cup {Stopped}, at : Nat, told : BOOLEAN] /\ (playing'.media = Stopped => ~playing'.told)
  BY DEF PlaysShape
<1>. QED  BY <1>2, <1>4, <1>5, <1>6, <1>7, <1>8, <1>9, <1>10 DEF PlaysShape

Pasts == {{"rotate", "resolve"}, {"resolve"}}

\* With nothing written, the tallies stand when each stands for its number.
LEMMA TalliesStand ==
  ASSUME TrackShape, Tallies, recorded' = recorded, sunk' = sunk,
         \A m \in Titles, past \in Pasts, n \in Nat : Tally(n, past, m) => Tally(n, past, m)'
  PROVE  Tallies'
<1>. SUFFICES ASSUME NEW m \in Titles
              PROVE  Tally(recorded[m], {"rotate", "resolve"}, m)' /\ Tally(sunk[m], {"resolve"}, m)'
  BY DEF Tallies
<1>1. recorded[m] \in Nat /\ sunk[m] \in Nat
  BY DEF TrackShape
<1>2. PICK i \in Nat, j \in Nat : i = recorded[m] /\ j = sunk[m]
  BY <1>1
<1>3. Tally(i, {"rotate", "resolve"}, m) /\ Tally(j, {"resolve"}, m)
  BY <1>2 DEF Tallies
<1>4. Tally(i, {"rotate", "resolve"}, m)' /\ Tally(j, {"resolve"}, m)'
  BY <1>2, <1>3 DEF Pasts
<1>5. i = recorded'[m] /\ j = sunk'[m]
  BY <1>2
<1>. QED  BY <1>4, <1>5 DEF Tally

LEMMA OwedIs == \A m, past : Owed(m, past) \in {0, 1} /\ Owed(m, past)' \in {0, 1}
BY DEF Owed

\* A play that ends.
LEMMA EndStep ==
  ASSUME CompInv, NEW E, E = {[p EXCEPT !.over = TRUE] : p \in plays},
         \/ plays' = E
         \/ \E r : plays' = E \cup {r} /\ r.seen = 0,
         UNCHANGED <<tracked, finalizing, recorded, sunk>>, excused \subseteq excused', excused' \subseteq Playable
  PROVE  TrackShape' /\ Measured' /\ Tallies'
<1>1. PlaysShape /\ TrackShape /\ Measured /\ Tallies
  BY DEF CompInv
<1>2. TrackShape'
  BY <1>1 DEF TrackShape, Played
<1>3. Measured'
  BY <1>1 DEF Measured
<1>4. ASSUME NEW m \in Titles, NEW past \in Pasts, NEW n \in Nat, Tally(n, past, m)
      PROVE  Tally(n, past, m)'
  <2>1. m \in Playable
    BY StoppedIs
  <2>2. PastHalf(m)' = PastHalf(m) /\ PastHalfOver(m)' = PastHalf(m)
    BY <1>1, <2>1, EndHalf
  <2>3. Cardinality(PastHalf(m)) \in Nat /\ Cardinality(PastHalfOver(m)) \in Nat /\ Cardinality(PastHalfOver(m)) <= Cardinality(PastHalf(m))
    BY <1>1, HalfSize
  <2>4. Owed(m, past)' = Owed(m, past)
    BY DEF Owed
  <2>. QED  BY <1>4, <2>2, <2>3, <2>4, OwedIs DEF Tally
<1>5. Tallies'
  BY <1>1, <1>4, TalliesStand
<1>. QED  BY <1>2, <1>3, <1>5

LEMMA PlayStep == CompInv /\ Play => CompInv'
<1>. SUFFICES ASSUME CompInv, Play PROVE CompInv'
  OBVIOUS
<1>1. PlaysShape /\ TrackShape
  BY DEF CompInv
<1>. DEFINE E == {[p EXCEPT !.over = TRUE] : p \in plays}
<1>2. PICK m \in Playable, told \in BOOLEAN :
        /\ Count < MaxPlays /\ playing' = [media |-> m, at |-> 0, told |-> told]
        /\ plays' = E \cup {[n |-> Count, media |-> m, seen |-> 0, over |-> FALSE]}
        /\ excused' = IF m \in {playing.media, tracked.key, finalizing.media} THEN excused \cup {m} ELSE excused
        /\ UNCHANGED <<tracked, finalizing, recorded, sunk>>
  BY DEF Play
<1>. DEFINE new == [n |-> Count, media |-> m, seen |-> 0, over |-> FALSE]
<1>3. /\ E \subseteq PlayRecords /\ IsFiniteSet(E) /\ Cardinality(E) = Count
      /\ \A p, q \in E : p.n = q.n => p = q
      /\ \A p \in E : p.over /\ p.n < Count
  BY <1>1, EndedPlays
<1>4. Count \in Nat
  BY <1>3, FS_CardinalityType
<1>5. new \in PlayRecords /\ new.n = Count /\ new.media = m /\ new.seen = 0 /\ new.over = FALSE /\ new \notin E /\ plays' = E \cup {new}
  BY <1>2, <1>3, <1>4 DEF PlayRecords
<1>. HIDE DEF E, new
<1>6. IsFiniteSet(plays') /\ Count' = Count + 1
  BY <1>3, <1>5, FS_AddElement DEF Count
<1>7. PlaysShape'
  <2>1. plays' \subseteq PlayRecords /\ Count' <= MaxPlays
    BY <1>2, <1>3, <1>4, <1>5, <1>6, CompletionAssumption
  <2>2. \A p \in plays' : p.n < Count'
    <3>1. \A p \in E : p.n \in Nat /\ p.n < Count
      BY <1>3 DEF PlayRecords
    <3>. QED  BY <1>4, <1>5, <1>6, <3>1
  <2>3. \A p, q \in plays' : p.n = q.n \/ (~p.over /\ ~q.over) => p = q
    <3>1. \A p \in E : p.n # Count
      BY <1>3, <1>4 DEF PlayRecords
    <3>. QED  BY <1>3, <1>5, <3>1
  <2>4. playing' \in [media : Playable \cup {Stopped}, at : Nat, told : BOOLEAN] /\ playing'.media = m /\ m # Stopped
    BY <1>2, StoppedIs
  <2>5. \A p \in plays' : ~p.over => p.media = playing'.media
    BY <1>3, <1>5, <2>4
  <2>6. \E p \in plays' : ~p.over
    BY <1>5
  <2>. QED  BY <1>6, <2>1, <2>2, <2>3, <2>4, <2>5, <2>6 DEF PlaysShape
<1>8. TrackShape' /\ Measured' /\ Tallies'
  <2>1. excused \subseteq excused' /\ excused' \subseteq Playable
    BY <1>1, <1>2 DEF TrackShape
  <2>. QED  BY <1>2, <1>5, <2>1, EndStep DEF E
<1>9. Watched'
  <2>1. \A p \in plays' : ~p.over => p = new
    BY <1>3, <1>5
  <2>2. m \notin excused' => m # tracked'.key /\ m # finalizing'.media
    BY <1>2
  <2>. QED  BY <1>5, <2>1, <2>2 DEF Watched
<1>. QED  BY <1>7, <1>8, <1>9 DEF CompInv

LEMMA HaltStep == CompInv /\ Halt => CompInv'
<1>. SUFFICES ASSUME CompInv, Halt PROVE CompInv'
  OBVIOUS
<1>1. PlaysShape /\ TrackShape
  BY DEF CompInv
<1>. DEFINE E == {[p EXCEPT !.over = TRUE] : p \in plays}
<1>2. playing' = Silence /\ plays' = E /\ UNCHANGED <<tracked, finalizing, recorded, sunk, excused>>
  BY DEF Halt
<1>3. /\ E \subseteq PlayRecords /\ IsFiniteSet(E) /\ Cardinality(E) = Count
      /\ \A p, q \in E : p.n = q.n => p = q
      /\ \A p \in E : p.over /\ p.n < Count
  BY <1>1, EndedPlays
<1>4. TrackShape' /\ Measured' /\ Tallies'
  <2>1. excused \subseteq excused' /\ excused' \subseteq Playable
    BY <1>1, <1>2 DEF TrackShape
  <2>. QED  BY <1>2, <2>1, EndStep
<1>. HIDE DEF E
<1>5. Count' = Count
  BY <1>2, <1>3 DEF Count
<1>6. playing' \in [media : Playable \cup {Stopped}, at : Nat, told : BOOLEAN] /\ ~playing'.told /\ playing'.media = Stopped
  BY <1>2 DEF Silence
<1>7. PlaysShape'
  BY <1>1, <1>2, <1>3, <1>5, <1>6 DEF PlaysShape
<1>8. Watched'
  BY <1>2, <1>3 DEF Watched
<1>. QED  BY <1>4, <1>7, <1>8 DEF CompInv

LEMMA AdvanceStep == CompInv /\ Advance => CompInv'
<1>. SUFFICES ASSUME CompInv, Advance PROVE CompInv'
  OBVIOUS
<1>1. PlaysShape /\ TrackShape /\ Watched /\ Measured /\ Tallies
  BY DEF CompInv
<1>2. playing' = [playing EXCEPT !.at = @ + 1] /\ UNCHANGED <<plays, tracked, finalizing, recorded, sunk, excused>>
  BY DEF Advance
<1>3. playing' \in [media : Playable \cup {Stopped}, at : Nat, told : BOOLEAN] /\ playing'.media = playing.media /\ playing'.told = playing.told
  BY <1>1, <1>2 DEF PlaysShape
<1>4. PlaysShape'
  BY <1>1, <1>2, <1>3 DEF PlaysShape, Count
<1>5. TrackShape' /\ Watched' /\ Measured'
  BY <1>1, <1>2 DEF TrackShape, Played, Watched, Measured
<1>6. Tallies'
  <2>1. \A m \in Titles : PastHalf(m)' = PastHalf(m) /\ PastHalfOver(m)' = PastHalfOver(m)
    BY <1>2 DEF PastHalf, PastHalfOver, Enough
  <2>2. \A m \in Titles, past \in Pasts : Owed(m, past)' = Owed(m, past)
    BY <1>2 DEF Owed
  <2>3. \A m \in Titles, past \in Pasts, n \in Nat : Tally(n, past, m) => Tally(n, past, m)'
    BY <1>2, <2>1, <2>2 DEF Tally
  <2>. QED  BY <1>1, <1>2, <2>3, TalliesStand
<1>. QED  BY <1>4, <1>5, <1>6 DEF CompInv

LEMMA ToldIs ==
  ASSUME PlaysShape
  PROVE  Told \in Nat /\ (playing.media # Stopped => Told \in {0, Real(playing.media)})
BY RealIs DEF PlaysShape, Told

LEMMA SameStep == CompInv /\ Same => CompInv'
<1>. SUFFICES ASSUME CompInv, Same PROVE CompInv'
  OBVIOUS
<1>1. PlaysShape /\ TrackShape /\ Watched /\ Measured /\ Tallies
  BY DEF CompInv
<1>2. /\ finalizing.pc = "none" /\ playing.media = tracked.key /\ plays' = SeenPlays(playing.at)
      /\ tracked' = [tracked EXCEPT !.most = IF playing.at > @ THEN playing.at ELSE @, !.length = IF @ = 0 THEN Told ELSE @]
      /\ UNCHANGED <<playing, finalizing, recorded, sunk, excused>>
  BY DEF Same
<1>. DEFINE at == playing.at
            most == IF at > tracked.most THEN at ELSE tracked.most
            length == IF tracked.length = 0 THEN Told ELSE tracked.length
<1>3. /\ tracked' = [tracked EXCEPT !.most = most, !.length = length] /\ at \in Nat /\ tracked.most \in Nat /\ most \in Nat
      /\ length \in Nat
  BY <1>1, <1>2, ToldIs DEF PlaysShape, TrackShape
<1>4. tracked.key # Stopped => length \in {0, Real(tracked.key)}
  BY <1>1, <1>2, ToldIs DEF TrackShape
<1>5. tracked.length # 0 => length = tracked.length
  OBVIOUS
<1>. HIDE DEF length
<1>6. /\ tracked' \in [key : Playable \cup {Stopped}, known : BOOLEAN, length : Nat, most : Nat]
      /\ tracked'.key = tracked.key /\ tracked'.known = tracked.known /\ tracked'.length = length /\ tracked'.most = most
  <2>1. tracked \in [key : Playable \cup {Stopped}, known : BOOLEAN, length : Nat, most : Nat]
    BY <1>1 DEF TrackShape
  <2>. HIDE DEF most
  <2>. QED  BY <1>3, <2>1
<1>7. PlaysShape'
  BY <1>1, <1>2, SeenShape
<1>8. TrackShape'
  BY <1>1, <1>2, <1>4, <1>6 DEF TrackShape
<1>9. Measured'
  <2>. SUFFICES ASSUME tracked.key \in Titles \ excused, Length[tracked.key] # 0 PROVE tracked.known /\ length = Real(tracked.key)
    BY <1>2, <1>6 DEF Measured
  <2>1. tracked.known /\ tracked.length = Real(tracked.key) /\ Real(tracked.key) # 0
    BY <1>1, RealIs, StoppedIs DEF Measured
  <2>. QED  BY <1>5, <2>1
<1>10. Watched'
  <2>. SUFFICES ASSUME NEW p \in plays', ~p.over, p.media \notin excused
                PROVE  tracked.key = p.media /\ p.seen = most
    BY <1>2, <1>6 DEF Watched
  <2>1. PICK q \in plays : /\ q.n = p.n /\ q.media = p.media /\ q.over = p.over
                           /\ p.seen = IF q.over \/ at <= q.seen THEN q.seen ELSE at
    BY <1>1, <1>2, <1>3, SeenOnes
  <2>2. q.media = tracked.key /\ q.seen = tracked.most
    BY <1>1, <1>2, <2>1 DEF PlaysShape, Watched
  <2>. QED  BY <1>3, <2>1, <2>2
<1>11. ASSUME NEW m \in Titles, NEW past \in Pasts, NEW n \in Nat, Tally(n, past, m)
       PROVE  Tally(n, past, m)'
  <2>1. m \in Playable /\ Real(m) \in Nat /\ m # Stopped
    BY StoppedIs, RealIs
  <2>2. finalizing.pc \notin past
    BY <1>2 DEF Pasts
  <2>3. Owed(m, past) = (IF tracked.key = m /\ Good(m, tracked.most) THEN 1 ELSE 0)
    BY <1>2, <2>2 DEF Owed
  <2>4. Owed(m, past)' = (IF tracked.key = m /\ Good(m, most) THEN 1 ELSE 0)
    BY <1>2, <1>6, <2>2 DEF Owed
  <2>5. Good(m, most) <=> Good(m, at) \/ Good(m, tracked.most)
    BY <1>3, <2>1 DEF Good
  <2>6. PastHalfOver(m)' = PastHalfOver(m) /\ (m # playing.media => PastHalf(m)' = PastHalf(m))
    BY <1>1, <1>2, <2>1, SeenHalf
  <2>7. Cardinality(PastHalf(m)) \in Nat /\ Cardinality(PastHalfOver(m)) \in Nat
    BY <1>1, HalfSize
  <2>. HIDE DEF most, at
  <2>8. CASE m # tracked.key
    BY <1>2, <1>6, <1>11, <2>3, <2>4, <2>6, <2>7, <2>8 DEF Tally
  <2>9. CASE m = tracked.key
    <3>1. PICK q \in plays : ~q.over
      BY <1>1, <1>2, <2>1, <2>9 DEF PlaysShape
    <3>2. PastHalf(m)' = IF Good(m, at) THEN PastHalf(m) \cup {q.n} ELSE PastHalf(m)
      BY <1>1, <1>2, <2>1, <2>9, <3>1, SeenHalf DEF at
    <3>3. /\ Cardinality(PastHalfOver(m)) + 1 <= Cardinality(PastHalf(m) \cup {q.n})
          /\ q.n \notin PastHalf(m) => Cardinality(PastHalf(m) \cup {q.n}) = Cardinality(PastHalf(m)) + 1
      BY <1>1, <3>1, OneMore
    <3>4. q.media = m /\ (m \notin excused => q.seen = tracked.most)
      BY <1>1, <1>2, <2>9, <3>1 DEF PlaysShape, Watched
    <3>5. m \notin excused => (q.n \in PastHalf(m) <=> Good(m, tracked.most))
      <4>1. q.n \in PastHalf(m) <=> Good(m, q.seen)
        BY <1>1, <3>4, HalfIs DEF PlaysShape
      <4>. QED  BY <3>4, <4>1
    <3>6. q.n \in PastHalf(m) => PastHalf(m) \cup {q.n} = PastHalf(m)
      OBVIOUS
    <3>7. \/ Cardinality(PastHalf(m) \cup {q.n}) = Cardinality(PastHalf(m))
          \/ Cardinality(PastHalf(m) \cup {q.n}) = Cardinality(PastHalf(m)) + 1
      BY <3>3, <3>6
    <3>. QED  BY <1>2, <1>6, <1>11, <2>3, <2>4, <2>5, <2>6, <2>7, <2>9, <3>2, <3>3, <3>5, <3>6, <3>7 DEF Tally
  <2>. QED  BY <2>8, <2>9
<1>12. Tallies'
  BY <1>1, <1>2, <1>11, TalliesStand
<1>. QED  BY <1>7, <1>8, <1>9, <1>10, <1>12 DEF CompInv

\* The play in hand counts when it was seen past half, its length being known.
LEMMA PlayedIs ==
  ASSUME TrackShape, tracked.key # Stopped
  PROVE  /\ Played(tracked) => tracked.key \in Titles /\ Good(tracked.key, tracked.most)
         /\ tracked.known /\ tracked.length = Real(tracked.key) => (Good(tracked.key, tracked.most) => Played(tracked))
<1>1. tracked.key \in Playable /\ tracked.length \in {0, Real(tracked.key)} /\ tracked.most \in Nat /\ (tracked.known => tracked.key \in Titles)
  BY DEF TrackShape
<1>2. Real(tracked.key) \in Nat \ {0}
  BY <1>1, RealIs
<1>. QED  BY <1>1, <1>2 DEF Played, Good

LEMMA MovedStep == CompInv /\ Moved => CompInv'
<1>. SUFFICES ASSUME CompInv, Moved PROVE CompInv'
  OBVIOUS
<1>1. PlaysShape /\ TrackShape /\ Watched /\ Measured /\ Tallies
  BY DEF CompInv
<1>2. /\ finalizing.pc = "none" /\ playing.media # tracked.key /\ plays' = SeenPlays(playing.at)
      /\ finalizing' = [pc |-> IF Played(tracked) THEN "record" ELSE "resolve", media |-> playing.media, at |-> playing.at, length |-> Told]
      /\ UNCHANGED <<playing, tracked, recorded, sunk, excused>>
  BY DEF Moved
<1>. DEFINE at == playing.at
<1>3. at \in Nat /\ playing.media \in Playable \cup {Stopped} /\ Told \in Nat /\ (playing.media # Stopped => Told \in {0, Real(playing.media)})
  BY <1>1, ToldIs DEF PlaysShape
<1>4. /\ finalizing'.pc = (IF Played(tracked) THEN "record" ELSE "resolve") /\ finalizing'.media = playing.media
      /\ finalizing'.at = at /\ finalizing'.length = Told
  BY <1>2
<1>5. PlaysShape'
  BY <1>1, <1>2, SeenShape
<1>6. TrackShape'
  <2>1. finalizing' \in [pc : {"none", "record", "rotate", "resolve"}, media : Playable \cup {Stopped}, at : Nat, length : Nat]
    BY <1>2, <1>3
  <2>2. finalizing'.pc \in {"record", "rotate"} => Played(tracked')
    BY <1>2, <1>4
  <2>3. finalizing'.pc # "none" /\ finalizing'.media # tracked'.key
    BY <1>2, <1>4
  <2>4. finalizing'.media # Stopped => finalizing'.length \in {0, Real(finalizing'.media)}
    BY <1>3, <1>4
  <2>5. /\ tracked' = tracked /\ excused' = excused /\ recorded' = recorded /\ sunk' = sunk
    BY <1>2
  <2>. QED  BY <1>1, <2>1, <2>2, <2>3, <2>4, <2>5 DEF TrackShape, Played
<1>7. Measured'
  BY <1>1, <1>2 DEF Measured
<1>8. Watched'
  <2>. SUFFICES ASSUME NEW p \in plays', ~p.over, p.media \notin excused
                PROVE  tracked.key # p.media /\ finalizing'.media = p.media /\ p.seen = finalizing'.at
    BY <1>2, <1>4 DEF Watched
  <2>1. PICK q \in plays : /\ q.n = p.n /\ q.media = p.media /\ q.over = p.over
                           /\ p.seen = IF q.over \/ at <= q.seen THEN q.seen ELSE at
    BY <1>1, <1>2, <1>3, SeenOnes
  <2>2. q.media = playing.media /\ q.seen = 0
    BY <1>1, <1>2, <2>1 DEF PlaysShape, Watched
  <2>3. p.seen = at
    BY <1>3, <2>1, <2>2
  <2>. QED  BY <1>2, <1>4, <2>1, <2>2, <2>3
<1>9. ASSUME NEW m \in Titles, NEW past \in Pasts, NEW n \in Nat, Tally(n, past, m)
      PROVE  Tally(n, past, m)'
  <2>1. m \in Playable /\ m # Stopped
    BY StoppedIs
  <2>2. "none" \notin past /\ "record" \notin past /\ "resolve" \in past
    BY DEF Pasts
  <2>3. Owed(m, past) = (IF tracked.key = m /\ Good(m, tracked.most) THEN 1 ELSE 0)
    BY <1>2, <2>2 DEF Owed
  <2>4. Owed(m, past)' = (IF tracked.key = m /\ Good(m, tracked.most) /\ Played(tracked) THEN 1
                          ELSE IF playing.media = m /\ Good(m, at) THEN 1 ELSE 0)
    BY <1>2, <1>4, <2>2 DEF Owed
  <2>5. PastHalfOver(m)' = PastHalfOver(m) /\ (m # playing.media => PastHalf(m)' = PastHalf(m) /\ PastHalfOver(m) = PastHalf(m))
    BY <1>1, <1>2, <2>1, SeenHalf
  <2>6. Cardinality(PastHalf(m)) \in Nat /\ Cardinality(PastHalfOver(m)) \in Nat
    BY <1>1, HalfSize
  <2>. HIDE DEF at
  <2>7. CASE m = tracked.key
    <3>1. m \notin excused /\ Length[m] # 0 => (Good(m, tracked.most) => Played(tracked))
      BY <1>1, <2>1, <2>7, PlayedIs DEF Measured
    <3>. QED  BY <1>2, <1>9, <2>3, <2>4, <2>5, <2>6, <2>7, <3>1 DEF Tally
  <2>8. CASE m # tracked.key /\ m # playing.media
    BY <1>2, <1>9, <2>3, <2>4, <2>5, <2>6, <2>8 DEF Tally
  <2>9. CASE m = playing.media
    <3>1. PICK q \in plays : ~q.over
      BY <1>1, <2>1, <2>9 DEF PlaysShape
    <3>2. PastHalf(m)' = IF Good(m, at) THEN PastHalf(m) \cup {q.n} ELSE PastHalf(m)
      BY <1>1, <1>2, <2>1, <2>9, <3>1, SeenHalf DEF at
    <3>3. /\ Cardinality(PastHalfOver(m)) + 1 <= Cardinality(PastHalf(m) \cup {q.n})
          /\ q.n \notin PastHalf(m) => Cardinality(PastHalf(m) \cup {q.n}) = Cardinality(PastHalf(m)) + 1
      BY <1>1, <3>1, OneMore
    <3>4. q.media = m /\ (m \notin excused => q.seen = 0)
      BY <1>1, <1>2, <2>9, <3>1 DEF PlaysShape, Watched
    <3>5. m \notin excused => q.n \notin PastHalf(m)
      <4>1. q.n \in PastHalf(m) <=> Good(m, q.seen)
        BY <1>1, <3>4, HalfIs DEF PlaysShape
      <4>. QED  BY <3>4, <4>1 DEF Good
    <3>6. q.n \in PastHalf(m) => PastHalf(m) \cup {q.n} = PastHalf(m)
      OBVIOUS
    <3>7. \/ Cardinality(PastHalf(m) \cup {q.n}) = Cardinality(PastHalf(m))
          \/ Cardinality(PastHalf(m) \cup {q.n}) = Cardinality(PastHalf(m)) + 1
      BY <3>3, <3>6
    <3>. QED  BY <1>2, <1>9, <2>3, <2>4, <2>5, <2>6, <2>9, <3>2, <3>3, <3>5, <3>7 DEF Tally
  <2>. QED  BY <2>7, <2>8, <2>9
<1>10. Tallies'
  BY <1>1, <1>2, <1>9, TalliesStand
<1>. QED  BY <1>5, <1>6, <1>7, <1>8, <1>10 DEF CompInv

\* A write, of the row or of the turn, or its failure: the place it moves to
\* is in "past" and the one it leaves is not.
LEMMA WriteTally ==
  ASSUME CompInv, UNCHANGED <<plays, tracked>>, excused \subseteq excused',
         NEW n \in Nat, NEW i \in Nat, NEW past \in Pasts, NEW m \in Titles, Tally(n, past, m),
         finalizing.pc \in {"record", "rotate"}, finalizing'.pc \in {"rotate", "resolve"},
         finalizing'.media = finalizing.media, finalizing'.at = finalizing.at,
         \/ /\ m = tracked.key
            /\ finalizing.pc \notin past /\ finalizing'.pc \in past
            /\ i = n + 1 \/ (i = n /\ m \in excused')
         \/ m # tracked.key /\ i = n
         \/ (finalizing.pc \in past <=> finalizing'.pc \in past) /\ i = n
  PROVE  Tally(i, past, m)'
<1>1. PlaysShape /\ TrackShape
  BY DEF CompInv
<1>2. PastHalf(m)' = PastHalf(m) /\ PastHalfOver(m)' = PastHalfOver(m)
  BY DEF PastHalf, PastHalfOver, Enough
<1>3. Cardinality(PastHalf(m)) \in Nat /\ Cardinality(PastHalfOver(m)) \in Nat
  BY <1>1, HalfSize
<1>4. finalizing.pc # "none" /\ finalizing'.pc # "none" /\ finalizing.media # tracked.key
  BY <1>1 DEF TrackShape
<1>5. CASE m = tracked.key /\ finalizing.pc \notin past /\ finalizing'.pc \in past
  <2>1. Good(m, tracked.most)
    BY <1>1, <1>5, PlayedIs, StoppedIs DEF TrackShape
  <2>2. Owed(m, past) = 1 /\ Owed(m, past)' = 0
    BY <1>4, <1>5, <2>1 DEF Owed
  <2>. QED  BY <1>2, <1>3, <1>4, <1>5, <2>2 DEF Tally
<1>6. CASE ~(m = tracked.key /\ finalizing.pc \notin past /\ finalizing'.pc \in past)
  <2>1. Owed(m, past)' = Owed(m, past) /\ i = n
    BY <1>4, <1>6 DEF Owed
  <2>. QED  BY <1>2, <1>3, <1>4, <2>1 DEF Tally
<1>. QED  BY <1>5, <1>6

\* What a write leaves of the rest.
LEMMA WriteRest ==
  ASSUME CompInv, UNCHANGED <<playing, plays, tracked>>, excused \subseteq excused', excused' \subseteq Playable,
         recorded' \in [Titles -> Nat], sunk' \in [Titles -> Nat],
         NEW pc \in {"rotate", "resolve"}, finalizing.pc \in {"record", "rotate"}, finalizing' = [finalizing EXCEPT !.pc = pc]
  PROVE  /\ PlaysShape' /\ TrackShape' /\ Watched' /\ Measured'
         /\ finalizing'.pc = pc /\ finalizing'.media = finalizing.media /\ finalizing'.at = finalizing.at
<1>1. PlaysShape /\ TrackShape /\ Watched /\ Measured
  BY DEF CompInv
<1>2. /\ finalizing' \in [pc : {"none", "record", "rotate", "resolve"}, media : Playable \cup {Stopped}, at : Nat, length : Nat]
      /\ finalizing'.pc = pc /\ finalizing'.media = finalizing.media /\ finalizing'.at = finalizing.at /\ finalizing'.length = finalizing.length
  BY <1>1 DEF TrackShape
<1>3. PlaysShape'
  BY <1>1 DEF PlaysShape, Count
<1>4. TrackShape'
  BY <1>1, <1>2 DEF TrackShape, Played
<1>5. Watched' /\ Measured'
  BY <1>1, <1>2 DEF Watched, Measured
<1>. QED  BY <1>2, <1>3, <1>4, <1>5

LEMMA RecordStep == CompInv /\ Record => CompInv'
<1>. SUFFICES ASSUME CompInv, Record PROVE CompInv'
  OBVIOUS
<1>. DEFINE k == tracked.key
<1>1. TrackShape /\ Tallies /\ k \in Titles
  BY PlayedIs, StoppedIs DEF CompInv, Record, TrackShape, Played
<1>2. /\ finalizing.pc = "record" /\ finalizing' = [finalizing EXCEPT !.pc = "rotate"] /\ UNCHANGED <<playing, plays, tracked, sunk>>
      /\ \/ recorded' = [recorded EXCEPT ![k] = @ + 1] /\ excused' = excused
         \/ recorded' = recorded /\ excused' = excused \cup {k}
  BY DEF Record
<1>3. /\ recorded' \in [Titles -> Nat] /\ sunk' \in [Titles -> Nat] /\ excused \subseteq excused' /\ excused' \subseteq Playable
      /\ \A m \in Titles : recorded[m] \in Nat /\ recorded'[m] \in Nat /\ sunk[m] \in Nat
      /\ \A m \in Titles : IF m = k THEN recorded'[m] = recorded[m] + 1 \/ (recorded'[m] = recorded[m] /\ m \in excused')
                                    ELSE recorded'[m] = recorded[m]
  BY <1>1, <1>2, StoppedIs DEF TrackShape
<1>4. /\ PlaysShape' /\ TrackShape' /\ Watched' /\ Measured'
      /\ finalizing'.pc = "rotate" /\ finalizing'.media = finalizing.media /\ finalizing'.at = finalizing.at
  BY <1>2, <1>3, WriteRest
<1>5. ASSUME NEW m \in Titles
      PROVE  Tally(recorded[m], {"rotate", "resolve"}, m)' /\ Tally(sunk[m], {"resolve"}, m)'
  <2>1. PICK a \in Nat, b \in Nat, c \in Nat : a = recorded[m] /\ b = recorded'[m] /\ c = sunk[m]
    BY <1>3
  <2>2. Tally(a, {"rotate", "resolve"}, m) /\ Tally(c, {"resolve"}, m)
    BY <1>1, <2>1 DEF Tallies
  <2>3. {"rotate", "resolve"} \in Pasts /\ {"resolve"} \in Pasts
    BY DEF Pasts
  <2>4. IF m = k THEN b = a + 1 \/ (b = a /\ m \in excused') ELSE b = a
    BY <1>3, <2>1
  <2>. HIDE DEF k
  <2>5. Tally(b, {"rotate", "resolve"}, m)'
    BY <1>2, <1>3, <1>4, <2>2, <2>3, <2>4, WriteTally DEF k
  <2>6. Tally(c, {"resolve"}, m)'
    BY <1>2, <1>3, <1>4, <2>2, <2>3, WriteTally
  <2>7. b = recorded'[m] /\ c = sunk'[m]
    BY <1>2, <2>1
  <2>. QED  BY <2>5, <2>6, <2>7 DEF Tally
<1>6. Tallies'
  BY <1>5 DEF Tallies
<1>. QED  BY <1>4, <1>6 DEF CompInv

LEMMA RotateStep == CompInv /\ Rotate => CompInv'
<1>. SUFFICES ASSUME CompInv, Rotate PROVE CompInv'
  OBVIOUS
<1>. DEFINE k == tracked.key
<1>1. TrackShape /\ Tallies /\ k \in Titles
  BY PlayedIs, StoppedIs DEF CompInv, Rotate, TrackShape, Played
<1>2. /\ finalizing.pc = "rotate" /\ finalizing' = [finalizing EXCEPT !.pc = "resolve"] /\ UNCHANGED <<playing, plays, tracked, recorded>>
      /\ \/ sunk' = [sunk EXCEPT ![k] = @ + 1] /\ excused' = excused
         \/ sunk' = sunk /\ excused' = excused \cup {k}
  BY DEF Rotate
<1>3. /\ recorded' \in [Titles -> Nat] /\ sunk' \in [Titles -> Nat] /\ excused \subseteq excused' /\ excused' \subseteq Playable
      /\ \A m \in Titles : sunk[m] \in Nat /\ sunk'[m] \in Nat /\ recorded[m] \in Nat
      /\ \A m \in Titles : IF m = k THEN sunk'[m] = sunk[m] + 1 \/ (sunk'[m] = sunk[m] /\ m \in excused')
                                    ELSE sunk'[m] = sunk[m]
  BY <1>1, <1>2, StoppedIs DEF TrackShape
<1>4. /\ PlaysShape' /\ TrackShape' /\ Watched' /\ Measured'
      /\ finalizing'.pc = "resolve" /\ finalizing'.media = finalizing.media /\ finalizing'.at = finalizing.at
  BY <1>2, <1>3, WriteRest
<1>5. ASSUME NEW m \in Titles
      PROVE  Tally(recorded[m], {"rotate", "resolve"}, m)' /\ Tally(sunk[m], {"resolve"}, m)'
  <2>1. PICK a \in Nat, b \in Nat, c \in Nat : a = sunk[m] /\ b = sunk'[m] /\ c = recorded[m]
    BY <1>3
  <2>2. Tally(c, {"rotate", "resolve"}, m) /\ Tally(a, {"resolve"}, m)
    BY <1>1, <2>1 DEF Tallies
  <2>3. {"rotate", "resolve"} \in Pasts /\ {"resolve"} \in Pasts
    BY DEF Pasts
  <2>4. IF m = k THEN b = a + 1 \/ (b = a /\ m \in excused') ELSE b = a
    BY <1>3, <2>1
  <2>. HIDE DEF k
  <2>5. Tally(b, {"resolve"}, m)'
    BY <1>2, <1>3, <1>4, <2>2, <2>3, <2>4, WriteTally DEF k
  <2>6. Tally(c, {"rotate", "resolve"}, m)'
    BY <1>2, <1>3, <1>4, <2>2, <2>3, WriteTally
  <2>7. b = sunk'[m] /\ c = recorded'[m]
    BY <1>2, <2>1
  <2>. QED  BY <2>5, <2>6, <2>7 DEF Tally
<1>6. Tallies'
  BY <1>5 DEF Tallies
<1>. QED  BY <1>4, <1>6 DEF CompInv

LEMMA ResolveNewStep == CompInv /\ ResolveNew => CompInv'
<1>. SUFFICES ASSUME CompInv, ResolveNew PROVE CompInv'
  OBVIOUS
<1>1. PlaysShape /\ TrackShape /\ Watched /\ Measured /\ Tallies
  BY DEF CompInv
<1>. DEFINE m == finalizing.media len == finalizing.length at == finalizing.at
<1>2. /\ finalizing.pc = "resolve" /\ finalizing' = NoPoll /\ UNCHANGED <<playing, plays, recorded, sunk>>
      /\ \/ /\ m \in Titles /\ excused' = excused
            /\ tracked' = [key |-> m, known |-> TRUE, length |-> IF len = 0 THEN Length[m] ELSE len, most |-> at]
         \/ /\ tracked' = [key |-> m, known |-> FALSE, length |-> len, most |-> at]
            /\ excused' = IF m = Stopped THEN excused ELSE excused \cup {m}
  BY DEF ResolveNew
<1>3. m \in Playable \cup {Stopped} /\ len \in Nat /\ at \in Nat /\ (m # Stopped => len \in {0, Real(m)}) /\ m # tracked.key
  BY <1>1, <1>2 DEF TrackShape
<1>4. m \in Titles => Length[m] \in Nat /\ Length[m] \in {0, Real(m)} /\ m # Stopped
  BY CompletionAssumption, RealIs, StoppedIs
<1>5. /\ tracked' \in [key : Playable \cup {Stopped}, known : BOOLEAN, length : Nat, most : Nat]
      /\ tracked'.key = m /\ tracked'.most = at /\ (tracked'.known => m \in Titles)
      /\ m # Stopped => tracked'.length \in {0, Real(m)}
      /\ excused \subseteq excused' /\ excused' \subseteq Playable
  <2>1. excused \subseteq Playable
    BY <1>1 DEF TrackShape
  <2>. HIDE DEF m, len, at
  <2>2. CASE /\ m \in Titles /\ excused' = excused
             /\ tracked' = [key |-> m, known |-> TRUE, length |-> IF len = 0 THEN Length[m] ELSE len, most |-> at]
    <3>. DEFINE length == IF len = 0 THEN Length[m] ELSE len
    <3>1. length \in Nat /\ length \in {0, Real(m)}
      BY <1>3, <1>4, <2>2
    <3>. HIDE DEF length
    <3>. QED  BY <1>3, <2>1, <2>2, <3>1 DEF length
  <2>3. CASE /\ tracked' = [key |-> m, known |-> FALSE, length |-> len, most |-> at]
             /\ excused' = IF m = Stopped THEN excused ELSE excused \cup {m}
    BY <1>3, <2>1, <2>3
  <2>. QED  BY <1>2, <2>2, <2>3
<1>6. /\ finalizing'.pc = "none" /\ finalizing'.media = Stopped
      /\ finalizing' \in [pc : {"none", "record", "rotate", "resolve"}, media : Playable \cup {Stopped}, at : Nat, length : Nat]
  BY <1>2 DEF NoPoll
<1>7. PlaysShape'
  BY <1>1, <1>2 DEF PlaysShape, Count
<1>8. TrackShape'
  BY <1>1, <1>2, <1>5, <1>6 DEF TrackShape
<1>9. Measured'
  <2>. SUFFICES ASSUME m \in Titles, m \notin excused', Length[m] # 0 PROVE tracked'.known /\ tracked'.length = Real(m)
    BY <1>5 DEF Measured
  <2>. HIDE DEF m, len, at
  <2>1. tracked' = [key |-> m, known |-> TRUE, length |-> IF len = 0 THEN Length[m] ELSE len, most |-> at]
    BY <1>2, <1>4
  <2>. QED  BY <1>3, <1>4, <2>1
<1>10. Watched'
  <2>. SUFFICES ASSUME NEW p \in plays, ~p.over, p.media \notin excused
                PROVE  (m = p.media => p.seen = at) /\ (m # p.media => p.seen = 0)
    BY <1>2, <1>5, <1>6 DEF Watched
  <2>. QED  BY <1>1, <1>2 DEF Watched
<1>11. ASSUME NEW x \in Titles, NEW past \in Pasts, NEW n \in Nat, Tally(n, past, x)
       PROVE  Tally(n, past, x)'
  <2>1. PastHalf(x)' = PastHalf(x) /\ PastHalfOver(x)' = PastHalfOver(x)
    BY <1>2 DEF PastHalf, PastHalfOver, Enough
  <2>2. "resolve" \in past /\ "none" \notin past
    BY DEF Pasts
  <2>3. Owed(x, past) = IF m = x /\ Good(x, at) THEN 1 ELSE 0
    BY <1>2, <2>2 DEF Owed
  <2>4. Owed(x, past)' = IF m = x /\ Good(x, at) THEN 1 ELSE 0
    BY <1>5, <1>6, <2>2 DEF Owed
  <2>5. x \notin excused' => x \notin excused
    BY <1>5
  <2>. QED  BY <1>6, <1>11, <2>1, <2>3, <2>4, <2>5 DEF Tally
<1>12. Tallies'
  BY <1>1, <1>2, <1>11, TalliesStand
<1>. QED  BY <1>7, <1>8, <1>9, <1>10, <1>12 DEF CompInv

LEMMA RebootStep == CompInv /\ Reboot => CompInv'
<1>. SUFFICES ASSUME CompInv, Reboot PROVE CompInv'
  OBVIOUS
<1>1. PlaysShape /\ TrackShape /\ Watched /\ Measured /\ Tallies
  BY DEF CompInv
<1>2. /\ tracked' = Nobody /\ finalizing' = NoPoll /\ excused' = excused \cup ({tracked.key, finalizing.media} \ {Stopped})
      /\ UNCHANGED <<playing, plays, recorded, sunk>>
  BY DEF Reboot
<1>3. /\ tracked' \in [key : Playable \cup {Stopped}, known : BOOLEAN, length : Nat, most : Nat]
      /\ tracked'.key = Stopped /\ ~tracked'.known /\ tracked'.most = 0
      /\ finalizing' \in [pc : {"none", "record", "rotate", "resolve"}, media : Playable \cup {Stopped}, at : Nat, length : Nat]
      /\ finalizing'.pc = "none" /\ finalizing'.media = Stopped
  BY <1>2 DEF Nobody, NoPoll
<1>4. excused \subseteq excused' /\ excused' \subseteq Playable
  BY <1>1, <1>2 DEF TrackShape
<1>5. PlaysShape'
  BY <1>1, <1>2 DEF PlaysShape, Count
<1>6. TrackShape'
  BY <1>1, <1>2, <1>3, <1>4 DEF TrackShape
<1>7. Measured'
  BY <1>3, StoppedIs DEF Measured
<1>8. Watched'
  <2>. SUFFICES ASSUME NEW p \in plays, ~p.over, p.media \notin excused' PROVE p.media # Stopped /\ p.seen = 0
    BY <1>2, <1>3 DEF Watched
  <2>1. p.media # Stopped
    BY <1>1, StoppedIs DEF PlaysShape, PlayRecords
  <2>2. p.media # tracked.key /\ p.media # finalizing.media /\ p.media \notin excused
    BY <1>2, <2>1
  <2>. QED  BY <1>1, <2>1, <2>2 DEF Watched
<1>9. ASSUME NEW m \in Titles, NEW past \in Pasts, NEW n \in Nat, Tally(n, past, m)
      PROVE  Tally(n, past, m)'
  <2>1. m # Stopped
    BY StoppedIs
  <2>2. PastHalf(m)' = PastHalf(m) /\ PastHalfOver(m)' = PastHalfOver(m)
    BY <1>2 DEF PastHalf, PastHalfOver, Enough
  <2>3. Owed(m, past)' = 0 /\ (m \notin excused' => Owed(m, past) = 0)
    BY <1>2, <1>3, <2>1 DEF Owed
  <2>4. Cardinality(PastHalf(m)) \in Nat /\ Cardinality(PastHalfOver(m)) \in Nat
    BY <1>1, HalfSize
  <2>. QED  BY <1>3, <1>4, <1>9, <2>2, <2>3, <2>4, OwedIs DEF Tally
<1>10. Tallies'
  BY <1>1, <1>2, <1>9, TalliesStand
<1>. QED  BY <1>5, <1>6, <1>7, <1>8, <1>10 DEF CompInv

LEMMA CompInductive == CompInv /\ [CompletionNext]_completionVars => CompInv'
<1>. SUFFICES ASSUME CompInv, [CompletionNext]_completionVars PROVE CompInv'
  OBVIOUS
<1>1. CASE CompletionNext
  BY <1>1, PlayStep, HaltStep, AdvanceStep, SameStep, MovedStep, RecordStep, RotateStep, ResolveNewStep, RebootStep DEF CompletionNext
<1>2. CASE UNCHANGED completionVars
  <2>1. UNCHANGED <<playing, plays, tracked, finalizing, recorded, sunk, excused>>
    BY <1>2 DEF completionVars
  <2>2. PlaysShape /\ TrackShape /\ Watched /\ Measured /\ Tallies
    BY DEF CompInv
  <2>3. PlaysShape' /\ TrackShape' /\ Watched' /\ Measured'
    BY <2>1, <2>2 DEF PlaysShape, Count, TrackShape, Played, Watched, Measured
  <2>4. ASSUME NEW m \in Titles, NEW past \in Pasts, NEW n \in Nat, Tally(n, past, m)
        PROVE  Tally(n, past, m)'
    <3>1. PastHalf(m)' = PastHalf(m) /\ PastHalfOver(m)' = PastHalfOver(m)
      BY <2>1 DEF PastHalf, PastHalfOver, Enough
    <3>2. Owed(m, past)' = Owed(m, past)
      BY <2>1 DEF Owed
    <3>. QED  BY <2>1, <2>4, <3>1, <3>2 DEF Tally
  <2>5. Tallies'
    BY <2>1, <2>2, <2>4, TalliesStand
  <2>. QED  BY <2>3, <2>5 DEF CompInv
<1>. QED  BY <1>1, <1>2

\* The tallies bound what is counted, and fix it when nothing is owed.
LEMMA CompInvSafe == CompInv => PlaysCounted
<1>. SUFFICES ASSUME CompInv PROVE PlaysCounted
  OBVIOUS
<1>1. PlaysShape /\ TrackShape /\ Tallies
  BY DEF CompInv
<1>2. MaxPlays \in Nat /\ Count <= MaxPlays
  BY <1>1, CompletionAssumption DEF PlaysShape
<1>3. ASSUME NEW m \in Titles
      PROVE  /\ recorded[m] \in 0 .. MaxPlays /\ sunk[m] \in 0 .. MaxPlays
             /\ recorded[m] <= Cardinality(Enough(m)) /\ sunk[m] <= Cardinality(Enough(m))
             /\ Length[m] # 0 /\ m \notin excused /\ finalizing.pc = "none" /\ tracked.key # m
                  => recorded[m] = Cardinality(Enough(m)) /\ sunk[m] = recorded[m]
  <2>1. recorded[m] \in Nat /\ sunk[m] \in Nat
    BY <1>1 DEF TrackShape
  <2>2. /\ Cardinality(PastHalf(m)) \in Nat /\ Cardinality(PastHalfOver(m)) \in Nat
        /\ Cardinality(PastHalfOver(m)) <= Cardinality(PastHalf(m))
        /\ Cardinality(PastHalf(m)) = Cardinality(Enough(m)) /\ Cardinality(PastHalf(m)) <= Count /\ Count \in Nat
    BY <1>1, HalfSize
  <2>3. Tally(recorded[m], {"rotate", "resolve"}, m) /\ Tally(sunk[m], {"resolve"}, m)
    BY <1>1 DEF Tallies
  <2>4. recorded[m] <= Cardinality(PastHalf(m)) /\ sunk[m] <= Cardinality(PastHalf(m))
    BY <2>1, <2>2, <2>3 DEF Tally
  <2>5. finalizing.pc = "none" /\ tracked.key # m => Owed(m, {"rotate", "resolve"}) = 0 /\ Owed(m, {"resolve"}) = 0
    BY DEF Owed
  <2>6. Length[m] # 0 /\ m \notin excused /\ finalizing.pc = "none" /\ tracked.key # m
          => recorded[m] = Cardinality(PastHalf(m)) /\ sunk[m] = Cardinality(PastHalf(m))
    BY <2>1, <2>2, <2>3, <2>5 DEF Tally
  <2>. QED  BY <1>2, <2>1, <2>2, <2>4, <2>6
<1>4. recorded \in [Titles -> 0 .. MaxPlays] /\ sunk \in [Titles -> 0 .. MaxPlays]
  BY <1>1, <1>3 DEF TrackShape
<1>5. CompletionType
  BY <1>1, <1>4 DEF CompletionType, PlaysShape, TrackShape
<1>6. NeverEarly
  BY <1>3 DEF NeverEarly
<1>7. AllCounted
  BY <1>3 DEF AllCounted
<1>. QED  BY <1>5, <1>6, <1>7 DEF PlaysCounted
-----------------------------------------------------------------------------
(***************************************************************************)
(* The workbook job.  While no editor has written under its hands the rows *)
(* it holds are the rows of the sheet (HeldTrue), what it has still to     *)
(* list of films lies past the list's end and is not in it (ToList), and   *)
(* the lines it has written down are what column F has beside the rows it  *)
(* is done with (Follows).                                                 *)
(***************************************************************************)
Cells == [asks : Films \cup {"none"}, cell : Films \cup {"none"}]
SheetRows == [n : Nat, asks : Films, cell : Films \cup {"none"}]
AtRows == job.pc \in {"row", "cell"}

JobRecords == [pc : {"idle", "row", "cell", "movies", "import"}, rows : SUBSET SheetRows, lines : Seq(Films),
               titles : SUBSET SheetRows, at : Nat, quiet : BOOLEAN]

BookShape ==
  /\ sheet \in Seq(Cells) /\ moviesPlayed \in Seq(Films \cup {"none"}) /\ entered \subseteq Films /\ playable \subseteq Films
  /\ section \in Seq(Films) /\ jobs \in 0 .. MaxJobs /\ changes \in 0 .. MaxEdits
  /\ spoilt \subseteq {"cells", "played"}
  /\ job \in JobRecords
  /\ AtRows <=> job.rows # {}
  /\ job.pc \in {"idle", "import"} => job.titles = {}
  /\ \A r, q \in job.rows : r.n = q.n => r = q
  /\ \A r \in job.rows : r.n \in DOMAIN sheet
  /\ \A r, q \in job.titles : r.n = q.n => r = q

HeldTrue == "cells" \notin spoilt => \A r \in job.rows : r.asks = sheet[r.n].asks

ToList ==
  "played" \notin spoilt =>
    /\ JobOn => job.at > Len(moviesPlayed)
    /\ \A r, q \in job.titles : r.asks = q.asks => r = q
    /\ \A r \in job.titles : r.asks \notin ToSet(moviesPlayed)

\* The rows in hand, the one whose cell is being written, and those done with.
Held == {r.n : r \in job.rows}
InCell(n) == job.pc = "cell" /\ n = RowOfJob.n
Through == {n \in Asking : n \notin Held \/ InCell(n)}
Follows ==
  JobOn /\ job.quiet =>
    /\ Held \subseteq Asking /\ Asking # {}
    /\ \A r \in job.rows : r.asks = sheet[r.n].asks /\ r.cell = sheet[r.n].cell
    /\ \A r \in job.rows, n \in Asking \ Held : n < r.n
    /\ Len(job.lines) = Cardinality(Through)
    /\ \A n \in Through : job.lines[Place(n)] = IF InCell(n) THEN RowOfJob.asks ELSE sheet[n].cell

BookInv == BookShape /\ CellsTrue /\ HeldTrue /\ PlayedOnce /\ ToList /\ Follows

\* The row on top.
LEMMA TopIs ==
  ASSUME NEW rows \in SUBSET SheetRows, rows # {}
  PROVE  Top(rows) \in rows /\ \A q \in rows : Top(rows).n <= q.n
<1>. DEFINE numbers == {r.n : r \in rows}
<1>1. numbers \subseteq Nat /\ numbers # {}
  BY DEF SheetRows
<1>2. PICK x \in numbers : \A y \in numbers : x <= y
  <2>. HIDE DEF numbers
  <2>. QED  BY <1>1, NatMin
<1>3. \E r \in rows : \A q \in rows : r.n <= q.n
  BY <1>2
<1>. QED  BY <1>3 DEF Top

LEMMA RowIs ==
  ASSUME BookShape, AtRows
  PROVE  /\ RowOfJob \in job.rows /\ RowOfJob \in SheetRows /\ RowOfJob.n \in DOMAIN sheet /\ RowOfJob.n \in 1 .. Len(sheet)
         /\ \A q \in job.rows : RowOfJob.n <= q.n
<1>1. job.rows \in SUBSET SheetRows /\ job.rows # {}
  BY DEF BookShape, JobRecords
<1>. QED  BY <1>1, TopIs DEF BookShape, RowOfJob

LEMMA NextRowIs ==
  ASSUME BookShape, AtRows, NEW j \in JobRecords, j.rows = job.rows
  PROVE  /\ NextRow(j) \in JobRecords /\ NextRow(j).rows = job.rows \ {RowOfJob}
         /\ NextRow(j).pc = IF job.rows = {RowOfJob} THEN "movies" ELSE "row"
         /\ NextRow(j).lines = j.lines /\ NextRow(j).titles = j.titles /\ NextRow(j).at = j.at /\ NextRow(j).quiet = j.quiet
<1>. DEFINE rows == job.rows \ {RowOfJob}
            pc == IF job.rows = {RowOfJob} THEN "movies" ELSE "row"
<1>1. NextRow(j) = [j EXCEPT !.rows = rows, !.pc = pc] /\ rows \in SUBSET SheetRows /\ pc \in {"movies", "row"}
  BY DEF NextRow, BookShape, JobRecords
<1>. HIDE DEF rows, pc
<1>2. [j EXCEPT !.rows = rows, !.pc = pc] \in JobRecords
  BY <1>1 DEF JobRecords
<1>3. /\ NextRow(j).rows = rows /\ NextRow(j).pc = pc
      /\ NextRow(j).lines = j.lines /\ NextRow(j).titles = j.titles /\ NextRow(j).at = j.at /\ NextRow(j).quiet = j.quiet
  BY <1>1 DEF JobRecords
<1>. QED  BY <1>1, <1>2, <1>3 DEF rows, pc

\* After the row: the shape of the state, with what was noted of it.
LEMMA NextShape ==
  ASSUME BookInv, AtRows, NEW j \in JobRecords, j.rows = job.rows, j.titles = job.titles, j.at = job.at, job' = NextRow(j),
         sheet' \in Seq(Cells), Len(sheet') = Len(sheet), \A n \in 1 .. Len(sheet) : sheet'[n].asks = sheet[n].asks,
         playable' \subseteq Films, changes' \in 0 .. MaxEdits, UNCHANGED <<moviesPlayed, entered, section, jobs, spoilt>>
  PROVE  /\ BookShape' /\ HeldTrue' /\ PlayedOnce' /\ ToList'
         /\ job'.pc \in {"row", "movies"} /\ job'.rows = job.rows \ {RowOfJob} /\ job'.lines = j.lines /\ job'.quiet = j.quiet
<1>1. BookShape /\ HeldTrue /\ PlayedOnce /\ ToList
  BY DEF BookInv
<1>2. /\ job' \in JobRecords /\ job'.rows = job.rows \ {RowOfJob}
      /\ job'.pc = IF job.rows = {RowOfJob} THEN "movies" ELSE "row"
      /\ job'.lines = j.lines /\ job'.titles = job.titles /\ job'.at = job.at /\ job'.quiet = j.quiet
  BY <1>1, NextRowIs
<1>3. RowOfJob \in job.rows
  BY <1>1, RowIs
<1>4. job'.rows # {} <=> job'.pc = "row"
  BY <1>2, <1>3
<1>5. DOMAIN sheet' = DOMAIN sheet /\ DOMAIN sheet = 1 .. Len(sheet)
  BY <1>1 DEF BookShape
<1>6. BookShape'
  BY <1>1, <1>2, <1>4, <1>5 DEF BookShape, AtRows
<1>7. HeldTrue'
  BY <1>1, <1>2, <1>5 DEF HeldTrue, BookShape
<1>8. PlayedOnce' /\ ToList'
  BY <1>1, <1>2 DEF PlayedOnce, ToList, JobOn, AtRows
<1>. QED  BY <1>2, <1>6, <1>7, <1>8

\* The rows that ask, as many as there are.
LEMMA AskingIs ==
  ASSUME BookShape
  PROVE  /\ Asking \subseteq 1 .. Len(sheet) /\ Len(sheet) \in Nat /\ Asking \subseteq Nat /\ IsFiniteSet(Asking)
         /\ \A S : S \subseteq Asking => IsFiniteSet(S) /\ Cardinality(S) \in Nat
<1>1. Asking \subseteq 1 .. Len(sheet) /\ Len(sheet) \in Nat
  BY DEF BookShape, Asking
<1>2. IsFiniteSet(1 .. Len(sheet))
  BY <1>1, FS_Interval
<1>3. IsFiniteSet(Asking)
  BY <1>1, <1>2, FS_Subset
<1>4. ASSUME NEW S, S \subseteq Asking PROVE IsFiniteSet(S) /\ Cardinality(S) \in Nat
  <2>1. IsFiniteSet(S)
    BY <1>3, <1>4, FS_Subset
  <2>. QED  BY <2>1, FS_CardinalityType
<1>. QED  BY <1>1, <1>3, <1>4

\* The place of the row on top is the one after those done with, whose places
\* come before it.
LEMMA PlaceIs ==
  ASSUME BookShape, Follows, job.pc = "row", job.quiet
  PROVE  /\ RowOfJob.n \in Asking /\ RowOfJob.n \notin Through
         /\ Cardinality(Through \cup {RowOfJob.n}) = Len(job.lines) + 1 /\ Place(RowOfJob.n) = Len(job.lines) + 1
         /\ \A n \in Through : Place(n) \in 1 .. Len(job.lines)
<1>. DEFINE r == RowOfJob
<1>1. /\ r \in job.rows /\ r.n \in Nat /\ \A q \in job.rows : r.n <= q.n /\ q.n \in Nat
  BY RowIs DEF AtRows, SheetRows, BookShape, JobRecords
<1>2. /\ Held \subseteq Asking /\ \A q \in job.rows, n \in Asking \ Held : n < q.n
      /\ Len(job.lines) = Cardinality(Through)
  BY DEF Follows, JobOn
<1>3. Through = Asking \ Held
  BY DEF Through, InCell
<1>. HIDE DEF r
<1>4. r.n \in Held /\ r.n \in Asking /\ \A h \in Held : r.n <= h /\ h \in Nat
  BY <1>1, <1>2 DEF Held
<1>5. Asking \subseteq Nat /\ \A S : S \subseteq Asking => IsFiniteSet(S) /\ Cardinality(S) \in Nat
  BY AskingIs
<1>6. \A n \in Through : n < r.n /\ n \in Nat
  BY <1>1, <1>2, <1>3, <1>5
<1>7. Cardinality(Through \cup {r.n}) = Cardinality(Through) + 1
  BY <1>3, <1>4, <1>5, FS_AddElement
<1>8. {k \in Asking : k <= r.n} = Through \cup {r.n}
  <2>1. \A k \in Asking : k <= r.n => k \in Through \/ k = r.n
    BY <1>3, <1>4, <1>5
  <2>2. \A k \in Through : k \in Asking /\ k <= r.n
    BY <1>3, <1>4, <1>6
  <2>3. r.n <= r.n
    BY <1>4
  <2>. QED  BY <1>4, <2>1, <2>2, <2>3
<1>9. ASSUME NEW n \in Through PROVE Place(n) \in 1 .. Cardinality(Through)
  <2>1. {k \in Asking : k <= n} \subseteq Through
    <3>. SUFFICES ASSUME NEW k \in Asking, k <= n, k \in Held PROVE FALSE
      BY <1>3
    <3>1. n < r.n /\ n \in Nat /\ r.n <= k /\ k \in Nat /\ r.n \in Nat
      BY <1>1, <1>4, <1>6
    <3>. QED  BY <3>1
  <2>2. {n} \subseteq {k \in Asking : k <= n}
    BY <1>3, <1>6
  <2>3. Cardinality({n}) = 1
    BY FS_Singleton
  <2>4. IsFiniteSet(Through) /\ IsFiniteSet({k \in Asking : k <= n}) /\ Cardinality(Through) \in Nat
        /\ Cardinality({k \in Asking : k <= n}) \in Nat
    BY <1>3, <1>5
  <2>5. Cardinality({k \in Asking : k <= n}) <= Cardinality(Through) /\ 1 <= Cardinality({k \in Asking : k <= n})
    BY <2>1, <2>2, <2>3, <2>4, FS_Subset
  <2>. QED  BY <2>4, <2>5 DEF Place
<1>. QED  BY <1>2, <1>3, <1>4, <1>7, <1>8, <1>9 DEF r, Place

LEMMA AppendIs ==
  ASSUME NEW S, NEW s \in Seq(S), NEW x \in S
  PROVE  /\ Append(s, x) \in Seq(S) /\ Len(s) \in Nat /\ Len(Append(s, x)) = Len(s) + 1
         /\ DOMAIN Append(s, x) = 1 .. Len(s) + 1
         /\ Append(s, x)[Len(s) + 1] = x /\ \A i \in 1 .. Len(s) : Append(s, x)[i] = s[i]
OBVIOUS

LEMMA BookInitially == WorkbookInit => BookInv
<1>. SUFFICES ASSUME WorkbookInit PROVE BookInv
  OBVIOUS
<1>1. /\ sheet \in FirstSheets /\ moviesPlayed = <<>> /\ entered = {} /\ playable = {} /\ section = <<>>
      /\ job = NoJob /\ jobs = 0 /\ changes = 0 /\ spoilt = {}
  BY DEF WorkbookInit
<1>2. job \in JobRecords /\ job.pc = "idle" /\ job.rows = {} /\ job.titles = {}
  BY <1>1 DEF NoJob, JobRecords
<1>3. sheet \in Seq(Cells)
  BY <1>1, WorkbookAssumption DEF Cells
<1>4. ~AtRows /\ ~JobOn
  BY <1>2 DEF AtRows, JobOn
<1>5. <<>> \in Seq(Films) /\ <<>> \in Seq(Films \cup {"none"}) /\ 0 \in 0 .. MaxJobs /\ 0 \in 0 .. MaxEdits
  BY WorkbookAssumption
<1>6. BookShape
  BY <1>1, <1>2, <1>3, <1>4, <1>5 DEF BookShape
<1>7. CellsTrue
  BY <1>1, WorkbookAssumption DEF CellsTrue
<1>8. HeldTrue /\ ToList /\ Follows
  BY <1>1, <1>2, <1>4 DEF HeldTrue, ToList, Follows
<1>9. PlayedOnce
  BY <1>1 DEF PlayedOnce, ToSet
<1>. QED  BY <1>6, <1>7, <1>8, <1>9 DEF BookInv

LEMMA StartJobStep == BookInv /\ StartJob => BookInv'
<1>. SUFFICES ASSUME BookInv, StartJob PROVE BookInv'
  OBVIOUS
<1>1. BookShape /\ CellsTrue /\ PlayedOnce
  BY DEF BookInv
<1>2. /\ ~JobOn /\ jobs < MaxJobs /\ jobs' = jobs + 1 /\ Parsed # {}
      /\ job' = [NoJob EXCEPT !.pc = "row", !.rows = Parsed, !.titles = NewTitles, !.at = LastPlayed + 1]
      /\ spoilt' = IF \A r, q \in NewTitles : r.asks = q.asks => r = q THEN spoilt ELSE spoilt \cup {"played"}
      /\ UNCHANGED <<sheet, moviesPlayed, entered, playable, section, changes>>
  BY DEF StartJob
<1>3. Asking \subseteq DOMAIN sheet /\ DOMAIN sheet \subseteq Nat /\ \A n \in DOMAIN sheet : sheet[n] \in Cells
  BY <1>1 DEF BookShape, Asking
<1>4. \A n \in Asking : [n |-> n, asks |-> sheet[n].asks, cell |-> sheet[n].cell] \in SheetRows
  BY <1>3 DEF Asking, Cells, SheetRows
<1>5. /\ Parsed \in SUBSET SheetRows /\ NewTitles \subseteq Parsed
      /\ \A r \in Parsed : r.n \in Asking /\ r.asks = sheet[r.n].asks /\ r.cell = sheet[r.n].cell
                           /\ r = [n |-> r.n, asks |-> sheet[r.n].asks, cell |-> sheet[r.n].cell]
      /\ \A n \in Asking : \E r \in Parsed : r.n = n
  <2>1. NewTitles \subseteq Parsed
    BY DEF NewTitles
  <2>2. ASSUME NEW r \in Parsed
        PROVE  /\ r \in SheetRows /\ r.n \in Asking /\ r.asks = sheet[r.n].asks /\ r.cell = sheet[r.n].cell
               /\ r = [n |-> r.n, asks |-> sheet[r.n].asks, cell |-> sheet[r.n].cell]
    <3>1. PICK n \in Asking : r = [n |-> n, asks |-> sheet[n].asks, cell |-> sheet[n].cell]
      BY DEF Parsed
    <3>. QED  BY <1>4, <3>1
  <2>3. ASSUME NEW n \in Asking PROVE \E r \in Parsed : r.n = n
    <3>. DEFINE r == [n |-> n, asks |-> sheet[n].asks, cell |-> sheet[n].cell]
    <3>1. r \in Parsed /\ r.n = n
      BY DEF Parsed
    <3>. QED  BY <3>1
  <2>. QED  BY <2>1, <2>2, <2>3
<1>6. \A r, q \in Parsed : r.n = q.n => r = q
  BY <1>5
<1>7. Len(moviesPlayed) \in Nat /\ LastPlayed = Len(moviesPlayed)
  BY <1>1 DEF BookShape, LastPlayed
<1>8. /\ job' \in JobRecords /\ job'.pc = "row" /\ job'.rows = Parsed /\ job'.titles = NewTitles
      /\ job'.at = Len(moviesPlayed) + 1 /\ job'.lines = <<>>
  <2>. DEFINE at == LastPlayed + 1
  <2>1. at \in Nat /\ NewTitles \in SUBSET SheetRows /\ <<>> \in Seq(Films)
    BY <1>5, <1>7
  <2>2. job' = [pc |-> "row", rows |-> Parsed, lines |-> <<>>, titles |-> NewTitles, at |-> at, quiet |-> TRUE]
    BY <1>2 DEF NoJob
  <2>. HIDE DEF at
  <2>3. job' \in JobRecords
    BY <1>5, <2>1, <2>2 DEF JobRecords
  <2>. QED  BY <1>7, <2>2, <2>3 DEF at
<1>9. BookShape'
  <2>1. jobs' \in 0 .. MaxJobs
    BY <1>1, <1>2, WorkbookAssumption DEF BookShape
  <2>2. \A r \in job'.rows : r.n \in DOMAIN sheet'
    BY <1>2, <1>3, <1>5, <1>8
  <2>. QED  BY <1>1, <1>2, <1>5, <1>6, <1>8, <2>1, <2>2 DEF BookShape, AtRows
<1>10. CellsTrue' /\ HeldTrue'
  BY <1>1, <1>2, <1>5, <1>8 DEF CellsTrue, HeldTrue
<1>11. PlayedOnce'
  BY <1>1, <1>2 DEF PlayedOnce
<1>12. ToList'
  BY <1>2, <1>7, <1>8 DEF ToList, NewTitles
<1>13. Follows'
  <2>1. Held' = Asking /\ Asking' = Asking
    BY <1>2, <1>5, <1>8 DEF Held, Asking
  <2>2. Through' = {}
    BY <1>8, <2>1 DEF Through, InCell
  <2>3. Asking # {}
    BY <1>2, <1>5
  <2>4. Cardinality({}) = 0 /\ Len(<<>>) = 0
    BY FS_EmptySet
  <2>. QED  BY <1>2, <1>5, <1>8, <2>1, <2>2, <2>3, <2>4 DEF Follows
<1>. QED  BY <1>9, <1>10, <1>11, <1>12, <1>13 DEF BookInv

\* The row on top is done with, and x written down for it: its cell, which
\* stands, or its film, whose address is to go into the cell.
LEMMA TakenFollows ==
  ASSUME BookShape, Follows, job.pc = "row", NEW x \in Films, UNCHANGED sheet,
         job'.lines = Append(job.lines, x), job'.quiet => job.quiet,
         \/ job'.pc = "cell" /\ job'.rows = job.rows /\ x = RowOfJob.asks
         \/ job'.pc \in {"row", "movies"} /\ job'.rows = job.rows \ {RowOfJob} /\ x = RowOfJob.cell
  PROVE  Follows'
<1>. SUFFICES ASSUME job.quiet PROVE Follows'
  BY DEF Follows
<1>. DEFINE r == RowOfJob
<1>1. /\ Held \subseteq Asking /\ Asking # {}
      /\ \A q \in job.rows : q.asks = sheet[q.n].asks /\ q.cell = sheet[q.n].cell
      /\ \A q \in job.rows, n \in Asking \ Held : n < q.n
      /\ \A n \in Through : job.lines[Place(n)] = IF InCell(n) THEN RowOfJob.asks ELSE sheet[n].cell
  BY DEF Follows, JobOn
<1>2. r \in job.rows /\ r.n \in Nat /\ \A q \in job.rows : r.n <= q.n /\ q.n \in Nat /\ (q.n = r.n => q = r)
  BY RowIs DEF AtRows, BookShape, JobRecords, SheetRows
<1>3. /\ r.n \in Asking /\ r.n \notin Through
      /\ Cardinality(Through \cup {r.n}) = Len(job.lines) + 1 /\ Place(r.n) = Len(job.lines) + 1
      /\ \A n \in Through : Place(n) \in 1 .. Len(job.lines)
  BY PlaceIs
<1>4. /\ job.lines \in Seq(Films) /\ Len(job.lines) \in Nat /\ Len(job'.lines) = Len(job.lines) + 1
      /\ job'.lines[Len(job.lines) + 1] = x /\ \A i \in 1 .. Len(job.lines) : job'.lines[i] = job.lines[i]
  <2>1. job.lines \in Seq(Films)
    BY DEF BookShape, JobRecords
  <2>. QED  BY <2>1, AppendIs
<1>5. Through = Asking \ Held /\ \A n : ~InCell(n)
  BY DEF Through, InCell
<1>6. Asking' = Asking /\ \A n \in Asking : Place(n)' = Place(n)
  BY DEF Asking, Place
<1>7. \A n \in Through : job'.lines[Place(n)] = sheet[n].cell
  BY <1>1, <1>3, <1>4, <1>5
<1>8. job'.lines[Place(r.n)] = x
  BY <1>3, <1>4
<1>9. r.n \in Held
  BY <1>2 DEF Held
<1>10. CASE job'.pc = "cell" /\ job'.rows = job.rows /\ x = RowOfJob.asks
  <2>1. Held' = Held /\ RowOfJob' = RowOfJob /\ \A n : InCell(n)' <=> n = r.n
    BY <1>10 DEF Held, RowOfJob, InCell
  <2>2. Through' = Through \cup {r.n}
    BY <1>3, <1>5, <1>6, <2>1 DEF Through
  <2>. HIDE DEF r
  <2>3. \A n \in Through' : job'.lines[Place(n)'] = IF InCell(n)' THEN RowOfJob'.asks ELSE sheet'[n].cell
    <3>. SUFFICES ASSUME NEW n \in Through' PROVE job'.lines[Place(n)'] = IF InCell(n)' THEN RowOfJob'.asks ELSE sheet'[n].cell
      OBVIOUS
    <3>1. Place(n)' = Place(n)
      BY <1>3, <1>5, <1>6, <2>2
    <3>2. CASE n = r.n
      BY <1>8, <1>10, <2>1, <3>1, <3>2
    <3>3. CASE n # r.n
      BY <1>7, <2>1, <2>2, <3>1, <3>3
    <3>. QED  BY <3>2, <3>3
  <2>4. \A q \in job'.rows : q.asks = sheet'[q.n].asks /\ q.cell = sheet'[q.n].cell
    BY <1>1, <1>10
  <2>5. \A q \in job'.rows, n \in Asking' \ Held' : n < q.n
    BY <1>1, <1>6, <1>10, <2>1
  <2>6. Held' \subseteq Asking' /\ Asking' # {} /\ Len(job'.lines) = Cardinality(Through')
    BY <1>1, <1>3, <1>4, <1>6, <2>1, <2>2
  <2>. QED  BY <2>3, <2>4, <2>5, <2>6 DEF Follows
<1>11. CASE job'.pc \in {"row", "movies"} /\ job'.rows = job.rows \ {RowOfJob} /\ x = RowOfJob.cell
  <2>1. Held' = Held \ {r.n}
    BY <1>2, <1>11 DEF Held
  <2>2. \A n : ~InCell(n)'
    BY <1>11 DEF InCell
  <2>3. Through' = Through \cup {r.n}
    BY <1>3, <1>5, <1>6, <1>9, <2>1, <2>2 DEF Through
  <2>4. x = sheet[r.n].cell
    BY <1>1, <1>2, <1>11
  <2>5. \A n \in Through' : job'.lines[Place(n)'] = sheet'[n].cell
    BY <1>3, <1>5, <1>6, <1>7, <1>8, <2>3, <2>4
  <2>6. \A q \in job'.rows : q.asks = sheet'[q.n].asks /\ q.cell = sheet'[q.n].cell
    BY <1>1, <1>11
  <2>7. \A q \in job'.rows : q.n # r.n /\ r.n <= q.n /\ q.n \in Nat
    BY <1>2, <1>11
  <2>8. \A q \in job'.rows, n \in Asking' \ Held' : n < q.n
    <3>. SUFFICES ASSUME NEW q \in job'.rows, NEW n \in Asking' \ Held' PROVE n < q.n
      OBVIOUS
    <3>1. q \in job.rows
      BY <1>11
    <3>2. n = r.n \/ n \in Asking \ Held
      BY <1>6, <2>1
    <3>3. r.n < q.n
      BY <1>2, <2>7
    <3>. QED  BY <1>1, <3>1, <3>2, <3>3
  <2>9. Held' \subseteq Asking' /\ Asking' # {} /\ Len(job'.lines) = Cardinality(Through')
    BY <1>1, <1>3, <1>4, <1>6, <2>1, <2>3
  <2>. QED  BY <2>2, <2>5, <2>6, <2>8, <2>9 DEF Follows
<1>. QED  BY <1>10, <1>11

LEMMA RevalidateStep == BookInv /\ Revalidate => BookInv'
<1>. SUFFICES ASSUME BookInv, Revalidate PROVE BookInv'
  OBVIOUS
<1>. DEFINE x == RowOfJob.cell
            j == [job EXCEPT !.lines = Append(@, x)]
<1>1. /\ job.pc = "row" /\ x \in playable /\ job' = NextRow(j)
      /\ UNCHANGED <<sheet, moviesPlayed, entered, playable, section, jobs, changes, spoilt>>
  BY DEF Revalidate
<1>2. BookShape /\ CellsTrue /\ Follows /\ AtRows
  BY <1>1 DEF BookInv, AtRows
<1>3. x \in Films /\ playable \subseteq Films
  BY <1>1, <1>2 DEF BookShape
<1>4. j \in JobRecords /\ j.rows = job.rows /\ j.titles = job.titles /\ j.at = job.at /\ j.lines = Append(job.lines, x) /\ j.quiet = job.quiet
  <2>1. job \in JobRecords /\ job.lines \in Seq(Films)
    BY <1>2 DEF BookShape, JobRecords
  <2>. DEFINE lines == Append(job.lines, x)
  <2>2. lines \in Seq(Films) /\ j = [job EXCEPT !.lines = lines]
    BY <1>3, <2>1, AppendIs
  <2>. HIDE DEF lines, j, x
  <2>3. j \in JobRecords /\ j.rows = job.rows /\ j.titles = job.titles /\ j.at = job.at /\ j.lines = lines /\ j.quiet = job.quiet
    BY <2>1, <2>2 DEF JobRecords
  <2>. QED  BY <2>3 DEF lines
<1>5. changes \in 0 .. MaxEdits /\ sheet \in Seq(Cells)
  BY <1>2 DEF BookShape
<1>. HIDE DEF j, x
<1>6. /\ BookShape' /\ HeldTrue' /\ PlayedOnce' /\ ToList'
      /\ job'.pc \in {"row", "movies"} /\ job'.rows = job.rows \ {RowOfJob} /\ job'.lines = j.lines /\ job'.quiet = j.quiet
  BY <1>1, <1>2, <1>3, <1>4, <1>5, NextShape
<1>7. Follows'
  BY <1>1, <1>2, <1>3, <1>4, <1>6, TakenFollows DEF x
<1>8. CellsTrue'
  BY <1>1, <1>2 DEF CellsTrue
<1>. QED  BY <1>6, <1>7, <1>8 DEF BookInv

LEMMA ResolveRowStep == BookInv /\ ResolveRow => BookInv'
<1>. SUFFICES ASSUME BookInv, ResolveRow PROVE BookInv'
  OBVIOUS
<1>. DEFINE x == RowOfJob.asks
            lines == Append(job.lines, x)
<1>1. /\ job.pc = "row" /\ playable' = playable \cup {x}
      /\ \/ RowOfJob.cell \notin playable /\ UNCHANGED changes
         \/ RowOfJob.cell \in playable /\ MissedOne
      /\ job' = [job EXCEPT !.pc = "cell", !.lines = lines, !.quiet = @ /\ RowOfJob.cell \notin playable]
      /\ UNCHANGED <<sheet, moviesPlayed, entered, section, jobs, spoilt>>
  BY DEF ResolveRow
<1>2. BookShape /\ CellsTrue /\ HeldTrue /\ PlayedOnce /\ ToList /\ Follows /\ AtRows
  BY <1>1 DEF BookInv, AtRows
<1>3. x \in Films /\ RowOfJob \in job.rows
  BY <1>2, RowIs DEF SheetRows
<1>4. job \in JobRecords /\ job.lines \in Seq(Films) /\ job.quiet \in BOOLEAN /\ lines \in Seq(Films)
  <2>1. job \in JobRecords /\ job.lines \in Seq(Films) /\ job.quiet \in BOOLEAN
    BY <1>2 DEF BookShape, JobRecords
  <2>. QED  BY <1>3, <2>1, AppendIs
<1>. HIDE DEF x, lines
<1>5. PICK quiet \in BOOLEAN : quiet <=> job.quiet /\ RowOfJob.cell \notin playable
  BY (job.quiet /\ RowOfJob.cell \notin playable) \in BOOLEAN
<1>6. job' = [job EXCEPT !.pc = "cell", !.lines = lines, !.quiet = quiet]
  <2>1. (job.quiet /\ RowOfJob.cell \notin playable) = quiet
    BY <1>5
  <2>. QED  BY <1>1, <2>1
<1>7. /\ job' \in JobRecords /\ job'.pc = "cell" /\ job'.rows = job.rows /\ job'.titles = job.titles /\ job'.at = job.at
      /\ job'.lines = lines /\ job'.quiet = quiet
  BY <1>4, <1>6 DEF JobRecords
<1>8. changes' \in 0 .. MaxEdits
  BY <1>1, <1>2, WorkbookAssumption DEF BookShape, MissedOne, Change
<1>9. BookShape'
  <2>1. job'.rows # {} /\ AtRows'
    BY <1>3, <1>7 DEF AtRows
  <2>. QED  BY <1>1, <1>2, <1>3, <1>7, <1>8, <2>1 DEF BookShape
<1>10. CellsTrue' /\ HeldTrue' /\ PlayedOnce'
  BY <1>1, <1>2, <1>7 DEF CellsTrue, HeldTrue, PlayedOnce
<1>11. ToList'
  BY <1>1, <1>2, <1>7 DEF ToList, JobOn
<1>12. Follows'
  BY <1>1, <1>2, <1>3, <1>5, <1>7, TakenFollows DEF x, lines
<1>. QED  BY <1>9, <1>10, <1>11, <1>12 DEF BookInv

\* What fails is noted: the list of this job is not vouched for.
LEMMA UnquietIs ==
  ASSUME BookShape, NEW j, j = [job EXCEPT !.quiet = FALSE]
  PROVE  /\ j \in JobRecords /\ j.pc = job.pc /\ j.rows = job.rows /\ j.titles = job.titles /\ j.at = job.at /\ j.lines = job.lines
         /\ ~j.quiet
BY DEF BookShape, JobRecords

LEMMA ResolveFailsStep == BookInv /\ ResolveFails => BookInv'
<1>. SUFFICES ASSUME BookInv, ResolveFails PROVE BookInv'
  OBVIOUS
<1>. DEFINE j == [job EXCEPT !.quiet = FALSE]
<1>1. /\ job.pc = "row" /\ MissedOne /\ job' = NextRow(j)
      /\ UNCHANGED <<sheet, moviesPlayed, entered, playable, section, jobs, spoilt>>
  BY DEF ResolveFails
<1>2. BookShape /\ CellsTrue /\ AtRows
  BY <1>1 DEF BookInv, AtRows
<1>3. j \in JobRecords /\ j.rows = job.rows /\ j.titles = job.titles /\ j.at = job.at /\ ~j.quiet
  BY <1>2, UnquietIs
<1>4. changes' \in 0 .. MaxEdits /\ sheet \in Seq(Cells) /\ playable \subseteq Films
  BY <1>1, <1>2, WorkbookAssumption DEF BookShape, MissedOne, Change
<1>. HIDE DEF j
<1>5. BookShape' /\ HeldTrue' /\ PlayedOnce' /\ ToList' /\ ~job'.quiet
  BY <1>1, <1>2, <1>3, <1>4, NextShape
<1>6. Follows' /\ CellsTrue'
  BY <1>1, <1>2, <1>5 DEF Follows, CellsTrue
<1>. QED  BY <1>5, <1>6 DEF BookInv

LEMMA WriteCellStep == BookInv /\ WriteCell => BookInv'
<1>. SUFFICES ASSUME BookInv, WriteCell PROVE BookInv'
  OBVIOUS
<1>1. /\ job.pc = "cell"
      /\ \/ /\ sheet' = [sheet EXCEPT ![RowOfJob.n].cell = RowOfJob.asks] /\ job' = NextRow(job) /\ UNCHANGED changes
         \/ MissedOne /\ UNCHANGED sheet /\ job' = NextRow([job EXCEPT !.quiet = FALSE])
      /\ UNCHANGED <<moviesPlayed, entered, playable, section, jobs, spoilt>>
  BY DEF WriteCell
<1>2. BookShape /\ CellsTrue /\ HeldTrue /\ Follows /\ AtRows
  BY <1>1 DEF BookInv, AtRows
<1>3. /\ RowOfJob \in job.rows /\ RowOfJob.n \in 1 .. Len(sheet) /\ RowOfJob.asks \in Films
      /\ \A q \in job.rows : RowOfJob.n <= q.n
  BY <1>2, RowIs DEF SheetRows
<1>4. changes' \in 0 .. MaxEdits /\ playable \subseteq Films /\ sheet \in Seq(Cells) /\ job \in JobRecords
  BY <1>1, <1>2, WorkbookAssumption DEF BookShape, MissedOne, Change
<1>5. CASE MissedOne /\ UNCHANGED sheet /\ job' = NextRow([job EXCEPT !.quiet = FALSE])
  <2>. DEFINE j == [job EXCEPT !.quiet = FALSE]
  <2>1. j \in JobRecords /\ j.rows = job.rows /\ j.titles = job.titles /\ j.at = job.at /\ ~j.quiet
    BY <1>2, UnquietIs
  <2>2. job' = NextRow(j)
    BY <1>5
  <2>. HIDE DEF j
  <2>3. BookShape' /\ HeldTrue' /\ PlayedOnce' /\ ToList' /\ ~job'.quiet
    BY <1>1, <1>2, <1>4, <1>5, <2>1, <2>2, NextShape
  <2>4. Follows' /\ CellsTrue'
    BY <1>1, <1>2, <1>5, <2>3 DEF Follows, CellsTrue
  <2>. QED  BY <2>3, <2>4 DEF BookInv
<1>6. CASE sheet' = [sheet EXCEPT ![RowOfJob.n].cell = RowOfJob.asks] /\ job' = NextRow(job) /\ UNCHANGED changes
  <2>. DEFINE n == RowOfJob.n a == RowOfJob.asks e == [sheet[n] EXCEPT !.cell = a]
  <2>1. e \in Cells /\ e.asks = sheet[n].asks /\ e.cell = a
    <3>1. sheet[n] \in Cells
      BY <1>3, <1>4
    <3>. QED  BY <1>3, <3>1 DEF Cells
  <2>2. sheet' = [sheet EXCEPT ![n] = e]
    BY <1>6
  <2>. HIDE DEF e
  <2>3. /\ sheet' \in Seq(Cells) /\ Len(sheet') = Len(sheet)
        /\ \A k \in 1 .. Len(sheet) : sheet'[k] = IF k = n THEN e ELSE sheet[k]
    <3>1. n \in 1 .. Len(sheet)
      BY <1>3
    <3>. HIDE DEF n
    <3>. QED  BY <1>4, <2>1, <2>2, <3>1, ExceptSeq
  <2>4. /\ \A k \in 1 .. Len(sheet) : sheet'[k].asks = sheet[k].asks /\ sheet'[k].cell = IF k = n THEN a ELSE sheet[k].cell
        /\ DOMAIN sheet' = 1 .. Len(sheet) /\ DOMAIN sheet = 1 .. Len(sheet)
    BY <1>4, <2>1, <2>3
  <2>. HIDE DEF n, a
  <2>5. /\ BookShape' /\ HeldTrue' /\ PlayedOnce' /\ ToList'
        /\ job'.pc \in {"row", "movies"} /\ job'.rows = job.rows \ {RowOfJob} /\ job'.lines = job.lines /\ job'.quiet = job.quiet
    BY <1>1, <1>2, <1>4, <1>6, <2>3, <2>4, NextShape
  <2>6. CellsTrue'
    <3>. SUFFICES ASSUME "cells" \notin spoilt, NEW k \in 1 .. Len(sheet) PROVE sheet'[k].cell \in {"none", sheet'[k].asks}
      BY <1>1, <2>4 DEF CellsTrue
    <3>1. a = sheet[n].asks
      BY <1>2, <1>3 DEF HeldTrue, a, n
    <3>2. sheet[k].cell \in {"none", sheet[k].asks}
      BY <1>2, <2>4 DEF CellsTrue
    <3>. QED  BY <2>4, <3>1, <3>2
  <2>7. Follows'
    <3>. SUFFICES ASSUME job.quiet PROVE Follows'
      BY <2>5 DEF Follows
    <3>1. /\ Held \subseteq Asking /\ Asking # {}
          /\ \A r \in job.rows : r.asks = sheet[r.n].asks /\ r.cell = sheet[r.n].cell
          /\ \A r \in job.rows, k \in Asking \ Held : k < r.n
          /\ Len(job.lines) = Cardinality(Through)
          /\ \A k \in Through : job.lines[Place(k)] = IF InCell(k) THEN RowOfJob.asks ELSE sheet[k].cell
      BY <1>1, <1>2 DEF Follows, JobOn
    <3>2. Asking' = Asking
      BY <2>4 DEF Asking
    <3>3. \A k : Place(k)' = Place(k)
      BY <3>2 DEF Place
    <3>4. Held' = Held \ {n}
      <4>1. \A r \in job.rows : r.n = n => r = RowOfJob
        BY <1>2, <1>3 DEF BookShape, n
      <4>. QED  BY <2>5, <4>1 DEF Held, n
    <3>5. /\ n \in Held /\ n \in Asking /\ \A k : InCell(k) <=> k = n
          /\ \A k : ~InCell(k)'
      BY <1>1, <1>3, <2>5, <3>1 DEF Held, InCell, n
    <3>6. Through' = Through /\ n \in Through /\ Through \subseteq 1 .. Len(sheet)
      BY <1>4, <3>2, <3>4, <3>5 DEF Through, Asking
    <3>7. \A k \in Through' : job'.lines[Place(k)'] = IF InCell(k)' THEN RowOfJob'.asks ELSE sheet'[k].cell
      BY <2>4, <2>5, <3>1, <3>3, <3>5, <3>6 DEF a
    <3>8. \A r \in job'.rows : r.asks = sheet'[r.n].asks /\ r.cell = sheet'[r.n].cell
      <4>1. \A r \in job'.rows : r \in job.rows /\ r.n # n /\ r.n \in 1 .. Len(sheet)
        BY <1>2, <1>3, <2>4, <2>5 DEF BookShape, n
      <4>. QED  BY <2>4, <3>1, <4>1
    <3>9. \A r \in job'.rows, k \in Asking' \ Held' : k < r.n
      <4>. SUFFICES ASSUME NEW r \in job'.rows, NEW k \in Asking' \ Held' PROVE k < r.n
        OBVIOUS
      <4>1. r \in job.rows /\ r.n # n /\ n <= r.n /\ n \in Nat /\ r.n \in Nat
        BY <1>2, <1>3, <1>4, <2>5 DEF BookShape, n, JobRecords, SheetRows
      <4>2. k = n \/ k \in Asking \ Held
        BY <3>2, <3>4
      <4>. QED  BY <3>1, <4>1, <4>2
    <3>10. Held' \subseteq Asking' /\ Asking' # {} /\ Len(job'.lines) = Cardinality(Through')
      BY <2>5, <3>1, <3>2, <3>4, <3>6
    <3>. QED  BY <3>7, <3>8, <3>9, <3>10 DEF Follows
  <2>. QED  BY <2>5, <2>6, <2>7 DEF BookInv
<1>. QED  BY <1>1, <1>5, <1>6

LEMMA PutAtIs ==
  ASSUME NEW S, "none" \in S, NEW seq \in Seq(S), NEW n \in Nat, NEW x \in S
  PROVE  /\ PutAt(seq, n, x) \in Seq(S)
         /\ n > Len(seq) => /\ Len(PutAt(seq, n, x)) = n /\ PutAt(seq, n, x)[n] = x /\ DOMAIN PutAt(seq, n, x) = 1 .. n
                            /\ \A k \in 1 .. Len(seq) : PutAt(seq, n, x)[k] = seq[k]
                            /\ \A k \in 1 .. n : k = n \/ k \in 1 .. Len(seq) \/ PutAt(seq, n, x)[k] = "none"
<1>. DEFINE size == IF n > Len(seq) THEN n ELSE Len(seq)
            put == [k \in 1 .. size |-> IF k = n THEN x ELSE IF k <= Len(seq) THEN seq[k] ELSE "none"]
<1>1. size \in Nat /\ Len(seq) \in Nat /\ (n > Len(seq) => size = n)
  OBVIOUS
<1>2. PutAt(seq, n, x) = put
  BY DEF PutAt
<1>. HIDE DEF size
<1>3. \A k \in 1 .. size : k <= Len(seq) => seq[k] \in S
  BY <1>1
<1>4. \A k \in 1 .. size : put[k] \in S
  BY <1>3
<1>5. put \in [1 .. size -> S] /\ DOMAIN put = 1 .. size
  BY <1>4
<1>6. put \in Seq(S) /\ Len(put) = size
  BY <1>1, <1>5, SeqDef
<1>7. \A k \in 1 .. size : put[k] = IF k = n THEN x ELSE IF k <= Len(seq) THEN seq[k] ELSE "none"
  OBVIOUS
<1>. HIDE DEF put
<1>8. ASSUME n > Len(seq)
      PROVE  /\ Len(put) = n /\ put[n] = x /\ DOMAIN put = 1 .. n
             /\ \A k \in 1 .. Len(seq) : put[k] = seq[k]
             /\ \A k \in 1 .. n : k = n \/ k \in 1 .. Len(seq) \/ put[k] = "none"
  <2>1. size = n /\ n \in 1 .. size
    BY <1>1, <1>8
  <2>2. \A k \in 1 .. Len(seq) : k \in 1 .. size /\ k # n /\ k <= Len(seq)
    BY <1>1, <1>8
  <2>3. \A k \in 1 .. n : k \in 1 .. Len(seq) <=> k <= Len(seq)
    BY <1>1
  <2>. QED  BY <1>5, <1>6, <1>7, <2>1, <2>2, <2>3
<1>. QED  BY <1>2, <1>6, <1>8

LEMMA WritePlayedStep == BookInv /\ WritePlayed => BookInv'
<1>. SUFFICES ASSUME BookInv, WritePlayed PROVE BookInv'
  OBVIOUS
<1>. DEFINE r == Top(job.titles)
<1>1. /\ job.pc = "movies" /\ job.titles # {}
      /\ \/ moviesPlayed' = PutAt(moviesPlayed, job.at, r.asks) /\ UNCHANGED changes
            /\ job' = [job EXCEPT !.titles = @ \ {Top(@)}, !.at = @ + 1]
         \/ MissedOne /\ UNCHANGED moviesPlayed /\ job' = [job EXCEPT !.titles = @ \ {Top(@)}, !.at = @ + 1, !.quiet = FALSE]
      /\ UNCHANGED <<sheet, entered, playable, section, jobs, spoilt>>
  BY DEF WritePlayed
<1>2. BookShape /\ CellsTrue /\ HeldTrue /\ PlayedOnce /\ ToList /\ Follows
  BY DEF BookInv
<1>3. job \in JobRecords /\ job.titles \in SUBSET SheetRows /\ job.at \in Nat /\ job.quiet \in BOOLEAN /\ job.rows = {} /\ ~AtRows
  BY <1>1, <1>2 DEF BookShape, JobRecords, AtRows
<1>4. r \in job.titles /\ r.asks \in Films
  BY <1>1, <1>3, TopIs DEF SheetRows
<1>. DEFINE titles == job.titles \ {r}
            at == job.at + 1
<1>5. \E quiet \in BOOLEAN : job' = [job EXCEPT !.titles = titles, !.at = at, !.quiet = quiet] /\ (quiet => job.quiet)
  BY <1>1, <1>3
<1>. HIDE DEF r
<1>6. titles \in SUBSET SheetRows /\ titles \subseteq job.titles /\ r \notin titles /\ at \in Nat /\ at > job.at
  BY <1>3
<1>. HIDE DEF titles, at
<1>7. /\ job' \in JobRecords /\ job'.pc = "movies" /\ job'.rows = {} /\ job'.titles = titles /\ job'.at = at
      /\ job'.lines = job.lines /\ (job'.quiet => job.quiet)
  BY <1>1, <1>3, <1>5, <1>6 DEF JobRecords
<1>8. moviesPlayed \in Seq(Films \cup {"none"}) /\ Len(moviesPlayed) \in Nat /\ DOMAIN moviesPlayed = 1 .. Len(moviesPlayed)
  BY <1>2 DEF BookShape
<1>9. /\ PutAt(moviesPlayed, job.at, r.asks) \in Seq(Films \cup {"none"})
      /\ job.at > Len(moviesPlayed) =>
           LET put == PutAt(moviesPlayed, job.at, r.asks) IN
           /\ Len(put) = job.at /\ put[job.at] = r.asks /\ DOMAIN put = 1 .. job.at
           /\ \A k \in 1 .. Len(moviesPlayed) : put[k] = moviesPlayed[k]
           /\ \A k \in 1 .. job.at : k = job.at \/ k \in 1 .. Len(moviesPlayed) \/ put[k] = "none"
  <2>. DEFINE S == Films \cup {"none"} x == r.asks n == job.at
  <2>1. "none" \in S /\ x \in S /\ moviesPlayed \in Seq(S) /\ n \in Nat
    BY <1>3, <1>4, <1>8
  <2>. HIDE DEF S, x, n
  <2>2. PutAt(moviesPlayed, n, x) \in Seq(S)
    BY <2>1, PutAtIs
  <2>3. ASSUME n > Len(moviesPlayed)
        PROVE  /\ Len(PutAt(moviesPlayed, n, x)) = n /\ PutAt(moviesPlayed, n, x)[n] = x /\ DOMAIN PutAt(moviesPlayed, n, x) = 1 .. n
               /\ \A k \in 1 .. Len(moviesPlayed) : PutAt(moviesPlayed, n, x)[k] = moviesPlayed[k]
               /\ \A k \in 1 .. n : k = n \/ k \in 1 .. Len(moviesPlayed) \/ PutAt(moviesPlayed, n, x)[k] = "none"
    <3>1. Len(PutAt(moviesPlayed, n, x)) = n 
      BY <2>1, <2>3, PutAtIs
    <3>2. PutAt(moviesPlayed, n, x)[n] = x 
      BY <2>1, <2>3, PutAtIs
    <3>3. DOMAIN PutAt(moviesPlayed, n, x) = 1 .. n
      BY <2>1, <2>3, PutAtIs
    <3>4. \A k \in 1 .. Len(moviesPlayed) : PutAt(moviesPlayed, n, x)[k] = moviesPlayed[k]
      BY <2>1, <2>3, PutAtIs
    <3>5. \A k \in 1 .. n : k = n \/ k \in 1 .. Len(moviesPlayed) \/ PutAt(moviesPlayed, n, x)[k] = "none"
      BY <2>1, <2>3, PutAtIs
    <3>. QED  BY <3>1, <3>2, <3>3, <3>4, <3>5
  <2>. QED  BY <2>2, <2>3 DEF S, x, n
<1>10. changes' \in 0 .. MaxEdits
  BY <1>1, <1>2, WorkbookAssumption DEF BookShape, MissedOne, Change
<1>11. moviesPlayed' \in Seq(Films \cup {"none"})
  BY <1>1, <1>8, <1>9
<1>12. BookShape'
  BY <1>1, <1>2, <1>6, <1>7, <1>10, <1>11 DEF BookShape, AtRows
<1>13. CellsTrue' /\ HeldTrue'
  BY <1>1, <1>2, <1>7 DEF CellsTrue, HeldTrue
<1>14. Follows'
  <2>1. Held' = Held /\ Asking' = Asking /\ Through' = Through /\ (\A n : Place(n)' = Place(n)) /\ (\A n : ~InCell(n) /\ ~InCell(n)')
    BY <1>1, <1>3, <1>7 DEF Held, Asking, Through, InCell, Place
  <2>. QED  BY <1>1, <1>2, <1>3, <1>7, <2>1 DEF Follows, JobOn
<1>15. ASSUME "played" \notin spoilt
       PROVE  /\ job.at > Len(moviesPlayed) /\ r.asks \notin ToSet(moviesPlayed)
              /\ \A q \in titles : q.asks # r.asks /\ q.asks \notin ToSet(moviesPlayed)
              /\ \A p, q \in titles : p.asks = q.asks => p = q
              /\ \A m, n \in 1 .. Len(moviesPlayed) : moviesPlayed[m] = moviesPlayed[n] /\ moviesPlayed[m] # "none" => m = n
              /\ entered \subseteq ToSet(moviesPlayed)
  <2>1. /\ job.at > Len(moviesPlayed)
        /\ \A p, q \in job.titles : p.asks = q.asks => p = q
        /\ \A q \in job.titles : q.asks \notin ToSet(moviesPlayed)
    BY <1>1, <1>2, <1>15 DEF ToList, JobOn
  <2>2. \A q \in titles : q \in job.titles /\ q # r
    BY <1>6
  <2>3. /\ \A m, n \in 1 .. Len(moviesPlayed) : moviesPlayed[m] = moviesPlayed[n] /\ moviesPlayed[m] # "none" => m = n
        /\ entered \subseteq ToSet(moviesPlayed)
    BY <1>2, <1>8, <1>15 DEF PlayedOnce
  <2>. QED  BY <1>4, <2>1, <2>2, <2>3
<1>16. PlayedOnce' /\ ToList'
  <2>1. CASE UNCHANGED moviesPlayed
    <3>1. PlayedOnce'
      BY <1>1, <1>2, <2>1 DEF PlayedOnce
    <3>2. "played" \notin spoilt => job'.at > Len(moviesPlayed')
      BY <1>3, <1>6, <1>7, <1>8, <1>15, <2>1
    <3>3. ToList'
      BY <1>1, <1>7, <1>15, <2>1, <3>2 DEF ToList
    <3>. QED  BY <3>1, <3>3
  <2>2. CASE moviesPlayed' = PutAt(moviesPlayed, job.at, r.asks)
    <3>. SUFFICES ASSUME "played" \notin spoilt PROVE PlayedOnce' /\ ToList'
      BY <1>1 DEF PlayedOnce, ToList
    <3>. DEFINE old == Len(moviesPlayed)
    <3>1. /\ Len(moviesPlayed') = job.at /\ moviesPlayed'[job.at] = r.asks /\ DOMAIN moviesPlayed' = 1 .. job.at
          /\ \A k \in 1 .. old : moviesPlayed'[k] = moviesPlayed[k]
          /\ \A k \in 1 .. job.at : k = job.at \/ k \in 1 .. old \/ moviesPlayed'[k] = "none"
      BY <1>9, <1>15, <2>2
    <3>2. job.at > old /\ old \in Nat /\ job.at \in 1 .. job.at /\ \A k \in 1 .. old : k \in 1 .. job.at
      BY <1>3, <1>8, <1>15
    <3>. HIDE DEF old
    <3>3. \A f : f \in ToSet(moviesPlayed) <=> \E k \in 1 .. old : moviesPlayed[k] = f
      BY <1>8 DEF ToSet, old
    <3>4. \A f : f \in ToSet(moviesPlayed') <=> \E k \in 1 .. job.at : moviesPlayed'[k] = f
      BY <3>1 DEF ToSet
    <3>5. \A k \in 1 .. old : moviesPlayed'[k] # r.asks
      BY <1>15, <3>1, <3>3
    <3>6. \A m, n \in 1 .. job.at : moviesPlayed'[m] = moviesPlayed'[n] /\ moviesPlayed'[m] # "none" => m = n
      <4>. SUFFICES ASSUME NEW m \in 1 .. job.at, NEW n \in 1 .. job.at, moviesPlayed'[m] = moviesPlayed'[n], moviesPlayed'[m] # "none"
                    PROVE  m = n
        OBVIOUS
      <4>1. CASE m = job.at \/ n = job.at
        BY <3>1, <3>5, <4>1
      <4>2. CASE m # job.at /\ n # job.at
        BY <1>15, <3>1, <4>2 DEF old
      <4>. QED  BY <4>1, <4>2
    <3>7. \A f : f \in ToSet(moviesPlayed) => f \in ToSet(moviesPlayed')
      <4>. SUFFICES ASSUME NEW f \in ToSet(moviesPlayed) PROVE f \in ToSet(moviesPlayed')
        OBVIOUS
      <4>1. PICK k \in 1 .. old : moviesPlayed[k] = f
        BY <3>3
      <4>. QED  BY <3>1, <3>2, <3>4, <4>1
    <3>8. PlayedOnce'
      <4>1. entered' \subseteq ToSet(moviesPlayed')
        BY <1>1, <1>15, <3>7
      <4>2. ToSet(moviesPlayed)' = ToSet(moviesPlayed')
        BY DEF ToSet
      <4>. QED  BY <3>1, <3>6, <4>1, <4>2 DEF PlayedOnce
    <3>9. \A f \in Films : f \in ToSet(moviesPlayed') => f = r.asks \/ f \in ToSet(moviesPlayed)
      <4>. SUFFICES ASSUME NEW f \in Films, f \in ToSet(moviesPlayed') PROVE f = r.asks \/ f \in ToSet(moviesPlayed)
        OBVIOUS
      <4>1. PICK k \in 1 .. job.at : moviesPlayed'[k] = f
        BY <3>4
      <4>2. f # "none"
        BY WorkbookAssumption
      <4>. QED  BY <3>1, <3>3, <4>1, <4>2
    <3>10. ToList'
      <4>1. \A q \in titles : q.asks \in Films
        BY <1>6 DEF SheetRows
      <4>2. \A q \in titles : q.asks \notin ToSet(moviesPlayed')
        BY <1>15, <3>9, <4>1
      <4>3. job'.at > Len(moviesPlayed')
        BY <1>3, <1>6, <1>7, <3>1
      <4>4. ToSet(moviesPlayed)' = ToSet(moviesPlayed')
        BY DEF ToSet
      <4>. QED  BY <1>7, <1>15, <4>2, <4>3, <4>4 DEF ToList
    <3>. QED  BY <3>8, <3>10
  <2>. QED  BY <1>1, <2>1, <2>2
<1>. QED  BY <1>12, <1>13, <1>14, <1>16 DEF BookInv

LEMMA PlayedDoneStep == BookInv /\ PlayedDone => BookInv'
<1>. SUFFICES ASSUME BookInv, PlayedDone PROVE BookInv'
  OBVIOUS
<1>1. /\ job.pc = "movies" /\ job.titles = {} /\ job' = [job EXCEPT !.pc = "import"]
      /\ UNCHANGED <<sheet, moviesPlayed, entered, playable, section, jobs, changes, spoilt>>
  BY DEF PlayedDone
<1>2. BookShape /\ CellsTrue /\ HeldTrue /\ PlayedOnce /\ ToList /\ Follows
  BY DEF BookInv
<1>3. job.rows = {} /\ ~AtRows
  BY <1>1, <1>2 DEF BookShape, AtRows
<1>4. /\ job' \in JobRecords /\ job'.pc = "import" /\ job'.rows = {} /\ job'.titles = {} /\ job'.at = job.at
      /\ job'.lines = job.lines /\ job'.quiet = job.quiet
  BY <1>1, <1>2, <1>3 DEF BookShape, JobRecords
<1>5. BookShape'
  BY <1>1, <1>2, <1>4 DEF BookShape, AtRows
<1>6. CellsTrue' /\ HeldTrue' /\ PlayedOnce'
  BY <1>1, <1>2, <1>4 DEF CellsTrue, HeldTrue, PlayedOnce
<1>7. ToList'
  BY <1>1, <1>2, <1>4 DEF ToList, JobOn
<1>8. Follows'
  <2>1. Held' = Held /\ Asking' = Asking /\ Through' = Through /\ (\A n : Place(n)' = Place(n)) /\ (\A n : ~InCell(n) /\ ~InCell(n)')
    BY <1>1, <1>3, <1>4 DEF Held, Asking, Through, InCell, Place
  <2>. QED  BY <1>1, <1>2, <1>3, <1>4, <2>1 DEF Follows, JobOn
<1>. QED  BY <1>5, <1>6, <1>7, <1>8 DEF BookInv

\* A job that is gone.
LEMMA GoneStep ==
  ASSUME BookInv, job' = NoJob, section' \in Seq(Films), changes' \in 0 .. MaxEdits,
         UNCHANGED <<sheet, moviesPlayed, entered, playable, jobs, spoilt>>
  PROVE  BookInv'
<1>1. BookShape /\ CellsTrue /\ PlayedOnce
  BY DEF BookInv
<1>2. job' \in JobRecords /\ job'.pc = "idle" /\ job'.rows = {} /\ job'.titles = {}
  BY DEF NoJob, JobRecords
<1>3. BookShape'
  BY <1>1, <1>2 DEF BookShape, AtRows
<1>4. CellsTrue' /\ HeldTrue' /\ PlayedOnce' /\ ToList' /\ Follows'
  BY <1>1, <1>2 DEF CellsTrue, HeldTrue, PlayedOnce, ToList, Follows, JobOn
<1>. QED  BY <1>3, <1>4 DEF BookInv

\* The playlist of a job that nothing disturbed is what the sheet has.
LEMMA ImportStep == BookInv /\ Import => BookInv' /\ ListFollows
<1>. SUFFICES ASSUME BookInv, Import PROVE BookInv' /\ ListFollows
  OBVIOUS
<1>1. /\ job.pc = "import" /\ job' = NoJob /\ section' = (IF job.lines = <<>> THEN section ELSE job.lines)
      /\ UNCHANGED <<sheet, moviesPlayed, entered, playable, jobs, changes, spoilt>>
  BY DEF Import
<1>2. BookShape /\ Follows
  BY DEF BookInv
<1>3. section' \in Seq(Films) /\ changes' \in 0 .. MaxEdits /\ job.lines \in Seq(Films)
  BY <1>1, <1>2 DEF BookShape, JobRecords
<1>4. BookInv'
  BY <1>1, <1>3, GoneStep
<1>5. ASSUME job.quiet
      PROVE  Len(section') = Cardinality(Asking) /\ \A n \in Asking : section'[Place(n)] = sheet[n].cell
  <2>1. job.rows = {} /\ \A n : ~InCell(n)
    BY <1>1, <1>2 DEF BookShape, AtRows, InCell
  <2>2. Through = Asking
    BY <2>1 DEF Through, Held
  <2>3. /\ Asking # {} /\ Len(job.lines) = Cardinality(Asking)
        /\ \A n \in Asking : job.lines[Place(n)] = sheet[n].cell
    BY <1>1, <1>2, <1>5, <2>1, <2>2 DEF Follows, JobOn
  <2>4. Cardinality(Asking) # 0
    BY <1>2, <2>3, AskingIs, FS_EmptySet
  <2>5. job.lines # <<>>
    BY <2>3, <2>4
  <2>. QED  BY <1>1, <2>3, <2>5
<1>6. ListFollows
  BY <1>5 DEF ListFollows
<1>. QED  BY <1>4, <1>6

LEMMA JobDiesStep == BookInv /\ JobDies => BookInv'
<1>. SUFFICES ASSUME BookInv, JobDies PROVE BookInv'
  OBVIOUS
<1>1. Change /\ job' = NoJob /\ UNCHANGED <<sheet, moviesPlayed, entered, playable, section, jobs, spoilt>>
  BY DEF JobDies
<1>2. section' \in Seq(Films) /\ changes' \in 0 .. MaxEdits
  BY <1>1, WorkbookAssumption DEF BookInv, BookShape, Change
<1>. QED  BY <1>1, <1>2, GoneStep

\* Who touches the workbook beside a job spoils what he wrote for it.
LEMMA DisturbIs ==
  ASSUME BookInv, NEW what \in {"cells", "played", "none"}, NEW when \in BOOLEAN, when => what # "none", Disturb(what, when), Change
  PROVE  /\ job' \in JobRecords /\ job'.pc = job.pc /\ job'.rows = job.rows /\ job'.titles = job.titles /\ job'.at = job.at
         /\ (JobOn' <=> JobOn) /\ (AtRows' <=> AtRows) /\ Follows'
         /\ spoilt' \subseteq {"cells", "played"} /\ spoilt \subseteq spoilt' /\ (when => what \in spoilt') /\ (~when => spoilt' = spoilt)
         /\ changes' \in 0 .. MaxEdits /\ jobs' = jobs
<1>1. /\ spoilt' = (IF when THEN spoilt \cup {what} ELSE spoilt) /\ job' = [job EXCEPT !.quiet = @ /\ ~JobOn] /\ jobs' = jobs
  BY DEF Disturb
<1>2. job \in JobRecords /\ job.quiet \in BOOLEAN /\ spoilt \subseteq {"cells", "played"}
  BY DEF BookInv, BookShape, JobRecords
<1>3. PICK quiet \in BOOLEAN : quiet <=> job.quiet /\ ~JobOn
  BY (job.quiet /\ ~JobOn) \in BOOLEAN
<1>4. job' = [job EXCEPT !.quiet = quiet]
  <2>1. (job.quiet /\ ~JobOn) = quiet
    BY <1>3
  <2>. QED  BY <1>1, <2>1
<1>5. /\ job' \in JobRecords /\ job'.pc = job.pc /\ job'.rows = job.rows /\ job'.titles = job.titles /\ job'.at = job.at /\ job'.quiet = quiet
  BY <1>2, <1>4 DEF JobRecords
<1>6. (JobOn' <=> JobOn) /\ (AtRows' <=> AtRows) /\ Follows'
  BY <1>3, <1>5 DEF JobOn, AtRows, Follows
<1>7. changes' \in 0 .. MaxEdits
  BY WorkbookAssumption DEF BookInv, BookShape, Change
<1>. QED  BY <1>1, <1>2, <1>5, <1>6, <1>7

LEMMA AskOtherStep == \A f \in Films, n \in DOMAIN sheet : BookInv /\ AskOther(n, f) => BookInv'
<1>. SUFFICES ASSUME NEW f \in Films, NEW n \in DOMAIN sheet, BookInv, AskOther(n, f) PROVE BookInv'
  OBVIOUS
<1>1. BookShape /\ CellsTrue /\ HeldTrue /\ PlayedOnce /\ ToList
  BY DEF BookInv
<1>. DEFINE when == JobOn \/ sheet[n].cell # "none"
            e == [sheet[n] EXCEPT !.asks = f]
<1>2. /\ Change /\ sheet' = [sheet EXCEPT ![n] = e] /\ Disturb("cells", when)
      /\ UNCHANGED <<moviesPlayed, entered, playable, section>>
  BY DEF AskOther
<1>3. sheet \in Seq(Cells) /\ n \in 1 .. Len(sheet) /\ DOMAIN sheet = 1 .. Len(sheet) /\ Len(sheet) \in Nat
  BY <1>1 DEF BookShape
<1>4. e \in Cells /\ e.asks = f /\ e.cell = sheet[n].cell
  <2>1. sheet[n] \in Cells
    BY <1>3
  <2>. QED  BY <2>1 DEF Cells
<1>. HIDE DEF e
<1>5. /\ sheet' \in Seq(Cells) /\ Len(sheet') = Len(sheet) /\ DOMAIN sheet' = DOMAIN sheet
      /\ \A k \in 1 .. Len(sheet) : sheet'[k] = IF k = n THEN e ELSE sheet[k]
  <2>1. /\ sheet' \in Seq(Cells) /\ Len(sheet') = Len(sheet)
        /\ \A k \in 1 .. Len(sheet) : sheet'[k] = IF k = n THEN e ELSE sheet[k]
    BY <1>2, <1>3, <1>4, ExceptSeq
  <2>. QED  BY <1>3, <2>1
<1>6. /\ job' \in JobRecords /\ job'.pc = job.pc /\ job'.rows = job.rows /\ job'.titles = job.titles /\ job'.at = job.at
      /\ (JobOn' <=> JobOn) /\ (AtRows' <=> AtRows) /\ Follows'
      /\ spoilt' \subseteq {"cells", "played"} /\ spoilt \subseteq spoilt' /\ (when => "cells" \in spoilt') /\ (~when => spoilt' = spoilt)
      /\ changes' \in 0 .. MaxEdits /\ jobs' = jobs
  <2>1. when \in BOOLEAN
    OBVIOUS
  <2>. HIDE DEF when
  <2>. QED  BY <1>2, <2>1, DisturbIs
<1>7. BookShape'
  BY <1>1, <1>2, <1>5, <1>6 DEF BookShape
<1>8. CellsTrue'
  BY <1>1, <1>3, <1>4, <1>5, <1>6 DEF CellsTrue
<1>9. HeldTrue'
  <2>1. ~JobOn => job.rows = {}
    BY <1>1 DEF BookShape, JobOn, AtRows
  <2>. QED  BY <1>6, <2>1 DEF HeldTrue
<1>10. PlayedOnce' /\ ToList'
  BY <1>1, <1>2, <1>6 DEF PlayedOnce, ToList
<1>. QED  BY <1>6, <1>7, <1>8, <1>9, <1>10 DEF BookInv

\* A row put in: the ones above stay, the others move down one.
LEMMA InsertAtIs ==
  ASSUME NEW S, NEW s \in Seq(S), NEW n \in 1 .. Len(s), NEW x \in S
  PROVE  /\ InsertAt(s, n, x) \in Seq(S) /\ Len(InsertAt(s, n, x)) = Len(s) + 1
         /\ \A k \in 1 .. Len(s) + 1 : InsertAt(s, n, x)[k] = x \/ \E i \in 1 .. Len(s) : InsertAt(s, n, x)[k] = s[i]
<1>. DEFINE a == SubSeq(s, 1, n - 1) b == <<x>> c == SubSeq(s, n, Len(s))
<1>1. Len(s) \in Nat /\ n \in Nat /\ n >= 1 /\ n <= Len(s) /\ \A i \in 1 .. Len(s) : s[i] \in S
  OBVIOUS
<1>2. a \in Seq(S) /\ Len(a) = n - 1 /\ \A i \in 1 .. n - 1 : a[i] = s[i]
  <2>1. \A i \in 1 .. n - 1 : s[i] \in S
    BY <1>1
  <2>2. /\ a \in Seq(S) /\ Len(a) = IF 1 <= n - 1 THEN (n - 1) - 1 + 1 ELSE 0
        /\ \A i \in 1 .. (n - 1) - 1 + 1 : a[i] = s[1 + i - 1]
    BY <1>1, <2>1, SubSeqProperties
  <2>. HIDE DEF a
  <2>3. (n - 1) - 1 + 1 = n - 1 /\ (1 <= n - 1 \/ n - 1 = 0)
    BY <1>1
  <2>4. \A i \in 1 .. n - 1 : 1 + i - 1 = i
    BY <1>1
  <2>. QED  BY <2>2, <2>3, <2>4
<1>3. c \in Seq(S) /\ Len(c) = Len(s) - n + 1 /\ \A i \in 1 .. Len(s) - n + 1 : c[i] = s[n + i - 1]
  <2>1. \A i \in n .. Len(s) : s[i] \in S
    BY <1>1
  <2>2. /\ c \in Seq(S) /\ Len(c) = IF n <= Len(s) THEN Len(s) - n + 1 ELSE 0
        /\ \A i \in 1 .. Len(s) - n + 1 : c[i] = s[n + i - 1]
    BY <1>1, <2>1, SubSeqProperties
  <2>. HIDE DEF c
  <2>. QED  BY <1>1, <2>2
<1>4. InsertAt(s, n, x) = a \o b \o c
  BY DEF InsertAt
<1>5. b \in Seq(S) /\ Len(b) = 1 /\ b[1] = x
  OBVIOUS
<1>. HIDE DEF a, b, c
<1>6. /\ a \o b \in Seq(S) /\ Len(a \o b) = Len(a) + Len(b)
      /\ \A i \in 1 .. Len(a) + Len(b) : (a \o b)[i] = IF i <= Len(a) THEN a[i] ELSE b[i - Len(a)]
  BY <1>2, <1>5, ConcatProperties
<1>. DEFINE d == a \o b
<1>7. d \in Seq(S) /\ Len(d) = n /\ \A i \in 1 .. n : d[i] = x \/ (i \in 1 .. Len(s) /\ d[i] = s[i])
  <2>1. Len(d) = n
    BY <1>1, <1>2, <1>5, <1>6
  <2>2. \A i \in 1 .. n : i <= n - 1 => d[i] = s[i] /\ i \in 1 .. Len(s)
    BY <1>1, <1>2, <1>5, <1>6
  <2>3. d[n] = x
    BY <1>1, <1>2, <1>5, <1>6
  <2>4. \A i \in 1 .. n : i <= n - 1 \/ i = n
    BY <1>1
  <2>. QED  BY <1>6, <2>1, <2>2, <2>3, <2>4
<1>. HIDE DEF d
<1>8. /\ d \o c \in Seq(S) /\ Len(d \o c) = Len(d) + Len(c)
      /\ \A i \in 1 .. Len(d) + Len(c) : (d \o c)[i] = IF i <= Len(d) THEN d[i] ELSE c[i - Len(d)]
  BY <1>3, <1>7, ConcatProperties
<1>9. Len(d \o c) = Len(s) + 1
  BY <1>1, <1>3, <1>7, <1>8
<1>10. ASSUME NEW k \in 1 .. Len(s) + 1 PROVE (d \o c)[k] = x \/ \E i \in 1 .. Len(s) : (d \o c)[k] = s[i]
  <2>1. k \in 1 .. Len(d) + Len(c)
    BY <1>8, <1>9
  <2>2. CASE k <= n
    BY <1>1, <1>7, <1>8, <2>1, <2>2
  <2>3. CASE k > n
    <3>1. (d \o c)[k] = c[k - n] /\ k - n \in 1 .. Len(s) - n + 1 /\ n + (k - n) - 1 = k - 1 /\ k - 1 \in 1 .. Len(s)
      BY <1>1, <1>7, <1>8, <2>1, <2>3
    <3>. QED  BY <1>3, <3>1
  <2>4. k <= n \/ k > n
    BY <1>1
  <2>. QED  BY <2>2, <2>3, <2>4
<1>. QED  BY <1>4, <1>8, <1>9, <1>10 DEF d

LEMMA InsertRowStep == \A f \in Films, n \in DOMAIN sheet : BookInv /\ InsertRow(n, f) => BookInv'
<1>. SUFFICES ASSUME NEW f \in Films, NEW n \in DOMAIN sheet, BookInv, InsertRow(n, f) PROVE BookInv'
  OBVIOUS
<1>1. BookShape /\ CellsTrue /\ HeldTrue /\ PlayedOnce /\ ToList
  BY DEF BookInv
<1>. DEFINE new == [asks |-> f, cell |-> "none"]
<1>2. /\ Change /\ sheet' = InsertAt(sheet, n, new) /\ Disturb("cells", JobOn)
      /\ UNCHANGED <<moviesPlayed, entered, playable, section>>
  BY DEF InsertRow
<1>3. sheet \in Seq(Cells) /\ n \in 1 .. Len(sheet) /\ DOMAIN sheet = 1 .. Len(sheet) /\ Len(sheet) \in Nat
  BY <1>1 DEF BookShape
<1>4. new \in Cells /\ new.cell = "none"
  BY DEF Cells
<1>. HIDE DEF new
<1>5. /\ sheet' \in Seq(Cells) /\ Len(sheet') = Len(sheet) + 1
      /\ \A k \in 1 .. Len(sheet) + 1 : sheet'[k] = new \/ \E i \in 1 .. Len(sheet) : sheet'[k] = sheet[i]
  BY <1>2, <1>3, <1>4, InsertAtIs
<1>6. DOMAIN sheet' = 1 .. Len(sheet) + 1 /\ DOMAIN sheet \subseteq DOMAIN sheet'
  BY <1>3, <1>5
<1>7. /\ job' \in JobRecords /\ job'.pc = job.pc /\ job'.rows = job.rows /\ job'.titles = job.titles /\ job'.at = job.at
      /\ (JobOn' <=> JobOn) /\ (AtRows' <=> AtRows) /\ Follows'
      /\ spoilt' \subseteq {"cells", "played"} /\ spoilt \subseteq spoilt' /\ (JobOn => "cells" \in spoilt') /\ (~JobOn => spoilt' = spoilt)
      /\ changes' \in 0 .. MaxEdits /\ jobs' = jobs
  BY <1>2, DisturbIs, JobOn \in BOOLEAN DEF JobOn
<1>8. BookShape'
  BY <1>1, <1>2, <1>5, <1>6, <1>7 DEF BookShape
<1>9. CellsTrue'
  BY <1>1, <1>3, <1>4, <1>5, <1>6, <1>7 DEF CellsTrue
<1>10. HeldTrue'
  <2>1. ~JobOn => job.rows = {}
    BY <1>1 DEF BookShape, JobOn, AtRows
  <2>. QED  BY <1>7, <2>1 DEF HeldTrue
<1>11. PlayedOnce' /\ ToList'
  BY <1>1, <1>2, <1>7 DEF PlayedOnce, ToList
<1>. QED  BY <1>7, <1>8, <1>9, <1>10, <1>11 DEF BookInv

LEMMA EnterPlayedStep == \A f \in Films : BookInv /\ EnterPlayed(f) => BookInv'
<1>. SUFFICES ASSUME NEW f \in Films, BookInv, EnterPlayed(f) PROVE BookInv'
  OBVIOUS
<1>1. BookShape /\ CellsTrue /\ HeldTrue /\ PlayedOnce /\ ToList
  BY DEF BookInv
<1>2. /\ Change /\ f \notin ToSet(moviesPlayed) /\ moviesPlayed' = Append(moviesPlayed, f)
      /\ entered' = entered \cup {f} /\ Disturb("played", JobOn) /\ UNCHANGED <<sheet, playable, section>>
  BY DEF EnterPlayed
<1>3. /\ job' \in JobRecords /\ job'.pc = job.pc /\ job'.rows = job.rows /\ job'.titles = job.titles /\ job'.at = job.at
      /\ (JobOn' <=> JobOn) /\ (AtRows' <=> AtRows) /\ Follows'
      /\ spoilt' \subseteq {"cells", "played"} /\ spoilt \subseteq spoilt' /\ (JobOn => "played" \in spoilt') /\ (~JobOn => spoilt' = spoilt)
      /\ changes' \in 0 .. MaxEdits /\ jobs' = jobs
  BY <1>2, DisturbIs, JobOn \in BOOLEAN DEF JobOn
<1>. DEFINE old == Len(moviesPlayed)
<1>4. /\ moviesPlayed' \in Seq(Films \cup {"none"}) /\ old \in Nat /\ DOMAIN moviesPlayed = 1 .. old
      /\ DOMAIN moviesPlayed' = 1 .. old + 1 /\ moviesPlayed'[old + 1] = f /\ \A k \in 1 .. old : moviesPlayed'[k] = moviesPlayed[k]
  BY <1>1, <1>2, AppendIs DEF BookShape
<1>. HIDE DEF old
<1>5. BookShape'
  BY <1>1, <1>2, <1>3, <1>4 DEF BookShape
<1>6. CellsTrue' /\ HeldTrue'
  BY <1>1, <1>2, <1>3 DEF CellsTrue, HeldTrue
<1>7. ToList'
  BY <1>1, <1>3 DEF ToList, JobOn, BookShape
<1>8. PlayedOnce'
  <2>. SUFFICES ASSUME "played" \notin spoilt' PROVE PlayedOnce'
    BY DEF PlayedOnce
  <2>1. /\ \A m, n \in 1 .. old : moviesPlayed[m] = moviesPlayed[n] /\ moviesPlayed[m] # "none" => m = n
        /\ entered \subseteq ToSet(moviesPlayed)
    BY <1>1, <1>3, <1>4 DEF PlayedOnce
  <2>2. \A k \in 1 .. old : moviesPlayed[k] # f
    BY <1>2, <1>4 DEF ToSet
  <2>3. \A k \in 1 .. old + 1 : k \in 1 .. old \/ k = old + 1
    BY <1>4
  <2>4. \A m, n \in 1 .. old + 1 : moviesPlayed'[m] = moviesPlayed'[n] /\ moviesPlayed'[m] # "none" => m = n
    BY <1>4, <2>1, <2>2, <2>3
  <2>5. entered' \subseteq ToSet(moviesPlayed)'
    <3>1. \A k \in 1 .. old : k \in 1 .. old + 1
      BY <1>4
    <3>2. old + 1 \in 1 .. old + 1
      BY <1>4
    <3>3. f \in ToSet(moviesPlayed)'
      BY <1>4, <3>2 DEF ToSet
    <3>4. \A x \in entered : x \in ToSet(moviesPlayed)'
      <4>. SUFFICES ASSUME NEW x \in entered PROVE x \in ToSet(moviesPlayed)'
        OBVIOUS
      <4>1. PICK k \in 1 .. old : moviesPlayed[k] = x
        BY <1>4, <2>1 DEF ToSet
      <4>. QED  BY <1>4, <3>1, <4>1 DEF ToSet
    <3>. QED  BY <1>2, <3>3, <3>4
  <2>. QED  BY <1>4, <2>4, <2>5 DEF PlayedOnce
<1>. QED  BY <1>3, <1>5, <1>6, <1>7, <1>8 DEF BookInv

LEMMA WithdrawnStep == \A f \in Films : BookInv /\ Withdrawn(f) => BookInv'
<1>. SUFFICES ASSUME NEW f \in Films, BookInv, Withdrawn(f) PROVE BookInv'
  OBVIOUS
<1>1. BookShape /\ CellsTrue /\ HeldTrue /\ PlayedOnce /\ ToList
  BY DEF BookInv
<1>2. /\ Change /\ playable' = playable \ {f} /\ Disturb("none", FALSE)
      /\ UNCHANGED <<sheet, moviesPlayed, entered, section>>
  BY DEF Withdrawn
<1>3. /\ job' \in JobRecords /\ job'.pc = job.pc /\ job'.rows = job.rows /\ job'.titles = job.titles /\ job'.at = job.at
      /\ (JobOn' <=> JobOn) /\ (AtRows' <=> AtRows) /\ Follows' /\ spoilt' = spoilt
      /\ changes' \in 0 .. MaxEdits /\ jobs' = jobs
  BY <1>2, DisturbIs
<1>4. BookShape'
  BY <1>1, <1>2, <1>3 DEF BookShape
<1>5. CellsTrue' /\ HeldTrue' /\ PlayedOnce' /\ ToList'
  BY <1>1, <1>2, <1>3 DEF CellsTrue, HeldTrue, PlayedOnce, ToList
<1>. QED  BY <1>3, <1>4, <1>5 DEF BookInv

LEMMA BookInductive == BookInv /\ [WorkbookNext]_workbookVars => BookInv' /\ [ListFollows]_workbookVars
<1>. SUFFICES ASSUME BookInv, [WorkbookNext]_workbookVars PROVE BookInv' /\ [ListFollows]_workbookVars
  OBVIOUS
<1>1. ASSUME Import PROVE BookInv' /\ ListFollows
  BY <1>1, ImportStep
<1>2. ASSUME ~Import, WorkbookNext PROVE ListFollows
  <2>. SUFFICES ASSUME job.pc = "import", job'.pc = "idle", changes' = changes PROVE FALSE
    BY DEF ListFollows
  <2>1. changes \in Nat /\ (Change => changes' # changes)
    BY DEF BookInv, BookShape, Change
  <2>2. ~StartJob /\ ~Revalidate /\ ~ResolveRow /\ ~ResolveFails /\ ~WriteCell /\ ~WritePlayed /\ ~PlayedDone
    BY DEF StartJob, JobOn, Revalidate, ResolveRow, ResolveFails, WriteCell, WritePlayed, PlayedDone
  <2>3. ~JobDies /\ \A f, n : ~EnterPlayed(f) /\ ~Withdrawn(f) /\ ~InsertRow(n, f) /\ ~AskOther(n, f)
    BY <2>1 DEF JobDies, EnterPlayed, Withdrawn, InsertRow, AskOther
  <2>. QED  BY <1>2, <2>2, <2>3 DEF WorkbookNext, JobStep
<1>3. CASE StartJob \/ Revalidate \/ ResolveRow \/ ResolveFails \/ WriteCell \/ WritePlayed \/ PlayedDone \/ JobDies
  <2>1. BookInv'
    BY <1>3, StartJobStep, RevalidateStep, ResolveRowStep, ResolveFailsStep, WriteCellStep, WritePlayedStep, PlayedDoneStep, JobDiesStep
  <2>2. WorkbookNext
    BY <1>3 DEF WorkbookNext, JobStep
  <2>. QED  BY <1>1, <1>2, <2>1, <2>2
<1>4. ASSUME NEW f \in Films, EnterPlayed(f) \/ Withdrawn(f) \/ \E n \in DOMAIN sheet : InsertRow(n, f) \/ AskOther(n, f)
      PROVE  BookInv' /\ ListFollows
  <2>1. BookInv'
    BY <1>4, EnterPlayedStep, WithdrawnStep, InsertRowStep, AskOtherStep
  <2>2. WorkbookNext
    BY <1>4 DEF WorkbookNext
  <2>3. ListFollows
    BY <1>1, <1>2, <2>2
  <2>. QED  BY <2>1, <2>3
<1>5. CASE UNCHANGED workbookVars
  <2>1. UNCHANGED <<sheet, moviesPlayed, entered, playable, section, job, jobs, changes, spoilt>>
    BY <1>5 DEF workbookVars
  <2>2. BookShape /\ CellsTrue /\ HeldTrue /\ PlayedOnce /\ ToList /\ Follows
    BY DEF BookInv
  <2>3. BookShape' /\ CellsTrue' /\ HeldTrue' /\ PlayedOnce' /\ ToList'
    BY <2>1, <2>2 DEF BookShape, CellsTrue, HeldTrue, PlayedOnce, ToList, AtRows, JobOn
  <2>4. Follows'
    BY <2>1, <2>2 DEF Follows, JobOn, Held, Asking, Through, InCell, Place, RowOfJob
  <2>. QED  BY <1>5, <2>3, <2>4 DEF BookInv
<1>. QED  BY <1>1, <1>3, <1>4, <1>5 DEF WorkbookNext, JobStep

LEMMA BookInvSafe == BookInv => WorkbookSafe
BY DEF BookInv, BookShape, WorkbookSafe, WorkbookType, Cells, JobRecords, AtRows
-----------------------------------------------------------------------------
(***************************************************************************)
(* All together: what one of them does leaves the others where they are.   *)
(***************************************************************************)
CatalogueInv == IngestInv /\ ToolsInv /\ SyncInv /\ CompInv /\ BookInv /\ LookInv /\ RulesInv

LEMMA CatalogueInitially == CatalogueInit => CatalogueInv
BY IngestInitially, ToolsInitially, SyncInitially, CompInitially, BookInitially, LookInitially, RulesInitially DEF CatalogueInit, CatalogueInv

\* A step is a step of each of them, or leaves it as it is.
LEMMA CatalogueSteps ==
  ASSUME [CatalogueNext]_catalogueVars
  PROVE  /\ [CompletionNext]_completionVars /\ [DownloaderNext]_ingestVars /\ [CatalogNext]_catalogVars
         /\ [ToolsNext]_toolVars /\ [WorkbookNext]_workbookVars /\ [LookupsNext]_lookupVars /\ [RulesNext]_ruleVars
<1>1. CASE UNCHANGED catalogueVars
  BY <1>1 DEF catalogueVars
<1>2. CASE InCompletion(CompletionNext)
  BY <1>2 DEF InCompletion
<1>3. CASE InDownloader(DownloaderNext)
  BY <1>3 DEF InDownloader
<1>4. CASE InSync(CatalogNext)
  BY <1>4 DEF InSync
<1>5. CASE InTools(ToolsNext)
  BY <1>5 DEF InTools
<1>6. CASE InWorkbook(WorkbookNext)
  BY <1>6 DEF InWorkbook
<1>7. CASE InLookups(LookupsNext)
  BY <1>7 DEF InLookups
<1>8. CASE InRules(RulesNext)
  BY <1>8 DEF InRules
<1>. QED  BY <1>1, <1>2, <1>3, <1>4, <1>5, <1>6, <1>7, <1>8 DEF CatalogueNext

LEMMA CatalogueStep ==
  CatalogueInv /\ [CatalogueNext]_catalogueVars
    => CatalogueInv' /\ [PrunedRightly /\ ShrinkBounded /\ NeverPoorer /\ ListFollows]_catalogueVars
<1>. SUFFICES ASSUME CatalogueInv, [CatalogueNext]_catalogueVars
              PROVE  CatalogueInv' /\ [PrunedRightly /\ ShrinkBounded /\ NeverPoorer /\ ListFollows]_catalogueVars
  OBVIOUS
<1>1. /\ [CompletionNext]_completionVars /\ [DownloaderNext]_ingestVars /\ [CatalogNext]_catalogVars
      /\ [ToolsNext]_toolVars /\ [WorkbookNext]_workbookVars /\ [LookupsNext]_lookupVars /\ [RulesNext]_ruleVars
  BY CatalogueSteps
<1>2. IngestInv /\ ToolsInv /\ SyncInv /\ CompInv /\ BookInv /\ LookInv /\ RulesInv
  BY DEF CatalogueInv
<1>3. IngestInv' /\ CompInv' /\ LookInv' /\ RulesInv'
  BY <1>1, <1>2, IngestInductive, CompInductive, LookInductive, RulesInductive
<1>4. ToolsInv' /\ [NeverPoorer]_toolVars
  BY <1>1, <1>2, ToolsInductive
<1>5. SyncInv' /\ [PrunedRightly /\ ShrinkBounded]_catalogVars
  BY <1>1, <1>2, SyncInductive
<1>6. BookInv' /\ [ListFollows]_workbookVars
  BY <1>1, <1>2, BookInductive
<1>7. NeverPoorer
  <2>1. CASE UNCHANGED toolVars
    <3>1. entries' = entries /\ \A i \in Videos : entries[i] \in ListEntry
      BY <1>2, <2>1 DEF toolVars, ToolsInv, ToolShape
    <3>2. \A i \in Videos : entries[i].level \in Nat
      BY <3>1 DEF ListEntry
    <3>. QED  BY <3>1, <3>2 DEF NeverPoorer
  <2>. QED  BY <1>4, <2>1
<1>8. PrunedRightly /\ ShrinkBounded
  <2>1. CASE UNCHANGED catalogVars
    <3>1. sync' = sync
      BY <2>1 DEF catalogVars
    <3>. QED  BY <3>1 DEF PrunedRightly, ShrinkBounded
  <2>. QED  BY <1>5, <2>1
<1>9. ListFollows
  <2>1. CASE UNCHANGED workbookVars
    <3>1. job' = job
      BY <2>1 DEF workbookVars
    <3>. QED  BY <3>1 DEF ListFollows
  <2>. QED  BY <1>6, <2>1
<1>. QED  BY <1>3, <1>4, <1>5, <1>6, <1>7, <1>8, <1>9 DEF CatalogueInv

LEMMA CatalogueInvAlways == CatalogueSpec => []CatalogueInv
<1>1. CatalogueInv /\ [CatalogueNext]_catalogueVars => CatalogueInv'
  BY CatalogueStep
<1>. QED  BY CatalogueInitially, <1>1, PTL DEF CatalogueSpec

\* What a fetch marks done was put up, each item is taken up once and its
\* description is of what was put up, whatever fails, is tried again or runs
\* beside it (downloader.py, fetch.py).
THEOREM IngestSafeCorrect == CatalogueSpec => []IngestSafe
<1>1. CatalogueInv => IngestSafe
  BY IngestInvSafe DEF CatalogueInv
<1>. QED  BY CatalogueInvAlways, <1>1, PTL

\* An item whose owner a tool had to change comes back to its owner unless the
\* tool was stopped or refused, and what another source wrote in an item is not
\* overwritten by a poorer one (enrichmeta.py, enrichtv.py).
THEOREM ToolsSafeCorrect == CatalogueSpec => []ToolsSafe
<1>1. CatalogueInv => ToolsSafe
  BY ToolsInvSafe DEF CatalogueInv
<1>. QED  BY CatalogueInvAlways, <1>1, PTL

\* The mirror keeps what an administrator hid hidden, and agrees with MediaCMS
\* once a whole sync has ended with nothing done beside it (catalog/sync.py).
THEOREM MirrorSafeCorrect == CatalogueSpec => []MirrorSafe
<1>1. CatalogueInv => MirrorSafe
  BY SyncInvSafe DEF CatalogueInv
<1>. QED  BY CatalogueInvAlways, <1>1, PTL

\* A title is counted and turned over once for each play seen past its half,
\* never for another, and for each of them unless the recorder was cut short
\* (queue/completion.py).
THEOREM PlaysCountedCorrect == CatalogueSpec => []PlaysCounted
<1>1. CatalogueInv => PlaysCounted
  BY CompInvSafe DEF CatalogueInv
<1>. QED  BY CatalogueInvAlways, <1>1, PTL

\* An address stands in a row of its own film and a film once among the played,
\* through failed writes, crashes and later runs, unless an editor wrote under
\* a job's hands (fetchurls.py, playedmovies.py).
THEOREM WorkbookSafeCorrect == CatalogueSpec => []WorkbookSafe
<1>1. CatalogueInv => WorkbookSafe
  BY BookInvSafe DEF CatalogueInv
<1>. QED  BY CatalogueInvAlways, <1>1, PTL

\* The episodes of a series are given one show in a run or all of them none,
\* whatever fails between, an episode is told of by its own season, and both
\* sources tell of one series where its number was to be had (enrichtv.py).
THEOREM SeriesKeptCorrect == CatalogueSpec => [](OneSeries /\ RightEpisode)
<1>1. CatalogueInv => OneSeries /\ RightEpisode
  BY LookInvSafe DEF CatalogueInv
<1>. QED  BY CatalogueInvAlways, <1>1, PTL

\* The timeline an admin is shown is what each instant gets, for any tables of
\* schedules that validate lets in (motd/schedule.py).
THEOREM TimelineAgreesCorrect == CatalogueSpec => []TimelineAgrees
<1>1. CatalogueInv => TimelineAgrees
  BY RulesInvSafe DEF CatalogueInv
<1>. QED  BY CatalogueInvAlways, <1>1, PTL

\* What is told of a film is told of one film that is like the one asked for,
\* whichever call fails (enrichmeta.py, catalog/enrichment.py).
THEOREM FilmsFitCorrect == CatalogueSpec => [](FilmFits /\ OneFilm)
<1>1. CatalogueInv => FilmFits /\ OneFilm
  BY LookInvSafe DEF CatalogueInv
<1>. QED  BY CatalogueInvAlways, <1>1, PTL

\* A download tries nothing over its cap before what is within it, and the
\* better first; a video's tags, a saved result set and an imported list of
\* links keep all they were given, in order (downloader.py, ordering.py,
\* importer.py).
THEOREM ListsKeptCorrect == CatalogueSpec => [](CapFirst /\ TagsAccounted /\ WatchOrder /\ SameMedia)
<1>1. CatalogueInv => CapFirst /\ TagsAccounted /\ WatchOrder /\ SameMedia
  BY RulesInvSafe DEF CatalogueInv
<1>. QED  BY CatalogueInvAlways, <1>1, PTL

\* All at once, with the timeline and types: whose metadata is taken of a film
\* and an episode, which file, tags, order and media come of a list, and what
\* a timeline shows, is what it should be whatever is asked.
THEOREM RulesHoldCorrect == CatalogueSpec => []RulesHold
<1>1. CatalogueInv => RulesHold
  BY LookInvSafe, RulesInvSafe DEF CatalogueInv, RulesHold
<1>. QED  BY CatalogueInvAlways, <1>1, PTL

\* In no step does a whole sync prune what MediaCMS still lists, a shrunken
\* listing take away more than a quarter of the mirror, an item's metadata get
\* poorer but by the tool that holds it, or an undisturbed job import another
\* list than the sheet's.
THEOREM StepsRightCorrect == CatalogueSpec => StepsRight
<1>1. CatalogueInv /\ [CatalogueNext]_catalogueVars => [PrunedRightly /\ ShrinkBounded /\ NeverPoorer /\ ListFollows]_catalogueVars
  BY CatalogueStep
<1>. QED  BY CatalogueInvAlways, <1>1, PTL DEF CatalogueSpec, StepsRight
=============================================================================
