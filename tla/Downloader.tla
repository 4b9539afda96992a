----------------------------- MODULE Downloader -----------------------------
(***************************************************************************)
(* integrations/ytpipe/downloader.py: a run takes one URL, a list of them, *)
(* or the items of one source, and for each looks it up in MediaCMS, makes *)
(* a poor entry richer, or downloads, checks, uploads and cleans up.  Runs *)
(* are threads of the fetch job and of the fetch queue (or a command line) *)
(* that share one directory, where a video's file is named after the video.*)
(* MediaCMS is external: its search lags behind, and it deletes in its own *)
(* time what it cannot read.                                               *)
(***************************************************************************)
EXTENDS Integers, Sequences, SequencesExt, FiniteSets

CONSTANTS
  Urls, Runs,
  TitleOf,      \* of each, as cleaned
  Plans,        \* what a run may be asked for: sequences of URLs
  Batches,      \* what a file may list, the same
  MaxTries,     \* bound: formats times configurations
  MaxItems,     \* bound: items ever made
  MaxRuns       \* bound: runs

ASSUME DownloaderAssumption ==
  DOMAIN TitleOf = Urls /\ Plans \cup Batches \subseteq Seq(Urls) \ {<<>>} /\ MaxTries \in Nat /\ MaxItems \in Nat /\ MaxRuns \in Nat

VARIABLES
  items,        \* MediaCMS: [id, url, readable, found, marked]
  file,         \* of each video in the directory: none, part, good, bad
  fetch,        \* each run
  count,        \* runs begun, items made
  blind,        \* URLs a look-up may have missed
  unproved,     \* URLs uploaded without ffprobe's word
  litter        \* URLs whose file a crash left behind

ingestVars == <<items, file, fetch, count, blind, unproved, litter>>

NoFetch == [pc |-> "idle", kind |-> "single", todo |-> <<>>, item |-> 0, tries |-> 0, tokens |-> {}]

DownloaderType ==
  /\ \A i, j \in items : i.id = j.id => i = j
  /\ \A i \in items : i.id \in 1 .. MaxItems /\ i.url \in Urls
  /\ file \in [Urls -> {"none", "part", "good", "bad"}]
  /\ \A r \in Runs : fetch[r].pc \in {"idle", "check", "attempt", "validate", "upload", "recover", "clean",
                                     "details", "put", "next", "sweep"}
       /\ (fetch[r].pc \notin {"idle", "sweep"} => fetch[r].todo # <<>>)

DownloaderInit ==
  /\ items = {} /\ file = [u \in Urls |-> "none"] /\ fetch = [r \in Runs |-> NoFetch]
  /\ count = [runs |-> 0, made |-> 0] /\ blind = {} /\ unproved = {} /\ litter = {}

Url(r) == Head(fetch[r].todo)
FetchGoto(r, pc) == fetch' = [fetch EXCEPT ![r].pc = pc]
RunAt(r, pc) == fetch[r].pc = pc
ItemsOf(u) == {i \in items : i.url = u}
\* Whose hands a video is in.
UrlBusy(u) == {r \in Runs : fetch[r].todo # <<>> /\ Url(r) = u /\ fetch[r].pc \in {"attempt", "validate", "upload", "recover", "clean"}}
-----------------------------------------------------------------------------
\* run, process_playlist, process_batch_file: one video, or several in turn.
StartRun(r) ==
  /\ RunAt(r, "idle") /\ count.runs < MaxRuns /\ count' = [count EXCEPT !.runs = @ + 1]
  /\ \E p \in Plans : fetch' = [fetch EXCEPT ![r] =
       [NoFetch EXCEPT !.pc = "check", !.kind = IF Len(p) = 1 THEN "single" ELSE "list", !.todo = p]]
  /\ UNCHANGED <<items, file, blind, unproved, litter>>

\* process_batch_file: the same for the lines of a file, be it one line.
StartBatch(r) ==
  /\ RunAt(r, "idle") /\ count.runs < MaxRuns /\ count' = [count EXCEPT !.runs = @ + 1]
  /\ \E p \in Batches : fetch' = [fetch EXCEPT ![r] = [NoFetch EXCEPT !.pc = "check", !.kind = "batch", !.todo = p]]
  /\ UNCHANGED <<items, file, blind, unproved, litter>>

\* find_media_by_source pages through the library for those whose description
\* names the source; enrich_media_by_source takes the poor ones of them.
FromSource == {i \in items : i.marked}
StartSource(r) ==
  /\ RunAt(r, "idle") /\ count.runs < MaxRuns /\ count' = [count EXCEPT !.runs = @ + 1]
  /\ \E i \in FromSource : fetch' = [fetch EXCEPT ![r] =
       [NoFetch EXCEPT !.pc = "details", !.kind = "source", !.todo = <<i.url>>, !.item = i.id]]
  /\ UNCHANGED <<items, file, blind, unproved, litter>>

\* check_media_already_imported: what the search knows and whose description
\* names the URL; a search that fails finds nothing.
KnownUrl(u) == {i \in ItemsOf(u) : i.found /\ i.marked}
\* _search_mediacms_by_title
Titled(u) == {i \in items : i.found /\ TitleOf[i.url] = TitleOf[u]}
CheckFound(r) ==
  /\ RunAt(r, "check")
  /\ \E i \in KnownUrl(Url(r)) : fetch' = [fetch EXCEPT ![r].pc = "details", ![r].item = i.id]
  /\ UNCHANGED <<items, file, count, blind, unproved, litter>>

CheckNone(r) ==
  /\ RunAt(r, "check") /\ fetch' = [fetch EXCEPT ![r].pc = "attempt", ![r].tries = 0]
  /\ blind' = IF ItemsOf(Url(r)) # {} \/ UrlBusy(Url(r)) # {} THEN blind \cup {Url(r)} ELSE blind
  /\ UNCHANGED <<items, file, count, unproved, litter>>
-----------------------------------------------------------------------------
\* Mutant: what failed to merge is left where it is.
Dropped_Nothing(u) == file[u]

\* _cleanup_temp_fragments: whatever is not a final file.
Dropped(u) == IF file[u] = "part" THEN "none" ELSE file[u]

\* One format with one configuration: a part grows; somebody else may be at
\* the same file.
Attempt(r) ==
  LET u == Url(r) IN
  /\ RunAt(r, "attempt") /\ fetch[r].tries < MaxTries
  /\ file' = [file EXCEPT ![u] = IF @ = "none" THEN "part" ELSE @]
  /\ fetch' = [fetch EXCEPT ![r].tries = @ + 1, ![r].item = 1]
  /\ UNCHANGED <<items, count, blind, unproved, litter>>

\* A final file by the video's name is taken, new or not.
AttemptDone(r) ==
  LET u == Url(r) IN
  /\ RunAt(r, "attempt") /\ fetch[r].item = 1 /\ file[u] # "none"
  /\ \E f \in {"good", "bad"} : file' = [file EXCEPT ![u] = IF @ = "part" THEN f ELSE @]
  /\ fetch' = [fetch EXCEPT ![r].pc = "validate", ![r].item = 0]
  /\ UNCHANGED <<items, count, blind, unproved, litter>>

AttemptFails(r) ==
  LET u == Url(r) IN
  /\ RunAt(r, "attempt") /\ fetch[r].item = 1
  /\ file' = [file EXCEPT ![u] = Dropped(u)] /\ fetch' = [fetch EXCEPT ![r].item = 0]
  /\ UNCHANGED <<items, count, blind, unproved, litter>>

\* All of them failed, or the site would not say what it has.
GiveUp(r) ==
  /\ RunAt(r, "attempt") /\ fetch[r].item = 0 /\ fetch[r].tries \in {0, MaxTries} /\ FetchGoto(r, "next")
  /\ UNCHANGED <<items, file, count, blind, unproved, litter>>
-----------------------------------------------------------------------------
\* Mutant: a file that is there is good enough.
Validate_Exists(r) ==
  /\ RunAt(r, "validate") /\ FetchGoto(r, IF file[Url(r)] # "none" THEN "upload" ELSE "clean")
  /\ UNCHANGED <<items, file, count, blind, unproved, litter>>

\* _validate_downloaded_video
Validate(r) ==
  LET u == Url(r) IN
  /\ RunAt(r, "validate")
  /\ \/ FetchGoto(r, IF file[u] = "good" THEN "upload" ELSE "clean") /\ unproved' = unproved
     \/ file[u] = "bad" /\ FetchGoto(r, "upload") /\ unproved' = unproved \cup {u}   \* no ffprobe
  /\ UNCHANGED <<items, file, count, blind, litter>>

Send(r) == RunAt(r, "upload") /\ file[Url(r)] \in {"good", "bad"} /\ count.made < MaxItems
Made(r) == [id |-> count.made + 1, url |-> Url(r), readable |-> file[Url(r)] = "good", found |-> FALSE, marked |-> TRUE]
Posted(made) == items' = items \cup made /\ count' = [count EXCEPT !.made = @ + 1]
Named(r) == {[id |-> fetch[r].item, url |-> Url(r)]}
Token(r, id) == fetch' = [fetch EXCEPT ![r].pc = "clean", ![r].tokens = @ \cup {[id |-> id, url |-> Url(r)]}]

Uploaded(r) ==
  /\ Send(r) /\ Token(r, Made(r).id) /\ Posted({Made(r)})
  /\ UNCHANGED <<file, blind, unproved, litter>>

\* The file is gone, or MediaCMS refuses.
Refused(r) ==
  /\ RunAt(r, "upload") /\ FetchGoto(r, "clean")
  /\ UNCHANGED <<items, file, count, blind, unproved, litter>>

\* Mutant: the upload is sent again.
AnswerLost_Again(r) ==
  /\ Send(r) /\ \E made \in {{}, {Made(r)}} : Posted(made)
  /\ UNCHANGED <<fetch, file, blind, unproved, litter>>

\* The connection breaks, with the item made or not.
AnswerLost(r) ==
  /\ Send(r) /\ FetchGoto(r, "recover") /\ \E made \in {{}, {Made(r)}} : Posted(made)
  /\ UNCHANGED <<file, blind, unproved, litter>>

\* It is looked for by its URL, or else by its title, and never sent again; not
\* found is an error to retry later.
Recover(r) ==
  /\ RunAt(r, "recover")
  /\ \/ \E i \in KnownUrl(Url(r)) \cup Titled(Url(r)) : Token(r, i.id)
     \/ FetchGoto(r, "clean")
  /\ UNCHANGED <<items, file, count, blind, unproved, litter>>

\* finally: the file and its fragments go, whatever happened.
Clean(r) ==
  /\ RunAt(r, "clean") /\ FetchGoto(r, "next") /\ file' = [file EXCEPT ![Url(r)] = "none"]
  /\ UNCHANGED <<items, count, blind, unproved, litter>>
-----------------------------------------------------------------------------
\* enrich_existing_media: the entry is read, the site asked; either may fail,
\* or nothing be better, and the item is left as it is; better is a section
\* more, a fifth more text, a cleaner title, or a tag.
Details(r) ==
  /\ RunAt(r, "details")
  /\ \/ (\E i \in items : i.id = fetch[r].item) /\ FetchGoto(r, "put")
     \/ fetch' = [fetch EXCEPT ![r].pc = "next", ![r].tokens = IF fetch[r].kind \in {"single", "batch"} THEN @ \cup Named(r) ELSE @]
  /\ UNCHANGED <<items, file, count, blind, unproved, litter>>

\* update_media_metadata with a description made anew, add_tags_to_media;
\* either may fail.
PutDetails(r) ==
  LET mine == {j \in items : j.id = fetch[r].item} IN
  /\ RunAt(r, "put") /\ fetch' = [fetch EXCEPT ![r].pc = "next", ![r].tokens = @ \cup Named(r)]
  /\ items' \in {items, (items \ mine) \cup {[i EXCEPT !.marked = TRUE] : i \in mine}}
  /\ UNCHANGED <<file, count, blind, unproved, litter>>

\* The next of a list; after the last the whole directory is emptied.
NextVideo(r) ==
  /\ RunAt(r, "next")
  /\ LET f == fetch[r] IN
     fetch' = [fetch EXCEPT ![r] = IF Len(f.todo) > 1 THEN [f EXCEPT !.pc = "check", !.todo = Tail(f.todo), !.item = 0]
                                   ELSE [f EXCEPT !.pc = IF f.kind \in {"list", "batch"} THEN "sweep" ELSE "idle", !.todo = <<>>]]
  /\ UNCHANGED <<items, file, count, blind, unproved, litter>>

Sweep(r) ==
  /\ RunAt(r, "sweep") /\ FetchGoto(r, "idle") /\ file' = [u \in Urls |-> "none"] /\ litter' = {}
  /\ UNCHANGED <<items, count, blind, unproved>>
-----------------------------------------------------------------------------
Indexed == \E i \in items :
  /\ ~i.found /\ items' = (items \ {i}) \cup {[i EXCEPT !.found = TRUE]}
  /\ UNCHANGED <<file, fetch, count, blind, unproved, litter>>

Reaped == \E i \in items :
  /\ ~i.readable /\ items' = items \ {i} /\ UNCHANGED <<file, fetch, count, blind, unproved, litter>>

\* The service dies: files stay, runs are gone.
DownloaderCrash ==
  /\ fetch' = [r \in Runs |-> NoFetch] /\ litter' = litter \cup {u \in Urls : file[u] # "none"}
  /\ UNCHANGED <<items, file, count, blind, unproved>>

Video(r) ==
  \/ StartRun(r) \/ StartBatch(r) \/ StartSource(r) \/ CheckFound(r) \/ CheckNone(r) \/ Attempt(r) \/ AttemptDone(r) \/ AttemptFails(r)
  \/ GiveUp(r) \/ Validate(r) \/ Uploaded(r) \/ Refused(r) \/ AnswerLost(r) \/ Recover(r) \/ Clean(r)
  \/ Details(r) \/ PutDetails(r) \/ NextVideo(r) \/ Sweep(r)
DownloaderNext == (\E r \in Runs : Video(r)) \/ Indexed \/ Reaped \/ DownloaderCrash
-----------------------------------------------------------------------------
\* A video is in MediaCMS once, through lost answers, retries, crashes and
\* lists that name it again, unless a look-up fell between an item being made
\* and being found, failed, or ran beside another run on the same video.
OnePerUrl == \A i, j \in items : i.url = j.url /\ i.url \notin blind => i = j

\* What a run reports as uploaded is in MediaCMS, under the URL it was asked
\* for or at least its title, and stays there, unless ffprobe could not be
\* asked, or another run was at the same file between the check and the upload.
TokensStand ==
  \A r \in Runs : \A t \in fetch[r].tokens :
    {u \in Urls : TitleOf[u] = TitleOf[t.url]} \cap (unproved \cup blind) = {}
      => \E i \in items : i.id = t.id /\ TitleOf[i.url] = TitleOf[t.url] /\ i.readable

\* When no run is at it the directory is empty, but for what a crash left.
Tidy == (\A r \in Runs : fetch[r].pc = "idle") => \A u \in Urls : file[u] # "none" => u \in litter

\* A video asked for is there, once, and nothing is left lying about.
IngestSafe == DownloaderType /\ OnePerUrl /\ TokensStand /\ Tidy
=============================================================================
