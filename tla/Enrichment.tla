----------------------------- MODULE Enrichment -----------------------------
(***************************************************************************)
(* catalog/enrichment: one run at a time takes the catalogue through steps *)
(* (classify, identify, title, meta, art, tags).  Each step loads the rows *)
(* it has not stamped yet (all, when forced), in the order of the titles   *)
(* and up to a limit, and works on what it loaded while admins edit rows   *)
(* and the sync copies MediaCMS over them.  What a film's data, title and  *)
(* poster say is kept as the key they were looked up by.                   *)
(***************************************************************************)
EXTENDS Integers, Sequences, SequencesExt, FiniteSets

CONSTANTS
  Works,        \* rows, numbered in the order of their titles
  Tts,          \* IMDb numbers
  TtOf,         \* what the sources say of each film: a number or "none"
  KnownTts,        \* keys the providers have data for
  Limit,        \* rows a step loads at most
  MaxDone       \* bound: chosen runs, failures and admins' edits

ASSUME EnrichmentAssumption ==
  /\ Works \subseteq Nat /\ Limit \in Nat \ {0} /\ TtOf \in [Works -> Tts \cup {"none"}]
  /\ Tts \cap {"none", "poor", "thumb", "derived", "edited"} = {}
  /\ MaxDone \in Nat

VARIABLES
  cms,          \* MediaCMS: [title, words, tags]
  row,          \* the catalogue: the same, and [tt, art (override), poster]
  state,        \* item_enrichment_state: [lookup, meta, stamps]
  work,         \* the run
  did,          \* how many of those so far
  given,        \* numbers admins gave, with no identify step on the row
  unsure        \* films one of whose pushes to MediaCMS did not go well

enrichVars == <<cms, row, state, work, did, given, unsure>>

Keys == {"derived", "edited"} \cup Tts
NoWork == [pc |-> "idle", steps |-> <<>>, force |-> FALSE, dry |-> FALSE, only |-> {}, todo |-> <<>>, got |-> "none"]
Most == <<"classify", "identify", "title", "meta", "art", "tags">>

EnrichmentType ==
  /\ cms \in [Works -> [title : {"raw", "clean"}, words : {"poor"} \cup Keys, tags : BOOLEAN]]
  /\ row \in [Works -> [title : {"raw", "clean"}, words : {"poor"} \cup Keys, tags : BOOLEAN, tt : {"none"} \cup Tts,
                       art : {"none"} \cup Tts, poster : {"none", "thumb"} \cup Keys]]
  /\ state \in [Works -> [lookup : {"none", "derived", "edited"}, meta : {"none"} \cup Keys, stamps : SUBSET ToSet(Most)]]
  /\ work.pc \in {"idle", "load", "item", "save"} /\ (work.pc \in {"item", "save"} => work.todo # <<>>)
  /\ (work.pc # "idle" => work.steps # <<>>) /\ unsure \subseteq Works /\ did \in 0 .. MaxDone

EnrichmentInit ==
  /\ cms = [i \in Works |-> [title |-> "raw", words |-> "poor", tags |-> FALSE]]
  /\ row = [i \in Works |-> [title |-> "raw", words |-> "poor", tags |-> FALSE, tt |-> "none", art |-> "none", poster |-> "none"]]
  /\ state = [i \in Works |-> [lookup |-> "none", meta |-> "none", stamps |-> {}]]
  /\ work = NoWork /\ did = 0
  /\ given = [i \in Works |-> "none"] /\ unsure = {}

Step == Head(work.steps)
Film == Head(work.todo)
RowAt(step) == work.pc = "item" /\ Step = step
Saving(step) == work.pc = "save" /\ Step = step
Another == did < MaxDone /\ did' = did + 1
\* On to the next row of the step, or the next step, or the end.
NextStep == IF Len(work.steps) = 1 THEN NoWork ELSE [work EXCEPT !.pc = "load", !.steps = Tail(@), !.todo = <<>>, !.got = "none"]
NextFilm == IF Len(work.todo) = 1 THEN NextStep ELSE [work EXCEPT !.pc = "item", !.todo = Tail(@), !.got = "none"]
Stamped(i) == [state EXCEPT ![i].stamps = @ \cup {Step}]
-----------------------------------------------------------------------------
\* catalog_enrich_job: the whole catalogue as a matter of course, or what an
\* admin chooses; enrich_item and edit_item force one film's run.
StartAll == work.pc = "idle" /\ work' = [NoWork EXCEPT !.pc = "load", !.steps = Most, !.only = Works]
            /\ UNCHANGED <<cms, row, state, did, given, unsure>>
StartWith(steps, force, dry, only) ==
  /\ work.pc = "idle" /\ Another
  /\ work' = [NoWork EXCEPT !.pc = "load", !.steps = steps, !.force = force, !.dry = dry, !.only = only]
  /\ UNCHANGED <<cms, row, state, given, unsure>>
StartChosen == \E force, dry \in BOOLEAN : StartWith(Most, force, dry, Works)
StartForced == \E i \in Works : StartWith(<<"classify", "identify", "meta", "art", "tags">>, TRUE, FALSE, {i})

\* Mutant: rows are loaded whether they are stamped or not.
Needing_All == work.only
\* get_catalog_for_enrichment
Needing == {i \in work.only : work.force \/ Step \notin state[i].stamps}

\* _classify_row: what a step sees of a row, as it was when the step began; a
\* forced run derives the look-up anew.  The query leaves the art override out.
Seen(i) == LET cached == ~work.force /\ state[i].lookup # "none" IN
  [id |-> i, title |-> row[i].title, tt |-> row[i].tt, art |-> "none",
   lookup |-> IF cached THEN state[i].lookup ELSE "derived",
   scored |-> cached /\ state[i].meta # "none", real |-> row[i].poster \in Keys]

\* ORDER BY title LIMIT
Loadable ==
  {few \in UNION {[1 .. n -> Needing] : n \in 0 .. Limit} :
     /\ \A j, k \in DOMAIN few : j < k => few[j] < few[k]
     /\ \A i \in Needing : i \in ToSet(few) \/ (Len(few) = Limit /\ \A k \in DOMAIN few : few[k] < i)}

Load ==
  /\ work.pc = "load"
  /\ \E few \in Loadable :
       work' = IF few = <<>> THEN NextStep ELSE [work EXCEPT !.pc = "item", !.todo = [k \in DOMAIN few |-> Seen(few[k])]]
  /\ UNCHANGED <<cms, row, state, did, given, unsure>>

\* _run_classify
Classify ==
  /\ RowAt("classify") /\ work' = NextFilm
  /\ state' = IF work.dry THEN state ELSE [Stamped(Film.id) EXCEPT ![Film.id].lookup = Film.lookup]
  /\ UNCHANGED <<cms, row, did, given, unsure>>

\* Mutant: a number is promoted over one that is there.
Promotes_Over == ~work.dry /\ TtOf[Film.id] # "none"
\* _identify: what the sources say counts only where there is no number.
Promotes == ~work.dry /\ Film.tt = "none" /\ TtOf[Film.id] # "none"

\* Mutant: a dry run identifies too.
Identify_Dry ==
  /\ RowAt("identify")
  /\ work' = IF Promotes THEN [work EXCEPT !.pc = "save", !.got = TtOf[Film.id]] ELSE NextFilm
  /\ state' = Stamped(Film.id)
  /\ UNCHANGED <<cms, row, did, given, unsure>>
Identify ==
  /\ RowAt("identify")
  /\ work' = IF Promotes THEN [work EXCEPT !.pc = "save", !.got = TtOf[Film.id]] ELSE NextFilm
  /\ state' = IF work.dry THEN state ELSE Stamped(Film.id)
  /\ UNCHANGED <<cms, row, did, given, unsure>>

\* _promote: unless another row has the number.
Promote ==
  /\ Saving("identify") /\ work' = NextFilm
  /\ row' = IF \E j \in Works \ {Film.id} : row[j].tt = work.got THEN row ELSE [row EXCEPT ![Film.id].tt = work.got]
  /\ UNCHANGED <<cms, state, did, given, unsure>>
-----------------------------------------------------------------------------
\* A PUT: it works, or it fails, or it works and nobody hears of it.
Pushed(field, value) ==
  \/ cms' = [cms EXCEPT ![Film.id][field] = value] /\ UNCHANGED <<did, unsure>>
  \/ Another /\ unsure' = unsure \cup {Film.id} /\ cms' \in {cms, [cms EXCEPT ![Film.id][field] = value]}

\* TitleStep: a title that is clean already is stamped, in a dry run too.
TitleSame ==
  /\ RowAt("title") /\ (Film.title = "clean" \/ work.dry)
  /\ state' = Stamped(Film.id) /\ work' = NextFilm /\ UNCHANGED <<cms, row, did, given, unsure>>
TitlePush ==
  /\ RowAt("title") /\ Film.title = "raw" /\ ~work.dry /\ Pushed("title", "clean")
  /\ work' = [work EXCEPT !.pc = "save", !.got = IF did' = did THEN "pushed" ELSE "failed"]
  /\ UNCHANGED <<row, state, given>>
TitleSave ==
  /\ Saving("title") /\ work' = NextFilm /\ state' = Stamped(Film.id)
  /\ row' = IF work.got = "pushed" THEN [row EXCEPT ![Film.id].title = "clean"] ELSE row
  /\ UNCHANGED <<cms, did, given, unsure>>

\* MetaStep: nothing to do for a film well described, nothing found for one the
\* providers do not know (or do not answer about): neither is stamped.
Key == IF Film.tt # "none" THEN Film.tt ELSE Film.lookup
MetaSkip ==
  /\ RowAt("meta") /\ work' = NextFilm
  /\ \/ ((~work.force /\ Film.scored) \/ Key \notin KnownTts \/ work.dry) /\ UNCHANGED did
     \/ ~(~work.force /\ Film.scored) /\ Another
  /\ UNCHANGED <<cms, row, state, given, unsure>>

\* Mutant: stamped as soon as the data is there.
MetaPush_Stamps ==
  /\ RowAt("meta") /\ ~(~work.force /\ Film.scored) /\ Key \in KnownTts /\ ~work.dry
  /\ state' = Stamped(Film.id) /\ UNCHANGED <<cms, row, did, given, unsure>>
  /\ work' = [work EXCEPT !.pc = "save", !.got = Key]
\* _push_description, whose outcome nobody looks at.
MetaPush ==
  /\ RowAt("meta") /\ ~(~work.force /\ Film.scored) /\ Key \in KnownTts /\ ~work.dry
  /\ Pushed("words", Key) /\ work' = [work EXCEPT !.pc = "save", !.got = Key]
  /\ UNCHANGED <<row, state, given>>
MetaSave ==
  /\ Saving("meta") /\ work' = NextFilm
  /\ state' = [Stamped(Film.id) EXCEPT ![Film.id].meta = work.got]
  /\ row' = [row EXCEPT ![Film.id].words = work.got]
  /\ UNCHANGED <<cms, did, given, unsure>>

\* ArtStep: the poster the data names, or one found by the key, or else the
\* thumbnail; a film with a real poster is left alone unless forced.
Poster == IF Film.art # "none" THEN Film.art
          ELSE IF state[Film.id].meta # "none" THEN state[Film.id].meta
          ELSE IF Key \in KnownTts THEN Key ELSE "thumb"
\* Mutant: a film with a real poster is not left alone.
ArtSkips_Never == FALSE
ArtSkips == ~work.force /\ Film.real
ArtSkip == /\ RowAt("art") /\ (ArtSkips \/ work.dry) /\ work' = NextFilm
           /\ UNCHANGED <<cms, row, state, did, given, unsure>>
ArtSave ==
  /\ RowAt("art") /\ ~ArtSkips /\ ~work.dry /\ work' = NextFilm /\ state' = Stamped(Film.id)
  /\ \/ row' = [row EXCEPT ![Film.id].poster = Poster] /\ UNCHANGED did
     \/ Another /\ row' \in {row, [row EXCEPT ![Film.id].poster =
                                   IF Film.art = "none" /\ state[Film.id].meta # "none" THEN Poster ELSE "thumb"]}
  /\ UNCHANGED <<cms, given, unsure>>

\* TagsStep: from the data; here first, then in MediaCMS if it lets us.
TagsStep ==
  /\ RowAt("tags") /\ work' = NextFilm /\ state' = Stamped(Film.id)
  /\ LET tags == state[Film.id].meta # "none" /\ ~work.dry IN
       IF tags THEN row' = [row EXCEPT ![Film.id].tags = TRUE] /\ Pushed("tags", TRUE)
       ELSE UNCHANGED <<row, cms, did, unsure>>
  /\ UNCHANGED given

\* The process ends in the middle.
Dies == work.pc # "idle" /\ Another /\ work' = NoWork /\ UNCHANGED <<cms, row, state, given, unsure>>
-----------------------------------------------------------------------------
\* The sync: the row is given MediaCMS's title, text and tags, and, when it has
\* no real poster, one that its own search finds.
Synced(i) ==
  /\ row' = [row EXCEPT ![i].title = cms[i].title, ![i].words = cms[i].words, ![i].tags = cms[i].tags,
                        ![i].poster = IF @ \in Keys THEN @ ELSE IF "derived" \in KnownTts THEN "derived" ELSE "thumb"]
  /\ UNCHANGED <<cms, state, work, did, given, unsure>>

\* edit_item, set_imdb_tt: a number no other row has, an override, a look-up.
OnRow(i) == \E k \in DOMAIN work.todo : work.todo[k].id = i
AdminEdits(i) ==
  /\ Another /\ UNCHANGED <<cms, work, unsure>>
  /\ \/ \E tt \in Tts : /\ \A j \in Works : row[j].tt # tt
                        /\ row' = [row EXCEPT ![i].tt = tt] /\ UNCHANGED state
                        /\ given' = [given EXCEPT ![i] = IF OnRow(i) /\ Step = "identify" THEN "none" ELSE tt]
     \/ \E tt \in Tts : row[i].art # tt /\ row' = [row EXCEPT ![i].art = tt] /\ UNCHANGED <<state, given>>
     \/ state[i].lookup # "edited" /\ state' = [state EXCEPT ![i].lookup = "edited"] /\ UNCHANGED <<row, given>>

WorkStep == Load \/ Classify \/ Identify \/ Promote \/ TitleSame \/ TitlePush \/ TitleSave \/ MetaSkip \/ MetaPush
            \/ MetaSave \/ ArtSkip \/ ArtSave \/ TagsStep
EnrichmentNext ==
  \/ StartAll \/ StartChosen \/ StartForced \/ WorkStep \/ Dies \/ \E i \in Works : Synced(i) \/ AdminEdits(i)
-----------------------------------------------------------------------------
\* A number an admin gave stays, whatever the sources say, unless it was given
\* while an identify step had the row in hand (identify.py, "Admin-set tt# -
\* already authoritative").
AdminNumberStays == \A i \in Works : given[i] # "none" => row[i].tt = given[i]

\* A film stamped "meta" has its data in MediaCMS too, crash or not, unless a
\* push for it failed.
StampedIsThere == \A i \in Works \ unsure : "meta" \in state[i].stamps => cms[i].words # "poor"

\* A run that is not forced never puts a thumbnail in the place of a real
\* poster, but for one that the sync found while the step had the row in hand.
PosterKept ==
  \A i \in Works : row[i].poster \in Keys /\ row'[i].poster = "thumb" => work.force \/ ~Film.real

\* A dry run changes nothing of a film, here or in MediaCMS, but the stamps of
\* titles and tags.
DryRunQuiet ==
  work.dry /\ work' # work =>
     /\ UNCHANGED <<cms, row>>
     /\ \A i \in Works : state'[i].stamps \subseteq state[i].stamps \cup {"title", "tags"}

\* What no step of a run does to a film's poster or, run dry, to anything.
RunsGentle == [][PosterKept /\ DryRunQuiet]_enrichVars

\* What is known of a film, here and in MediaCMS.
EnrichmentSafe == EnrichmentType /\ AdminNumberStays /\ StampedIsThere

\* As long as runs are started, every film the providers have data for by its
\* number or its look-up is described in the end, however few rows a step may
\* load, once fewer films than that are unknown to them (the unknown are never
\* stamped and stay at the head of every run).
Findable(i) == (IF row[i].tt # "none" THEN row[i].tt ELSE state[i].lookup) \in KnownTts
Described ==
  \A i \in Works : []<>("meta" \in state[i].stamps \/ ~Findable(i) \/ Cardinality({j \in Works : ~Findable(j)}) >= Limit)
=============================================================================
