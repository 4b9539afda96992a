----------------------------- MODULE MCCatalogue -----------------------------
(***************************************************************************)
(* What fills and keeps the catalogue, checked side by side: the completion*)
(* recorder, the downloader, the mirror of MediaCMS, the tools that write  *)
(* to it, the workbook job, the look-ups, and the rules without a state.   *)
(* They share nothing here: a behaviour is one of theirs, chosen at the    *)
(* start, the others stand still.                                          *)
(***************************************************************************)
EXTENDS Completion, Downloader, CatalogSync, CmsTools, Workbook, Lookups, Rules, TLC

CONSTANTS r1, r2,
  Modes         \* which of them

VARIABLE mode

catalogueVars == <<mode, completionVars, ingestVars, catalogVars, toolVars, workbookVars, lookupVars, ruleVars>>

TitleLength == "a" :> 3 @@ "b" :> 0
OneTitle == [u \in Urls |-> "t"]
OneOrTwo == {<<"u">>, <<"u", "w">>}
OneLine == {<<"u">>}
Pair == {<<"t", "u">>}
FilmRow(f, c) == [asks |-> f, cell |-> c]
GapFirst == {<<Blank, FilmRow("a", "none"), FilmRow("b", "none")>>, <<FilmRow("a", "none"), Blank, FilmRow("a", "none")>>}
Spellings == [norm : {"x", "y", "z"}, text : {1, 2}]
OneOf(i) == {s \in Schedules({i}, {"m"}, {0, 1}, {2, 4, Never}, {0, 2, 3}, {1, 2, 4}, {0, 1}) : Sane(s)}
PairsOf == {{s, q} : s \in OneOf(1), q \in OneOf(2)}

\* An idle component has one initial state.
Quiet(m) ==
  /\ (m # "sync" => library = CHOOSE l \in FirstLists : TRUE)
  /\ (m # "workbook" => sheet = CHOOSE s \in FirstSheets : TRUE)

CatalogueInit ==
  /\ mode \in Modes
  /\ CompletionInit /\ DownloaderInit /\ CatalogInit /\ ToolsInit /\ WorkbookInit /\ LookupsInit /\ RulesInit
  /\ Quiet(mode)

\* A step of one of them.
InCompletion(A) == mode = "completion" /\ A /\ UNCHANGED <<mode, ingestVars, catalogVars, toolVars, workbookVars, lookupVars, ruleVars>>
InDownloader(A) == mode = "downloader" /\ A /\ UNCHANGED <<mode, completionVars, catalogVars, toolVars, workbookVars, lookupVars, ruleVars>>
InSync(A) == mode = "sync" /\ A /\ UNCHANGED <<mode, completionVars, ingestVars, toolVars, workbookVars, lookupVars, ruleVars>>
InTools(A) == mode = "tools" /\ A /\ UNCHANGED <<mode, completionVars, ingestVars, catalogVars, workbookVars, lookupVars, ruleVars>>
InWorkbook(A) == mode = "workbook" /\ A /\ UNCHANGED <<mode, completionVars, ingestVars, catalogVars, toolVars, lookupVars, ruleVars>>
InLookups(A) == mode = "lookups" /\ A /\ UNCHANGED <<mode, completionVars, ingestVars, catalogVars, toolVars, workbookVars, ruleVars>>
InRules(A) == mode = "rules" /\ A /\ UNCHANGED <<mode, completionVars, ingestVars, catalogVars, toolVars, workbookVars, lookupVars>>

CatalogueNext ==
  \/ InCompletion(CompletionNext) \/ InDownloader(DownloaderNext) \/ InSync(CatalogNext)
  \/ InTools(ToolsNext) \/ InWorkbook(WorkbookNext) \/ InLookups(LookupsNext) \/ InRules(RulesNext)

CatalogueSpec == CatalogueInit /\ [][CatalogueNext]_catalogueVars
Symmetry == Permutations(Runs)
-----------------------------------------------------------------------------
\* The rules that hold no state: whose metadata is taken, which file, tags,
\* order and media come of it, what a timeline shows.
RulesHold ==
  /\ LookupsType /\ FilmFits /\ OneFilm /\ OneSeries /\ RightEpisode
  /\ RulesType /\ CapFirst /\ TagsAccounted /\ WatchOrder /\ SameMedia /\ TimelineAgrees

\* A title is read as what it means, by all who read it.
TitlesRead == EpisodeRead /\ FilmRead

\* What a sync, a tool and a workbook job may never do in a step.
StepsRight == [][PrunedRightly /\ ShrinkBounded /\ NeverPoorer /\ ListFollows]_catalogueVars
=============================================================================
