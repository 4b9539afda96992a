------------------------------ MODULE Workbook ------------------------------
(***************************************************************************)
(* The fetchurls job reads a weekend's sheet of a shared workbook once and *)
(* works from that copy for hours: each row's video is checked or fetched, *)
(* its address written into the row's cell of the live sheet, the titles   *)
(* are added to the sheet of played movies, and what was resolved becomes  *)
(* a saved playlist.  Editors are in the workbook all the while.           *)
(***************************************************************************)
EXTENDS Integers, Sequences, SequencesExt, FiniteSets

CONSTANTS
  Films,        \* what a row asks for, found under its name
  FirstSheets,  \* the sheet at first: rows of [asks, cell], no cell of another film's
  MaxJobs, MaxEdits       \* bounds: jobs; edits and failures

ASSUME WorkbookAssumption ==
  /\ "none" \notin Films /\ MaxJobs \in Nat /\ MaxEdits \in Nat
  /\ FirstSheets \subseteq Seq([asks : Films \cup {"none"}, cell : Films \cup {"none"}])
  /\ \A s \in FirstSheets : \A n \in DOMAIN s : s[n].cell \in {"none", s[n].asks}

VARIABLES
  sheet,        \* rows: columns E and F
  moviesPlayed, \* the sheet of played movies, a title a row
  entered,      \* titles editors put there
  playable,     \* videos whose address answers
  section,      \* the section's saved playlist
  job,          \* the job that runs
  jobs, changes,
  spoilt        \* "cells", "played": what editors did under a job's hands

workbookVars == <<sheet, moviesPlayed, entered, playable, section, job, jobs, changes, spoilt>>

Blank == [asks |-> "none", cell |-> "none"]
NoJob == [pc |-> "idle", rows |-> {}, lines |-> <<>>, titles |-> {}, at |-> 0, quiet |-> TRUE]
JobOn == job.pc # "idle"

WorkbookType ==
  /\ sheet \in Seq([asks : Films \cup {"none"}, cell : Films \cup {"none"}])
  /\ moviesPlayed \in Seq(Films \cup {"none"}) /\ section \in Seq(Films) /\ playable \subseteq Films
  /\ job.pc \in {"idle", "row", "cell", "movies", "import"} /\ job.lines \in Seq(Films)
  /\ (job.pc \in {"row", "cell"} => job.rows # {}) /\ jobs \in 0 .. MaxJobs /\ changes \in 0 .. MaxEdits

WorkbookInit ==
  /\ sheet \in FirstSheets /\ moviesPlayed = <<>> /\ entered = {} /\ playable = {} /\ section = <<>>
  /\ job = NoJob /\ jobs = 0 /\ changes = 0 /\ spoilt = {}

Change == changes < MaxEdits /\ changes' = changes + 1
MissedOne == job.quiet /\ Change
-----------------------------------------------------------------------------
\* The rows that ask for something, and the place of one among them.
Asking == {n \in DOMAIN sheet : sheet[n].asks # "none"}
Place(n) == Cardinality({k \in Asking : k <= n})
\* Mutant: rows are counted among those that ask for something.
Parsed_Counted == {[n |-> Place(n), asks |-> sheet[n].asks, cell |-> sheet[n].cell] : n \in Asking}
\* parse_excel_sections: the rows that ask for something, with their numbers;
\* a job takes them from the top.
Parsed == {[n |-> n, asks |-> sheet[n].asks, cell |-> sheet[n].cell] : n \in Asking}
Top(rows) == CHOOSE r \in rows : \A q \in rows : r.n <= q.n

\* extract_movies, read_played_movie_titles: this sheet's films that are not
\* among the played.
NewTitles == {r \in Parsed : r.asks \notin ToSet(moviesPlayed)}
\* Mutant: the last row is taken for the first free one.
LastPlayed_Full == IF moviesPlayed = <<>> THEN 0 ELSE Len(moviesPlayed) - 1
\* last_played_row, in a sheet that ends with a title.
LastPlayed == Len(moviesPlayed)

\* run: the workbook is downloaded, once, and the sheet looked up and parsed.
StartJob ==
  /\ ~JobOn /\ jobs < MaxJobs /\ jobs' = jobs + 1 /\ Parsed # {}
  /\ job' = [NoJob EXCEPT !.pc = "row", !.rows = Parsed, !.titles = NewTitles, !.at = LastPlayed + 1]
  /\ spoilt' = IF \A r, q \in NewTitles : r.asks = q.asks => r = q THEN spoilt ELSE spoilt \cup {"played"}
  /\ UNCHANGED <<sheet, moviesPlayed, entered, playable, section, changes>>

RowOfJob == Top(job.rows)
NextRow(j) == [j EXCEPT !.rows = @ \ {RowOfJob}, !.pc = IF j.rows = {RowOfJob} THEN "movies" ELSE "row"]

\* Mutant: what need not be fetched is not listed.
Revalidate_Unlisted ==
  /\ job.pc = "row" /\ RowOfJob.cell \in playable /\ job' = NextRow(job)
  /\ UNCHANGED <<sheet, moviesPlayed, entered, playable, section, jobs, changes, spoilt>>
\* process_section: an address that still answers is kept, whatever column E
\* says by now.
Revalidate ==
  /\ job.pc = "row" /\ RowOfJob.cell \in playable /\ job' = NextRow([job EXCEPT !.lines = Append(@, RowOfJob.cell)])
  /\ UNCHANGED <<sheet, moviesPlayed, entered, playable, section, jobs, changes, spoilt>>

\* process_url: validated, or fetched and uploaded.
ResolveRow ==
  /\ job.pc = "row"
  /\ \/ RowOfJob.cell \notin playable /\ UNCHANGED changes
     \/ RowOfJob.cell \in playable /\ MissedOne
  /\ playable' = playable \cup {RowOfJob.asks}
  /\ job' = [job EXCEPT !.pc = "cell", !.lines = Append(@, RowOfJob.asks), !.quiet = @ /\ RowOfJob.cell \notin playable]
  /\ UNCHANGED <<sheet, moviesPlayed, entered, section, jobs, spoilt>>
ResolveFails ==
  /\ job.pc = "row" /\ MissedOne /\ job' = NextRow([job EXCEPT !.quiet = FALSE])
  /\ UNCHANGED <<sheet, moviesPlayed, entered, playable, section, jobs, spoilt>>

\* _write_cell_f: by row number, with retries; it may fail, or be accepted on a
\* session that is gone and never kept.
WriteCell ==
  /\ job.pc = "cell"
  /\ \/ /\ sheet' = [sheet EXCEPT ![RowOfJob.n].cell = RowOfJob.asks]
        /\ job' = NextRow(job) /\ UNCHANGED changes
     \/ MissedOne /\ UNCHANGED sheet /\ job' = NextRow([job EXCEPT !.quiet = FALSE])
  /\ UNCHANGED <<moviesPlayed, entered, playable, section, jobs, spoilt>>

\* _write_rows: one title a row, on from the last; one that fails leaves a gap.
PutAt(seq, n, x) == [k \in 1 .. (IF n > Len(seq) THEN n ELSE Len(seq)) |->
                       IF k = n THEN x ELSE IF k <= Len(seq) THEN seq[k] ELSE "none"]
WritePlayed ==
  /\ job.pc = "movies" /\ job.titles # {}
  /\ \/ moviesPlayed' = PutAt(moviesPlayed, job.at, Top(job.titles).asks) /\ UNCHANGED changes
        /\ job' = [job EXCEPT !.titles = @ \ {Top(@)}, !.at = @ + 1]
     \/ MissedOne /\ UNCHANGED moviesPlayed /\ job' = [job EXCEPT !.titles = @ \ {Top(@)}, !.at = @ + 1, !.quiet = FALSE]
  /\ UNCHANGED <<sheet, entered, playable, section, jobs, spoilt>>
PlayedDone ==
  /\ job.pc = "movies" /\ job.titles = {} /\ job' = [job EXCEPT !.pc = "import"]
  /\ UNCHANGED <<sheet, moviesPlayed, entered, playable, section, jobs, changes, spoilt>>

\* _import_section_as_playlist: nothing resolved leaves the playlist as it was.
Import ==
  /\ job.pc = "import" /\ job' = NoJob /\ section' = IF job.lines = <<>> THEN section ELSE job.lines
  /\ UNCHANGED <<sheet, moviesPlayed, entered, playable, jobs, changes, spoilt>>

\* The service stops in the middle.
JobDies ==
  /\ JobOn /\ Change /\ job' = NoJob
  /\ UNCHANGED <<sheet, moviesPlayed, entered, playable, section, jobs, spoilt>>
-----------------------------------------------------------------------------
\* Editors: a row more, another film in a row, a title among the played; and a
\* video that MediaCMS no longer has.
Disturb(what, when) ==
  /\ spoilt' = IF when THEN spoilt \cup {what} ELSE spoilt
  /\ job' = [job EXCEPT !.quiet = @ /\ ~JobOn] /\ UNCHANGED jobs
InsertRow(n, f) ==
  /\ Change /\ sheet' = InsertAt(sheet, n, [asks |-> f, cell |-> "none"]) /\ Disturb("cells", JobOn)
  /\ UNCHANGED <<moviesPlayed, entered, playable, section>>
AskOther(n, f) ==
  /\ Change /\ sheet[n].asks \notin {"none", f} /\ sheet' = [sheet EXCEPT ![n].asks = f]
  /\ Disturb("cells", JobOn \/ sheet[n].cell # "none") /\ UNCHANGED <<moviesPlayed, entered, playable, section>>
EnterPlayed(f) ==
  /\ Change /\ f \notin ToSet(moviesPlayed) /\ moviesPlayed' = Append(moviesPlayed, f)
  /\ entered' = entered \cup {f} /\ Disturb("played", JobOn) /\ UNCHANGED <<sheet, playable, section>>
Withdrawn(f) ==
  /\ Change /\ f \in playable /\ playable' = playable \ {f} /\ Disturb("none", FALSE)
  /\ UNCHANGED <<sheet, moviesPlayed, entered, section>>

JobStep == StartJob \/ Revalidate \/ ResolveRow \/ ResolveFails \/ WriteCell \/ WritePlayed \/ PlayedDone \/ Import \/ JobDies
WorkbookNext ==
  JobStep \/ \E f \in Films : EnterPlayed(f) \/ Withdrawn(f) \/ \E n \in DOMAIN sheet : InsertRow(n, f) \/ AskOther(n, f)
-----------------------------------------------------------------------------
\* The address in a row is of the film the row asks for, through failed writes,
\* crashes and runs that find it there, unless an editor moved rows or changed a
\* film under a job's hands, or changed one that had its address already (which
\* every later run keeps).
CellsTrue == "cells" \notin spoilt => \A n \in DOMAIN sheet : sheet[n].cell \in {"none", sheet[n].asks}

\* Every film is once among the played, and no title of an editor's is lost,
\* however often the job runs or fails in the middle, unless an editor wrote
\* there meanwhile or one sheet has a film twice (sync_played_movies,
\* "Idempotently").
PlayedOnce ==
  "played" \notin spoilt =>
    /\ \A m, n \in DOMAIN moviesPlayed : moviesPlayed[m] = moviesPlayed[n] /\ moviesPlayed[m] # "none" => m = n
    /\ entered \subseteq ToSet(moviesPlayed)

\* A job in which nothing failed and beside which nothing happened makes the
\* section's playlist what column F has beside its films from top to bottom.
ListFollows ==
  job.pc = "import" /\ job'.pc = "idle" /\ job.quiet /\ changes' = changes
   => /\ Len(section') = Cardinality(Asking)
      /\ \A n \in Asking : section'[Place(n)] = sheet[n].cell

\* What the sheets say is so.
WorkbookSafe == WorkbookType /\ CellsTrue /\ PlayedOnce
=============================================================================
