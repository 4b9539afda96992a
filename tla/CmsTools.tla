------------------------------ MODULE CmsTools ------------------------------
(***************************************************************************)
(* integrations/cmsutils: enrichmeta, enrichtv and enrichtitles scan the   *)
(* whole of MediaCMS, choose what to improve, look each choice up, and PUT *)
(* the result, beside each other and beside the web queue's own writers    *)
(* (set_tag, update_item, the title and meta steps).  MediaCMS makes the   *)
(* holder of the token the owner of whatever it PUTs, so each of them puts *)
(* the owner back that it read.                                            *)
(***************************************************************************)
EXTENDS Integers, Sequences, SequencesExt, FiniteSets

CONSTANTS
  Videos,
  Tools,        \* which of "meta", "tv", "titles", "writer" are about
  MaxScans, MaxUpsets      \* bounds: runs; failures and users' edits

ASSUME CmsToolsAssumption ==
  /\ Videos \subseteq Nat /\ IsFiniteSet(Videos) /\ Tools \subseteq {"meta", "tv", "titles", "writer"}
  /\ MaxScans \in Nat /\ MaxUpsets \in Nat

VARIABLES
  entries,      \* MediaCMS: [title, level, marked, owner]; level is the description's score
  tool,         \* each tool's run
  scans, upsets,
  lost,         \* videos whose owner no tool in sight will put back
  sourced       \* videos whose source mark every text in preparation knows of

toolVars == <<entries, tool, scans, upsets, lost, sourced>>

ListEntry == [title : {"raw", "clean"}, level : 0 .. 2, marked : BOOLEAN, owner : {"uploader", "bot"}]
NoTool == [pc |-> "idle", todo |-> <<>>, got |-> 0]
OnBench(k, i) == \E n \in DOMAIN tool[k].todo : tool[k].todo[n].id = i

ToolsType ==
  /\ entries \in [Videos -> ListEntry] /\ scans \in 0 .. MaxScans /\ upsets \in 0 .. MaxUpsets
  /\ \A k \in Tools : tool[k].pc \in {"idle", "look", "put", "restore"} /\ (tool[k].pc # "idle" => tool[k].todo # <<>>)
  /\ lost \subseteq Videos /\ sourced \subseteq Videos

ToolsInit ==
  /\ entries = [i \in Videos |-> [title |-> "raw", level |-> 0, marked |-> FALSE, owner |-> "uploader"]]
  /\ tool = [k \in Tools |-> NoTool] /\ scans = 0 /\ upsets = 0 /\ lost = {} /\ sourced = {}

Upset == upsets < MaxUpsets /\ upsets' = upsets + 1
Mine(k) == Head(tool[k].todo)
ToolGoto(k, pc, got) == tool' = [tool EXCEPT ![k].pc = pc, ![k].got = got]
Onward(k) == tool' = [tool EXCEPT ![k] = IF Len(tool[k].todo) = 1 THEN NoTool
                                       ELSE [pc |-> "look", todo |-> Tail(tool[k].todo), got |-> 0]]
-----------------------------------------------------------------------------
\* find_candidates: films whose description is poor; find_tv_candidates: the
\* same of episodes; clean_title: a title that needs it; a writer's one video.
MetaWants(i) == entries[i].level < 2
TvWants(i) == entries[i].level < 2
TitlesWants(i) == entries[i].title = "raw"
Wants(k, i) == CASE k = "meta" -> MetaWants(i) [] k = "tv" -> TvWants(i) [] k = "titles" -> TitlesWants(i) [] OTHER -> TRUE

\* The worst first, where it is worth doing; the rest as the list has them.
Sooner(k, i, j) ==
  IF k = "meta" /\ entries[i].level # entries[j].level THEN entries[i].level < entries[j].level ELSE i < j
InOrder(k, chosen) == {l \in SetToSeqs(chosen) : \A m, n \in DOMAIN l : m < n => Sooner(k, l[m], l[n])}

\* fetch_all_media and the choice, kept as scanned; a limit may cut it short.
Read(i) == [id |-> i, level |-> entries[i].level, marked |-> entries[i].marked, owner |-> entries[i].owner]
Scan(k) ==
  /\ tool[k].pc = "idle" /\ scans < MaxScans /\ scans' = scans + 1
  /\ \E chosen \in SUBSET {i \in Videos : Wants(k, i)} :
       /\ chosen # {} /\ (k = "writer" => Cardinality(chosen) = 1)
       /\ \E l \in InOrder(k, chosen) :
            tool' = [tool EXCEPT ![k] = [NoTool EXCEPT !.pc = "look", !.todo = [n \in DOMAIN l |-> Read(l[n])]]]
       /\ lost' = lost \cup {i \in chosen : entries[i].owner = "bot"}
  /\ UNCHANGED <<entries, upsets, sourced>>

\* Nothing found, or not asked to write.
LookMisses(k) == tool[k].pc = "look" /\ Onward(k) /\ UNCHANGED <<entries, scans, upsets, lost, sourced>>

\* Mutant: a find is good enough whatever its score.
MetaBetter_Any(k, got) == got >= 0
\* enrichmeta writes what scores more than what it scanned.
MetaBetter(k, got) == got > Mine(k).level
MetaLook(k) ==
  /\ k = "meta" /\ tool[k].pc = "look"
  /\ \E got \in 0 .. 2 : MetaBetter(k, got) /\ ToolGoto(k, "put", got)
  /\ UNCHANGED <<entries, scans, upsets, lost, sourced>>
\* enrichtv writes whatever it finds, the others what they were going to.
TvLook(k) ==
  /\ k = "tv" /\ tool[k].pc = "look" /\ \E got \in 0 .. 2 : ToolGoto(k, "put", got)
  /\ UNCHANGED <<entries, scans, upsets, lost, sourced>>
TitlesLook(k) ==
  /\ k \in {"titles", "writer"} /\ tool[k].pc = "look" /\ ToolGoto(k, "put", 2)
  /\ UNCHANGED <<entries, scans, upsets, lost, sourced>>

\* format_description, format_tv_description: a new text that takes the source's
\* mark over from the one scanned.
MetaText(k) == [entries[Mine(k).id] EXCEPT !.level = tool[k].got, !.marked = Mine(k).marked, !.owner = "bot"]
\* Mutant: the sections of the old text are left out.
TvText_Bare(k) == [entries[Mine(k).id] EXCEPT !.level = tool[k].got, !.marked = FALSE, !.title = "clean", !.owner = "bot"]
TvText(k) == [entries[Mine(k).id] EXCEPT !.level = tool[k].got, !.marked = Mine(k).marked, !.title = "clean", !.owner = "bot"]
NewTitle(k) == [entries[Mine(k).id] EXCEPT !.title = "clean", !.owner = "bot"]
\* A writer's title, tags, or the meta step's text, which has no source in it.
NewText(k) == [entries[Mine(k).id] EXCEPT !.level = tool[k].got, !.marked = FALSE, !.owner = "bot"]
Texts(k) == CASE k = "meta" -> {MetaText(k), [MetaText(k) EXCEPT !.title = "clean"]} [] k = "tv" -> {TvText(k)}
              [] k = "titles" -> {NewTitle(k)} [] OTHER -> {NewTitle(k), NewText(k)}

\* The PUT: done; refused; or done and nobody hears of it, which leaves the owner.
Put(k) ==
  /\ tool[k].pc = "put"
  /\ \/ /\ \E text \in Texts(k) :
             /\ entries' = [entries EXCEPT ![Mine(k).id] = text]
             /\ sourced' = IF k = "writer" /\ ~text.marked THEN sourced \ {Mine(k).id} ELSE sourced
        /\ \/ ToolGoto(k, "restore", 0) /\ UNCHANGED <<lost, upsets>>
           \/ Upset /\ Onward(k) /\ lost' = lost \cup {Mine(k).id}
     \/ Onward(k) /\ UNCHANGED <<entries, lost, upsets, sourced>>
  /\ UNCHANGED scans

\* Mutant: titles are written without a thought for the owner.
Restore_NotTitles(k) ==
  /\ tool[k].pc = "restore" /\ Onward(k)
  /\ entries' = IF k = "titles" THEN entries ELSE [entries EXCEPT ![Mine(k).id].owner = Mine(k).owner]
  /\ UNCHANGED <<scans, upsets, lost, sourced>>
\* _restore_owner: the owner scanned, if MediaCMS will have it.
Restore(k) ==
  /\ tool[k].pc = "restore" /\ Onward(k)
  /\ \/ entries' = [entries EXCEPT ![Mine(k).id].owner = Mine(k).owner] /\ UNCHANGED <<upsets, lost>>
     \/ Upset /\ lost' = lost \cup {Mine(k).id} /\ UNCHANGED entries
  /\ UNCHANGED <<scans, sourced>>

\* The run is interrupted or the process ends.
Interrupt(k) ==
  /\ tool[k].pc # "idle" /\ Upset /\ tool' = [tool EXCEPT ![k] = NoTool]
  /\ lost' = IF tool[k].pc = "restore" THEN lost \cup {Mine(k).id} ELSE lost
  /\ UNCHANGED <<entries, scans, sourced>>

\* Users describe a video better; the fetch job writes where it comes from.
Improve(i) ==
  /\ Upset /\ entries[i].level < 2 /\ entries' = [entries EXCEPT ![i].level = 2]
  /\ UNCHANGED <<tool, scans, lost, sourced>>
MarkSource(i) ==
  /\ Upset /\ ~entries[i].marked /\ entries' = [entries EXCEPT ![i].marked = TRUE]
  /\ sourced' = IF \E k \in Tools : OnBench(k, i) THEN sourced ELSE sourced \cup {i}
  /\ UNCHANGED <<tool, scans, lost>>

ToolStep(k) == Scan(k) \/ LookMisses(k) \/ MetaLook(k) \/ TvLook(k) \/ TitlesLook(k) \/ Put(k) \/ Restore(k) \/ Interrupt(k)
ToolsNext == (\E k \in Tools : ToolStep(k)) \/ \E i \in Videos : Improve(i) \/ MarkSource(i)
-----------------------------------------------------------------------------
\* However the tools overlap, a video is its uploader's again once nobody is
\* about to put the owner back, unless putting back failed, was cut off, or
\* somebody scanned it while the token's holder had it (_restore_owner).
OwnerComesBack ==
  \A i \in Videos \ lost : entries[i].owner = "uploader" \/ \E k \in Tools : tool[k].pc = "restore" /\ Mine(k).id = i

\* A source mark that was there before a tool read the text survives every tool;
\* only the meta step's text drops it (format_description, "Preserves any
\* existing 'Original URL:'").
SourceKept == \A i \in sourced : entries[i].marked

\* enrichmeta never leaves a description poorer than it found it, unless it was
\* improved since the scan.
NeverPoorer ==
  \A i \in Videos : entries'[i].level < entries[i].level =>
     \E k \in Tools : tool[k].pc = "put" /\ Mine(k).id = i /\ (k # "meta" \/ Mine(k).level # entries[i].level)

\* What a tool must leave as it was.
ToolsSafe == ToolsType /\ OwnerComesBack /\ SourceKept
=============================================================================
