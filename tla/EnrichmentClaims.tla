-------------------------- MODULE EnrichmentClaims --------------------------
(***************************************************************************)
(* What CHANGELOG.md says of the poster an admin chooses by an IMDb number.*)
(* The query that lists the items of a step leaves that number out.        *)
(***************************************************************************)
EXTENDS Enrichment

\* "When set on an item, the `art` enrichment step resolves the poster from
\* this tt#" (CHANGELOG.md:702): once an admin has named, for a film's poster,
\* a title the providers know, the art step does not put up another.
ArtSticks ==
  [][\A i \in Works :
       /\ row[i].art \in KnownTts /\ RowAt("art") /\ Film.id = i /\ did' = did /\ work' # work
       /\ row'[i].poster # row[i].poster
       => row'[i].poster = row[i].art]_enrichVars
=============================================================================
