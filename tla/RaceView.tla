------------------------------ MODULE RaceView ------------------------------
(***************************************************************************)
(* The race page: queue/race_poller.py polls the race, keeps the last      *)
(* frame for who comes late, and sends each race's timeline once; the      *)
(* browsers keep it.  ws/handler.py shows a new spectator the last frame.  *)
(* A frame is its race, its phase and whether the timeline is in it.       *)
(***************************************************************************)
EXTENDS Integers

CONSTANTS
  Races, Spectators, NoRace

ASSUME RaceAssumption == NoRace \notin Races

VARIABLES
  race,      \* the race the game has on, and its phase
  wasOn,     \* races that have been on
  lastFrame, \* _last_frame
  sentFor,   \* _bcast_race_id
  pending,   \* what a poll is broadcasting, to whom still
  page       \* each spectator: whether registered, what the page shows, the timeline it has

raceVars == <<race, wasOn, lastFrame, sentFor, pending, page>>

Blank == [of |-> NoRace, phase |-> "none", full |-> FALSE]
Frame == [of : Races \cup {NoRace}, phase : {"none", "betting", "racing", "finished"}, full : BOOLEAN]
NoFrame == [on |-> FALSE, frame |-> Blank, left |-> {}]

RaceType ==
  /\ race \in Frame /\ lastFrame \in Frame /\ sentFor \in Races \cup {NoRace} /\ wasOn \subseteq Races
  /\ pending.frame \in Frame /\ pending.left \subseteq Spectators
  /\ page \in [Spectators -> [there : BOOLEAN, shows : Frame, knows : Races \cup {NoRace}]]

RaceInit ==
  /\ race = Blank /\ wasOn = {} /\ lastFrame = Blank /\ sentFor = NoRace /\ pending = NoFrame
  /\ page = [p \in Spectators |-> [there |-> FALSE, shows |-> Blank, knows |-> NoRace]]

\* What a page does with a frame: it keeps the timeline of a full one.
Shown(pg, f) == [pg EXCEPT !.shows = f, !.knows = IF f.full THEN f.of ELSE @]

\* The game goes on; a race may be cut short.
Game ==
  /\ \/ \E r \in Races \ wasOn : race' = [of |-> r, phase |-> "betting", full |-> FALSE] /\ wasOn' = wasOn \cup {r}
     \/ /\ race.phase = "betting" /\ race' = [race EXCEPT !.phase = "racing", !.full = TRUE] /\ wasOn' = wasOn
     \/ /\ race.phase = "racing" /\ race' = [race EXCEPT !.phase = "finished", !.full = FALSE] /\ wasOn' = wasOn
     \/ race' = Blank /\ wasOn' = wasOn
  /\ UNCHANGED <<lastFrame, sentFor, pending, page>>

\* Mutant: a race's timeline counts as sent once any race's was.
Light_AnyRace(f) == f.full /\ sentFor # NoRace

\* _strip_repeat_timeline: the body goes when this race's was sent.
Light(f) == f.full /\ f.of = sentFor
Marked(f) == IF f.full THEN f.of ELSE IF f.phase = "finished" THEN NoRace ELSE sentFor

\* _poll_once while a race is on.
Poll ==
  /\ ~pending.on /\ race # Blank
  /\ lastFrame' = race /\ sentFor' = Marked(race)
  /\ pending' = [on |-> TRUE, frame |-> [race EXCEPT !.full = race.full /\ ~Light(race)],
                 left |-> {p \in Spectators : page[p].there}]
  /\ UNCHANGED <<race, wasOn, page>>

\* Mutant: the last frame stays for late spectators.
Clear_KeepsLast ==
  /\ ~pending.on /\ race = Blank /\ lastFrame # Blank /\ lastFrame' = lastFrame /\ sentFor' = NoRace
  /\ pending' = [on |-> TRUE, frame |-> Blank, left |-> {p \in Spectators : page[p].there}]
  /\ UNCHANGED <<race, wasOn, page>>

\* And when it is over: one message that clears the page.
Clear ==
  /\ ~pending.on /\ race = Blank /\ lastFrame # Blank
  /\ lastFrame' = Blank /\ sentFor' = NoRace
  /\ pending' = [on |-> TRUE, frame |-> Blank, left |-> {p \in Spectators : page[p].there}]
  /\ UNCHANGED <<race, wasOn, page>>

Deliver(p) ==
  /\ p \in pending.left /\ pending' = [pending EXCEPT !.left = @ \ {p}]
  /\ page' = IF page[p].there THEN [page EXCEPT ![p] = Shown(@, pending.frame)] ELSE page
  /\ UNCHANGED <<race, wasOn, lastFrame, sentFor>>

Sent ==
  /\ pending.on /\ pending.left = {} /\ pending' = NoFrame
  /\ UNCHANGED <<race, wasOn, lastFrame, sentFor, page>>

\* A spectator is registered between two broadcasts and then shown the last
\* frame, without an await in between.
Join(p) ==
  /\ ~page[p].there /\ ~pending.on
  /\ page' = [page EXCEPT ![p] = [Shown([@ EXCEPT !.knows = NoRace], lastFrame) EXCEPT !.there = TRUE]]
  /\ UNCHANGED <<race, wasOn, lastFrame, sentFor, pending>>

Depart(p) ==
  /\ page[p].there /\ page' = [page EXCEPT ![p].there = FALSE]
  /\ UNCHANGED <<race, wasOn, lastFrame, sentFor, pending>>

RaceNext == Game \/ Poll \/ Clear \/ Sent \/ \E p \in Spectators : Deliver(p) \/ Join(p) \/ Depart(p)
-----------------------------------------------------------------------------
\* A page that shows a race running has that race's timeline, whenever it
\* came and whatever was left out of the frame it was sent.
TimelineKnown ==
  \A p \in Spectators : page[p].there /\ page[p].shows.phase = "racing" => page[p].knows = page[p].shows.of

\* A page does not go on showing a race that is over.
Cleared == \A p \in Spectators :
  (<>[](race = Blank)) => <>[](page[p].there => page[p].shows = Blank)
=============================================================================
