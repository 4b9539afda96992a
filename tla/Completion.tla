----------------------------- MODULE Completion -----------------------------
(***************************************************************************)
(* queue/completion.py: the state poller shows the recorder what is        *)
(* playing, the recorder keeps the furthest point it saw, and when the     *)
(* player moves on it records the play if it got past half and turns the   *)
(* saved playlists over.  Polls miss things; the process restarts.         *)
(***************************************************************************)
EXTENDS Integers, FiniteSets

CONSTANTS
  Titles,       \* media of the catalogue
  Alien,        \* a media id the catalogue does not know
  Length,       \* of each, in ticks, as the catalogue has it (0: unknown)
  Stopped,      \* nothing plays
  MaxPlays      \* bound: plays

ASSUME CompletionAssumption ==
  /\ Alien \notin Titles /\ Stopped \notin Titles \cup {Alien} /\ MaxPlays \in Nat
  /\ Length \in [Titles -> Nat]

VARIABLES
  playing,      \* the player: media, point, whether the payload tells the length
  plays,        \* each play: its media, the furthest point a poll saw, whether over
  tracked,      \* _cur_key, _cur_token, _cur_duration, _max_ct
  finalizing,   \* the poll that found the player has moved on
  recorded,     \* rows of play_completions, by media
  sunk,         \* rotations, by media
  excused       \* media whose count a restart, a failure or a repeat may have spoilt

completionVars == <<playing, plays, tracked, finalizing, recorded, sunk, excused>>

Playable == Titles \cup {Alien}
Real(m) == IF m = Alien THEN 2 ELSE IF Length[m] = 0 THEN 2 ELSE Length[m]   \* how long it really runs
Silence == [media |-> Stopped, at |-> 0, told |-> FALSE]
Nobody == [key |-> Stopped, known |-> FALSE, length |-> 0, most |-> 0]
NoPoll == [pc |-> "none", media |-> Stopped, at |-> 0, length |-> 0]

CompletionType ==
  /\ playing.media \in Playable \cup {Stopped} /\ playing.at \in Nat
  /\ tracked.key \in Playable \cup {Stopped} /\ (tracked.known => tracked.key \in Titles) /\ tracked.length \in Nat
  /\ finalizing.pc \in {"none", "record", "rotate", "resolve"}
  /\ recorded \in [Titles -> 0 .. MaxPlays] /\ sunk \in [Titles -> 0 .. MaxPlays] /\ excused \subseteq Playable

CompletionInit ==
  /\ playing = Silence /\ plays = {} /\ tracked = Nobody /\ finalizing = NoPoll
  /\ recorded = [m \in Titles |-> 0] /\ sunk = [m \in Titles |-> 0] /\ excused = {}

Count == Cardinality(plays)
\* The play that is on, and what a poll sees of it.
On == {p \in plays : ~p.over}
SeenPlays(at) == {IF p.over THEN p ELSE [p EXCEPT !.seen = IF at > @ THEN at ELSE @] : p \in plays}
-----------------------------------------------------------------------------
\* The player: the next item, or none; a repeat of what was on is one item to
\* the recorder, and so is one that no poll told apart.
Play ==
  /\ Count < MaxPlays
  /\ \E m \in Playable, told \in BOOLEAN :
       /\ playing' = [media |-> m, at |-> 0, told |-> told]
       /\ plays' = {[p EXCEPT !.over = TRUE] : p \in plays} \cup {[n |-> Count, media |-> m, seen |-> 0, over |-> FALSE]}
       /\ excused' = IF m \in {playing.media, tracked.key, finalizing.media} THEN excused \cup {m} ELSE excused
  /\ UNCHANGED <<tracked, finalizing, recorded, sunk>>

Halt ==
  /\ playing # Silence /\ playing' = Silence /\ plays' = {[p EXCEPT !.over = TRUE] : p \in plays}
  /\ UNCHANGED <<tracked, finalizing, recorded, sunk, excused>>

Advance ==
  /\ playing # Silence /\ playing.at < Real(playing.media) /\ playing' = [playing EXCEPT !.at = @ + 1]
  /\ UNCHANGED <<plays, tracked, finalizing, recorded, sunk, excused>>
-----------------------------------------------------------------------------
Told == IF playing.told THEN Real(playing.media) ELSE 0

\* The same item still plays.
Same ==
  /\ finalizing.pc = "none" /\ playing.media = tracked.key
  /\ tracked' = [tracked EXCEPT !.most = IF playing.at > @ THEN playing.at ELSE @,
                                !.length = IF @ = 0 THEN Told ELSE @]
  /\ plays' = SeenPlays(playing.at)
  /\ UNCHANGED <<playing, finalizing, recorded, sunk, excused>>

\* Mutant: what has run at all counts.
Played_AtAll(t) == t.known /\ t.most > 0

\* _finalize: in the catalogue, of known length, seen past half.
Played(t) == t.known /\ t.length > 0 /\ 2 * t.most >= t.length

\* Another item, or none: the one before is judged first.
Moved ==
  /\ finalizing.pc = "none" /\ playing.media # tracked.key
  /\ finalizing' = [pc |-> IF Played(tracked) THEN "record" ELSE "resolve",
                    media |-> playing.media, at |-> playing.at, length |-> Told]
  /\ plays' = SeenPlays(playing.at)
  /\ UNCHANGED <<playing, tracked, recorded, sunk, excused>>

\* Either write may fail; the failure is logged.
Record ==
  /\ finalizing.pc = "record" /\ finalizing' = [finalizing EXCEPT !.pc = "rotate"]
  /\ \/ recorded' = [recorded EXCEPT ![tracked.key] = @ + 1] /\ excused' = excused
     \/ recorded' = recorded /\ excused' = excused \cup {tracked.key}
  /\ UNCHANGED <<playing, plays, tracked, sunk>>

Rotate ==
  /\ finalizing.pc = "rotate" /\ finalizing' = [finalizing EXCEPT !.pc = "resolve"]
  /\ \/ sunk' = [sunk EXCEPT ![tracked.key] = @ + 1] /\ excused' = excused
     \/ sunk' = sunk /\ excused' = excused \cup {tracked.key}
  /\ UNCHANGED <<playing, plays, tracked, recorded>>

\* Mutant: the furthest point is not set back for the new item.
ResolveNew_KeepsMost ==
  /\ finalizing.pc = "resolve" /\ finalizing' = NoPoll
  /\ LET m == finalizing.media k == m \in Titles IN
     tracked' = [tracked EXCEPT !.key = m, !.known = k,
                                !.length = IF @ # 0 \/ ~k THEN finalizing.length ELSE Length[m]]
  /\ UNCHANGED <<playing, plays, recorded, sunk, excused>>

\* The new item is tracked and looked up; the lookup may fail, and then this
\* play is not judged.
ResolveNew ==
  /\ finalizing.pc = "resolve" /\ finalizing' = NoPoll
  /\ LET m == finalizing.media len == finalizing.length IN
     \/ /\ m \in Titles /\ excused' = excused
        /\ tracked' = [key |-> m, known |-> TRUE, length |-> IF len = 0 THEN Length[m] ELSE len, most |-> finalizing.at]
     \/ /\ tracked' = [key |-> m, known |-> FALSE, length |-> len, most |-> finalizing.at]
        /\ excused' = IF m = Stopped THEN excused ELSE excused \cup {m}
  /\ UNCHANGED <<playing, plays, recorded, sunk>>

\* The recorder's state is in memory only.
Reboot ==
  /\ tracked # Nobody \/ finalizing # NoPoll
  /\ tracked' = Nobody /\ finalizing' = NoPoll /\ excused' = excused \cup ({tracked.key, finalizing.media} \ {Stopped})
  /\ UNCHANGED <<playing, plays, recorded, sunk>>

CompletionNext == Play \/ Halt \/ Advance \/ Same \/ Moved \/ Record \/ Rotate \/ ResolveNew \/ Reboot
-----------------------------------------------------------------------------
\* The plays of a title that were seen past its half and are over.
Enough(m) == {p \in plays : p.media = m /\ 2 * p.seen >= Real(m) /\ p.seen > 0}

\* A title is hidden from viewers and sinks in its playlists only for a play
\* that was seen past half, and once for each, across skips, repeats, items
\* of unknown length, failed writes and restarts.
NeverEarly ==
  \A m \in Titles : recorded[m] <= Cardinality(Enough(m)) /\ sunk[m] <= Cardinality(Enough(m))

\* And for every such play the recorder has seen the end of, it was, unless
\* the title was repeated without a poll in between, a write or a lookup
\* failed, or the process restarted.
AllCounted ==
  \A m \in Titles :
    Length[m] # 0 /\ m \notin excused /\ finalizing.pc = "none" /\ tracked.key # m
      => recorded[m] = Cardinality(Enough(m)) /\ sunk[m] = recorded[m]

\* Counted when watched, and only then.
PlaysCounted == CompletionType /\ NeverEarly /\ AllCounted
=============================================================================
