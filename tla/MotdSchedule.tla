---------------------------- MODULE MotdSchedule ----------------------------
(***************************************************************************)
(* Which template is on the channel when: motd/schedule.py.  A schedule is *)
(* a window of time in a scope, a zone or the whole message; it comes once *)
(* or every so often, and of the windows open in a scope one wins.  Times  *)
(* are numbers; a recurrence rule is a period, and one time zone without   *)
(* daylight saving is modelled.                                            *)
(***************************************************************************)
EXTENDS Integers, Sequences, FiniteSets, FiniteSetsExt

CONSTANTS Scopes   \* the master's and the zones

Never == 1000000   \* ends_at IS NULL

Schedules(ids, templates, times, ends, periods, lengths, priorities) ==
  [id : ids, template : templates, scope : Scopes, start : times, end : ends,
   every : periods, lasts : lengths, priority : priorities]

\* validate: a one-off has an end, a recurrence has a length and comes at
\* least once before the series ends.
Sane(s) ==
  /\ s.end > s.start
  /\ IF s.every = 0 THEN s.end # Never ELSE s.lasts > 0

\* The table of them: the id is its key.
Timetable(table) ==
  /\ \A s \in table : /\ {s.id, s.start, s.end, s.every, s.lasts} \subseteq Nat /\ s.priority \in Int
                       /\ s.scope \in Scopes /\ Sane(s)
  /\ \A s, q \in table : s.id = q.id => s = q

\* Mutant: only what starts in the range is looked for.
Occurrences_NoLookBack(s, from, to) ==
  LET window(a, b) == [s |-> s, start |-> a, end |-> b]
      starts == {t \in from .. to : s.every > 0 /\ t >= s.start /\ (t - s.start) % s.every = 0}
      found == {window(t, Min({t + s.lasts, s.end})) : t \in {u \in starts : u < s.end}}
  IN IF s.every = 0 THEN IF s.end <= from \/ s.start >= to THEN {} ELSE {window(s.start, s.end)}
     ELSE {o \in found : o.end > from /\ o.start < to}

\* The windows of s that overlap [from, to).  rule.between is asked from one
\* length before the range.
Occurrences(s, from, to) ==
  LET window(a, b) == [s |-> s, start |-> a, end |-> b]
      starts == {t \in from - s.lasts .. to : s.every > 0 /\ t >= s.start /\ (t - s.start) % s.every = 0}
      found == {window(t, Min({t + s.lasts, s.end})) : t \in {u \in starts : u < s.end}}
  IN IF s.every = 0 THEN IF s.end <= from \/ s.start >= to THEN {} ELSE {window(s.start, s.end)}
     ELSE {o \in found : o.end > from /\ o.start < to}

\* Priority, then the shorter, then the one changed last.
Rank(o) == <<-o.s.priority, o.end - o.start, -o.s.id>>
Before(a, b) == \E i \in 1 .. 3 : a[i] < b[i] /\ \A j \in 1 .. i - 1 : a[j] = b[j]

\* The winning window of a scope at an instant, none if no schedule is open.
ActiveAt(table, at, scope) ==
  LET open == {o \in UNION {Occurrences(s, at, at + 1) : s \in table} :
                 o.s.scope = scope /\ o.start <= at /\ at < o.end}
  IN {o \in open : \A p \in open : ~Before(Rank(p), Rank(o))}
Winners(table, at) == [c \in Scopes |-> {o.s.id : o \in ActiveAt(table, at, c)}]

\* timeline: stretches of [from, to) with the same winners, cut where a
\* window begins or ends, and what comes in the range and never wins.
Timeline(table, from, to) ==
  LET windows == UNION {Occurrences(s, from, to) : s \in table}
      points == {from} \cup {p \in {o.start : o \in windows} \cup {o.end : o \in windows} :
                               from < p /\ p < to}
      before(p) == Max({q \in points : q < p})
      cuts == {p \in points : p = from \/ Winners(table, p) # Winners(table, before(p))}
      after(p) == Min({q \in cuts : q > p} \cup {to})
      winning == UNION {Winners(table, p)[c] : p \in points, c \in Scopes}
  IN [segments |-> {[start |-> p, end |-> after(p), winners |-> Winners(table, p)] : p \in cuts},
      shadowed |-> {o.s.id : o \in windows} \ winning]
-----------------------------------------------------------------------------
\* The reference: a schedule read instant by instant, its last start at or
\* before the instant within the series.
Started(s, t) == {u \in s.start .. t : u < s.end /\ IF s.every = 0 THEN u = s.start ELSE (u - s.start) % s.every = 0}
OpenEnds(s, t) == {e \in {IF s.every = 0 THEN s.end ELSE Min({u + s.lasts, s.end}) : u \in Started(s, t)} : t < e}
Opened(s, t) == {w \in [start : Started(s, t), end : OpenEnds(s, t)] :
                   w.end = IF s.every = 0 THEN s.end ELSE Min({w.start + s.lasts, s.end})}

\* What the timeline shows an admin is what each instant gets: its stretches
\* cover the range once, two neighbours differ, in each the winner of a scope
\* is open and no open one has a better claim, and what it calls shadowed is
\* open at some time of the range and never wins.
TimelineTrue(table, from, to) ==
  LET line == Timeline(table, from, to)
      at(t) == {g \in line.segments : g.start <= t /\ t < g.end}
      open(t, c) == {s \in table : s.scope = c /\ Opened(s, t) # {}}
      length(s, t) == Min({w.end - w.start : w \in Opened(s, t)})
      better(s, q, t) == \/ s.priority > q.priority
                         \/ s.priority = q.priority /\ length(s, t) < length(q, t)
                         \/ s.priority = q.priority /\ length(s, t) = length(q, t) /\ s.id > q.id
      wins(s, t, c) == s \in open(t, c) /\ \A q \in open(t, c) \ {s} : better(s, q, t)
      ever(s) == \E t \in from .. to - 1 : Opened(s, t) # {}
  IN /\ \A t \in from .. to - 1 : /\ Cardinality(at(t)) = 1
                                  /\ \A g \in at(t), c \in Scopes :
                                       g.winners[c] = {s.id : s \in {q \in table : wins(q, t, c)}}
     /\ \A g, h \in line.segments : g.end = h.start => g.winners # h.winners
     /\ line.shadowed = {s.id : s \in {q \in table : ever(q) /\
                           \A t \in from .. to - 1, c \in Scopes : ~wins(q, t, c)}}
=============================================================================
