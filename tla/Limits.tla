------------------------------- MODULE Limits -------------------------------
(***************************************************************************)
(* auth/rate_limit.py: the sliding windows that requests of one key pass.  *)
(* A quota is several windows at once; a RateLimiter is a quota of one.    *)
(***************************************************************************)
EXTENDS Integers, Sequences, SequencesExt, FiniteSets

CONSTANTS
  Tiers,        \* the windows: [most, window]
  MaxClock      \* bound: time

ASSUME LimitsAssumption == MaxClock \in Nat /\ Tiers # {} /\ IsFiniteSet(Tiers) /\ \A t \in Tiers : t.most \in Nat /\ t.window \in Nat

VARIABLES
  clock,
  events,       \* the deque of the key: when requests were let through
  admitted,     \* every request let through
  refused       \* the last request: the tier that refused it

limitVars == <<clock, events, admitted, refused>>

Longest == CHOOSE w \in {t.window : t \in Tiers} : \A t \in Tiers : t.window <= w
Granted == [by |-> "nobody"]

LimitsType ==
  /\ clock \in 0 .. MaxClock /\ events \in Seq(0 .. MaxClock)
  /\ \A i, j \in DOMAIN events : i < j => events[i] <= events[j]
  /\ refused \in Tiers \cup {Granted}

LimitsInit == clock = 0 /\ events = <<>> /\ admitted = <<>> /\ refused = Granted

Tick ==
  /\ clock < MaxClock /\ clock' = clock + 1 /\ refused' = Granted /\ UNCHANGED <<events, admitted>>

\* Mutant: what is as old as the window goes too.
Kept_Younger(es) ==
  LET gone == CHOOSE n \in 0 .. Len(es) : /\ \A i \in 1 .. n : es[i] <= clock - Longest
                                          /\ n < Len(es) => es[n + 1] > clock - Longest
  IN SubSeq(es, gone + 1, Len(es))

\* popleft while the first is older than the longest window
Kept(es) ==
  LET gone == CHOOSE n \in 0 .. Len(es) : /\ \A i \in 1 .. n : es[i] < clock - Longest
                                          /\ n < Len(es) => es[n + 1] >= clock - Longest
  IN SubSeq(es, gone + 1, Len(es))
Full(es, t) == Cardinality({i \in DOMAIN es : es[i] >= clock - t.window}) >= t.most

\* Mutant: a refused request is written down as well.
Request_AllCount ==
  LET es == Kept(events) over == {t \in Tiers : Full(es, t)} IN
  /\ events' = Append(es, clock)
  /\ IF over # {} THEN refused' \in over /\ admitted' = admitted
     ELSE refused' = Granted /\ admitted' = Append(admitted, clock)
  /\ Len(events) < 4 /\ UNCHANGED clock

\* check, is_allowed: one stretch without an await
Request ==
  LET es == Kept(events) over == {t \in Tiers : Full(es, t)} IN
  /\ IF over # {} THEN refused' \in over /\ events' = es /\ admitted' = admitted
     ELSE refused' = Granted /\ events' = Append(es, clock) /\ admitted' = Append(admitted, clock)
  /\ UNCHANGED clock

LimitsNext == Tick \/ Request
-----------------------------------------------------------------------------
Within(from, to) == Cardinality({i \in DOMAIN admitted : from <= admitted[i] /\ admitted[i] <= to})

\* However requests fall, no stretch of a window's length, its ends included,
\* sees more of them let through than that window allows.
WithinEvery == \A t \in Tiers : \A from \in 0 .. MaxClock : Within(from, from + t.window) <= t.most

\* And none is refused but by a window that is full of requests let through:
\* asking too often does not keep anyone out.
RefusedFairly == refused # Granted => Within(clock - refused.window, clock) >= refused.most

\* As strict as every window says, and no stricter.
LimitsSafe == LimitsType /\ WithinEvery /\ RefusedFairly
=============================================================================
