------------------------------ MODULE LiveProofs ------------------------------
(***************************************************************************)
(* Theorems about the pages that listen, linked devices, request quotas,   *)
(* enrichment, saved playlists and the message of the day, for any users,  *)
(* sockets, codes, quotas, films, runs, lists, templates and schedules.    *)
(***************************************************************************)
EXTENDS MCLive, SavedPlaylists, Motd, FiniteFacts, SequenceTheorems

-----------------------------------------------------------------------------
(***************************************************************************)
(* The live queue page.  A user who never connected while a handler of his *)
(* was there has one handler at most (OneHandler); whom a broadcast found  *)
(* gone has no other page until it is over, since it holds the lock        *)
(* (StaleGone); and a page that was registered is so still (Listed).       *)
(***************************************************************************)
Attended(s) == sock[s].pc \notin {"new", "closed"}
Handlers == [pc : {"new", "wait", "initial", "loop", "leave", "closed"}, seen : 0 .. MaxVersion]
Casts == [pc : {"rest", "wait", "send"}, data : 0 .. MaxVersion, left : SUBSET Users, stale : SUBSET Users]

SockShape ==
  /\ SocketsType /\ cast \in [Casters -> Casts]
  /\ \A s \in alive : sock[s].pc # "new"
  /\ \A u \in Users : conn[u] # NoSock => sock[conn[u]].pc \notin {"new", "wait"}
  /\ \A b \in Casters : cast[b].pc # "send" => cast[b].left = {} /\ cast[b].stale = {}

OneHandler == \A r, s \in Socks : Owner[r] = Owner[s] /\ Owner[s] \notin again /\ Attended(r) /\ Attended(s) => r = s

StaleGone ==
  /\ \A b \in Casters : \A u \in cast[b].stale : conn[u] \notin alive
  /\ \A b \in Casters : \A u \in cast[b].left : conn[u] # NoSock

Listed ==
  \A s \in Socks : sock[s].pc \in {"initial", "loop"} /\ s \in alive /\ Owner[s] \notin again => conn[Owner[s]] = s

SockInv == SockShape /\ OneHandler /\ StaleGone /\ Listed

LEMMA SockInitially == SocketsInit => SockInv
<1>. SUFFICES ASSUME SocketsInit PROVE SockInv
  OBVIOUS
<1>1. cast \in [Casters -> Casts] /\ \A b \in Casters : cast[b] = Resting
  BY SocketsAssumption DEF SocketsInit, Casts, Resting
<1>2. SockShape
  BY <1>1, SocketsAssumption DEF SocketsInit, SockShape, SocketsType, Resting, Casters
<1>3. OneHandler /\ StaleGone /\ Listed
  BY <1>1 DEF SocketsInit, OneHandler, StaleGone, Listed, Attended, Resting
<1>. QED  BY <1>2, <1>3 DEF SockInv

LEMMA AcceptStep ==
  ASSUME SockInv, NEW s \in Socks, Accept(s)
  PROVE  SockInv'
<1>. USE DEF SockInv
<1>1. sock' = [sock EXCEPT ![s].pc = "wait"] /\ sock[s].pc = "new" /\ alive' = alive \cup {s}
      /\ UNCHANGED <<conn, wslock, version, cast>> /\ again \subseteq again'
  BY DEF Accept, SockGoto
<1>2. sock' \in [Socks -> Handlers] /\ sock'[s].pc = "wait" /\ \A r \in Socks \ {s} : sock'[r] = sock[r]
  BY <1>1 DEF SockShape, SocketsType, Handlers
<1>3. \A u \in Users : conn[u] # s
  BY <1>1, SocketsAssumption DEF SockShape
<1>4. SockShape'
  BY <1>1, <1>2, <1>3 DEF SockShape, SocketsType, Handlers
<1>5. OneHandler'
  <2>. SUFFICES ASSUME NEW q \in Socks, NEW r \in Socks, Owner[q] = Owner[r], Owner[r] \notin again',
                       Attended(q)', Attended(r)', q # r
                PROVE  FALSE
    BY DEF OneHandler
  <2>1. q # s /\ r # s
    BY <1>2, SocketsAssumption DEF Accept, Attended
  <2>. QED  BY <1>1, <1>2, <2>1 DEF OneHandler, Attended
<1>6. StaleGone'
  <2>1. \A b \in Casters : cast[b].stale \subseteq Users /\ cast[b].left \subseteq Users
    BY DEF SockShape, Casts
  <2>. QED  BY <1>1, <1>3, <2>1 DEF StaleGone
<1>7. Listed'
  BY <1>1, <1>2 DEF Listed
<1>. QED  BY <1>4, <1>5, <1>6, <1>7

LEMMA ConnectStep ==
  ASSUME SockInv, NEW s \in Socks, Connect(s)
  PROVE  SockInv'
<1>. USE DEF SockInv
<1>1. /\ sock' = [sock EXCEPT ![s].pc = "initial"] /\ sock[s].pc = "wait" /\ wslock = NoCaster
      /\ conn' = [conn EXCEPT ![Owner[s]] = s] /\ alive' = alive \ {conn[Owner[s]]}
      /\ UNCHANGED <<wslock, version, cast, again>> /\ Owner[s] \in Users
  BY SocketsAssumption DEF Connect, SockGoto
<1>2. sock' \in [Socks -> Handlers] /\ sock'[s].pc = "initial" /\ \A r \in Socks \ {s} : sock'[r] = sock[r]
  BY <1>1 DEF SockShape, SocketsType, Handlers
<1>3. conn' \in [Users -> Socks \cup {NoSock}] /\ conn'[Owner[s]] = s /\ \A u \in Users \ {Owner[s]} : conn'[u] = conn[u]
  BY <1>1 DEF SockShape, SocketsType
<1>4. SockShape'
  BY <1>1, <1>2, <1>3 DEF SockShape, SocketsType, Handlers
<1>5. OneHandler'
  BY <1>1, <1>2 DEF OneHandler, Attended
<1>6. \A b \in Casters : cast[b].stale = {} /\ cast[b].left = {}
  BY <1>1, SocketsAssumption DEF SockShape, SocketsType, Casters
<1>7. StaleGone'
  BY <1>1, <1>6 DEF StaleGone
<1>8. Listed'
  <2>. SUFFICES ASSUME NEW r \in Socks, sock'[r].pc \in {"initial", "loop"}, r \in alive', Owner[r] \notin again
                PROVE  conn'[Owner[r]] = r
    BY <1>1 DEF Listed
  <2>1. CASE r = s
    BY <1>3, <2>1
  <2>2. CASE r # s
    <3>1. Owner[r] # Owner[s]
      BY <1>1, <1>2, <2>2 DEF OneHandler, Attended
    <3>. QED  BY <1>1, <1>2, <1>3, <2>2, <3>1, SocketsAssumption DEF Listed
  <2>. QED  BY <2>1, <2>2
<1>. QED  BY <1>4, <1>5, <1>7, <1>8

\* The first state, and a handler whose client is gone.
LEMMA InitialStep ==
  ASSUME SockInv, NEW s \in Socks, Initial(s) \/ Leave(s)
  PROVE  SockInv'
<1>. USE DEF SockInv
<1>1. /\ UNCHANGED <<conn, alive, wslock, version, cast, again>> /\ sock[s].pc \in {"initial", "loop"}
      /\ \/ sock' = [sock EXCEPT ![s] = [pc |-> "loop", seen |-> version]] /\ sock[s].pc = "initial"
         \/ sock' = [sock EXCEPT ![s] = [pc |-> "leave", seen |-> 0]]
  BY DEF Initial, Leave
<1>2. /\ sock' \in [Socks -> Handlers] /\ sock'[s].pc \in {"loop", "leave"}
      /\ \A r \in Socks \ {s} : sock'[r] = sock[r]
  BY <1>1, SocketsAssumption DEF SockShape, SocketsType, Handlers
<1>3. SockShape'
  <2>1. SocketsType'
    BY <1>1, <1>2 DEF SockShape, SocketsType, Handlers
  <2>2. \A r \in alive : sock'[r].pc # "new"
    BY <1>1, <1>2 DEF SockShape, SocketsType
  <2>3. \A u \in Users : conn[u] # NoSock => sock'[conn[u]].pc \notin {"new", "wait"}
    BY <1>1, <1>2 DEF SockShape, SocketsType
  <2>. QED  BY <1>1, <2>1, <2>2, <2>3 DEF SockShape
<1>4. OneHandler' /\ StaleGone' /\ Listed'
  <2>1. \A r \in Socks : Attended(r)' <=> Attended(r)
    BY <1>1, <1>2 DEF Attended
  <2>2. OneHandler'
    BY <1>1, <2>1 DEF OneHandler
  <2>3. StaleGone'
    BY <1>1 DEF StaleGone
  <2>4. Listed'
    BY <1>1, <1>2 DEF Listed
  <2>. QED  BY <2>2, <2>3, <2>4
<1>. QED  BY <1>3, <1>4

LEMMA DisconnectStep ==
  ASSUME SockInv, NEW s \in Socks, Disconnect(s)
  PROVE  SockInv'
<1>. USE DEF SockInv
<1>1. /\ sock' = [sock EXCEPT ![s].pc = "closed"] /\ sock[s].pc = "leave" /\ wslock = NoCaster
      /\ conn' = [conn EXCEPT ![Owner[s]] = NoSock] /\ UNCHANGED <<alive, wslock, version, cast, again>>
      /\ Owner[s] \in Users
  BY SocketsAssumption DEF Disconnect, SockGoto
<1>2. sock' \in [Socks -> Handlers] /\ sock'[s].pc = "closed" /\ \A r \in Socks \ {s} : sock'[r] = sock[r]
  BY <1>1 DEF SockShape, SocketsType, Handlers
<1>3. conn' \in [Users -> Socks \cup {NoSock}] /\ conn'[Owner[s]] = NoSock /\ \A u \in Users \ {Owner[s]} : conn'[u] = conn[u]
  BY <1>1 DEF SockShape, SocketsType
<1>4. SockShape'
  BY <1>1, <1>2, <1>3 DEF SockShape, SocketsType, Handlers
<1>5. OneHandler'
  BY <1>1, <1>2 DEF OneHandler, Attended
<1>6. \A b \in Casters : cast[b].stale = {} /\ cast[b].left = {}
  BY <1>1, SocketsAssumption DEF SockShape, SocketsType, Casters
<1>7. StaleGone'
  BY <1>1, <1>6 DEF StaleGone
<1>8. Listed'
  <2>. SUFFICES ASSUME NEW r \in Socks, sock'[r].pc \in {"initial", "loop"}, r \in alive', Owner[r] \notin again
                PROVE  conn'[Owner[r]] = r
    BY <1>1 DEF Listed
  <2>1. r # s
    BY <1>2
  <2>2. Owner[r] # Owner[s]
    BY <1>1, <1>2, <2>1 DEF OneHandler, Attended
  <2>. QED  BY <1>1, <1>2, <1>3, <2>1, <2>2, SocketsAssumption DEF Listed
<1>. QED  BY <1>4, <1>5, <1>7, <1>8

LEMMA VanishStep ==
  ASSUME SockInv, NEW s \in Socks, Vanish(s)
  PROVE  SockInv'
BY DEF Vanish, SockInv, SockShape, SocketsType, OneHandler, Attended, StaleGone, Listed

LEMMA ChangeStep ==
  ASSUME SockInv, Change
  PROVE  SockInv'
<1>1. version' \in 0 .. MaxVersion
  BY SocketsAssumption DEF Change, SockInv, SockShape, SocketsType
<1>. QED  BY <1>1 DEF Change, SockInv, SockShape, SocketsType, OneHandler, Attended, StaleGone, Listed

\* A broadcast is made ready and begins.
LEMMA BeginCast ==
  ASSUME SockInv, NEW b \in Casters, Snapshot(b) \/ Broadcast(b)
  PROVE  SockInv'
<1>. USE DEF SockInv
<1>0. UNCHANGED <<conn, sock, alive, version, again>>
  BY DEF Snapshot, Broadcast
<1>1. /\ cast' \in [Casters -> Casts] /\ (\A c \in Casters \ {b} : cast'[c] = cast[c])
      /\ cast'[b].stale = {} /\ \A u \in cast'[b].left : conn[u] # NoSock
  <2>1. CASE Snapshot(b)
    <3>. DEFINE x == [Resting EXCEPT !.pc = "wait", !.data = version]
    <3>1. x \in Casts /\ x.stale = {} /\ x.left = {}
      BY DEF Resting, Casts, SockShape, SocketsType
    <3>2. cast' = [cast EXCEPT ![b] = x]
      BY <2>1 DEF Snapshot
    <3>. HIDE DEF x
    <3>. QED  BY <3>1, <3>2 DEF SockShape
  <2>2. CASE Broadcast(b)
    <3>. DEFINE there == {u \in Users : conn[u] # NoSock}
                x == [cast[b] EXCEPT !.pc = "send", !.left = there]
    <3>1. x \in Casts /\ x.stale = {} /\ x.left = there
      BY <2>2 DEF Broadcast, Casts, SockShape
    <3>2. cast' = [cast EXCEPT ![b] = x]
      BY <2>2 DEF Broadcast, SockShape
    <3>. HIDE DEF x
    <3>. QED  BY <3>1, <3>2 DEF SockShape
  <2>. QED  BY <2>1, <2>2
<1>2. SockShape'
  <2>1. CASE Snapshot(b)
    <3>1. cast'[b].pc = "wait" /\ cast'[b].left = {} /\ wslock' = wslock /\ cast[b].pc = "rest"
      BY <2>1 DEF Snapshot, Resting, SockShape
    <3>2. wslock # b
      BY <3>1 DEF SockShape, SocketsType
    <3>3. \A c \in Casters : /\ cast'[c].pc \in {"rest", "wait", "send"} /\ (cast'[c].pc = "send" <=> wslock' = c)
                             /\ (cast'[c].pc # "send" => cast'[c].left = {} /\ cast'[c].stale = {})
      BY <1>1, <3>1, <3>2 DEF SockShape, SocketsType
    <3>. QED  BY <1>0, <1>1, <3>1, <3>3 DEF SockShape, SocketsType
  <2>2. CASE Broadcast(b)
    <3>1. cast'[b].pc = "send" /\ wslock' = b /\ wslock = NoCaster
      BY <2>2 DEF Broadcast, SockShape, Casts
    <3>. QED  BY <1>0, <1>1, <3>1, SocketsAssumption DEF SockShape, SocketsType, Casts, Casters
  <2>. QED  BY <2>1, <2>2
<1>3. OneHandler' /\ Listed'
  BY <1>0 DEF OneHandler, Attended, Listed
<1>4. StaleGone'
  BY <1>0, <1>1 DEF StaleGone
<1>. QED  BY <1>2, <1>3, <1>4

LEMMA SendStep ==
  ASSUME SockInv, NEW b \in Casters, NEW u \in Users, SendText(b, u)
  PROVE  SockInv'
<1>. USE DEF SockInv
<1>. DEFINE x == [cast[b] EXCEPT !.left = @ \ {u}, !.stale = IF conn[u] \in alive THEN @ ELSE @ \cup {u}]
<1>1. UNCHANGED <<conn, alive, wslock, version, again>> /\ cast[b].pc = "send" /\ u \in cast[b].left
  BY DEF SendText
<1>2. /\ cast' = [cast EXCEPT ![b] = x] /\ x \in Casts /\ x.pc = "send" /\ x.left \subseteq cast[b].left
      /\ x.stale = IF conn[u] \in alive THEN cast[b].stale ELSE cast[b].stale \cup {u}
  BY <1>1 DEF SendText, SockShape, Casts
<1>. HIDE DEF x
<1>3. cast' \in [Casters -> Casts] /\ cast'[b] = x /\ \A c \in Casters \ {b} : cast'[c] = cast[c]
  BY <1>2 DEF SockShape
<1>4. sock' \in [Socks -> Handlers] /\ \A s \in Socks : sock'[s].pc = sock[s].pc
  <2>1. CASE conn[u] \in alive
    <3>1. sock' = [sock EXCEPT ![conn[u]].seen = cast[b].data] /\ conn[u] \in Socks /\ cast[b].data \in 0 .. MaxVersion
      BY <2>1 DEF SendText, SockShape, SocketsType, Casts
    <3>. QED  BY <3>1 DEF SockShape, SocketsType, Handlers
  <2>2. CASE conn[u] \notin alive
    BY <2>2 DEF SendText, SockShape, SocketsType, Handlers
  <2>. QED  BY <2>1, <2>2
<1>5. SockShape'
  BY <1>1, <1>2, <1>3, <1>4 DEF SockShape, SocketsType, Handlers, Casts
<1>6. OneHandler' /\ Listed'
  BY <1>1, <1>4 DEF OneHandler, Attended, Listed
<1>7. StaleGone'
  BY <1>1, <1>2, <1>3 DEF StaleGone
<1>. QED  BY <1>5, <1>6, <1>7

LEMMA SweptStep ==
  ASSUME SockInv, NEW b \in Casters, Swept(b)
  PROVE  SockInv'
<1>. USE DEF SockInv
<1>1. /\ UNCHANGED <<sock, alive, version, again>> /\ cast[b].pc = "send" /\ wslock = b /\ wslock' = NoCaster
      /\ conn' = [u \in Users |-> IF u \in cast[b].stale THEN NoSock ELSE conn[u]]
      /\ cast' = [cast EXCEPT ![b] = Resting]
  BY DEF Swept, SockShape, SocketsType
<1>2. Resting \in Casts
  BY SocketsAssumption DEF Resting, Casts
<1>3. cast' \in [Casters -> Casts] /\ cast'[b] = Resting /\ \A c \in Casters \ {b} : cast'[c] = cast[c]
  BY <1>1, <1>2 DEF SockShape
<1>4. \A c \in Casters : cast'[c].pc # "send" /\ cast'[c].left = {} /\ cast'[c].stale = {}
  BY <1>1, <1>3, SocketsAssumption DEF Resting, SockShape, SocketsType, Casters
<1>5. SockShape'
  <2>1. conn' \in [Users -> Socks \cup {NoSock}] /\ \A u \in Users : conn'[u] \in {NoSock, conn[u]}
    BY <1>1 DEF SockShape, SocketsType
  <2>. QED  BY <1>1, <1>3, <1>4, <2>1, SocketsAssumption DEF SockShape, SocketsType, Casts, Casters
<1>6. OneHandler'
  BY <1>1 DEF OneHandler, Attended
<1>7. StaleGone'
  BY <1>4 DEF StaleGone
<1>8. Listed'
  <2>. SUFFICES ASSUME NEW s \in Socks, sock[s].pc \in {"initial", "loop"}, s \in alive, Owner[s] \notin again
                PROVE  conn'[Owner[s]] = s
    BY <1>1 DEF Listed
  <2>1. conn[Owner[s]] = s /\ Owner[s] \in Users
    BY SocketsAssumption DEF Listed
  <2>2. Owner[s] \notin cast[b].stale
    BY <2>1 DEF StaleGone
  <2>. QED  BY <1>1, <2>1, <2>2
<1>. QED  BY <1>5, <1>6, <1>7, <1>8

LEMMA SockInductive ==
  ASSUME SockInv, [SocketsNext]_socketVars
  PROVE  SockInv'
<1>1. CASE UNCHANGED socketVars
  BY <1>1 DEF socketVars, SockInv, SockShape, SocketsType, OneHandler, Attended, StaleGone, Listed
<1>2. ASSUME NEW s \in Socks, Handler(s) PROVE SockInv'
  BY <1>2, AcceptStep, ConnectStep, InitialStep, DisconnectStep, VanishStep DEF Handler
<1>3. ASSUME NEW b \in Casters, Caster(b) PROVE SockInv'
  BY <1>3, BeginCast, SendStep, SweptStep DEF Caster
<1>. QED  BY <1>1, <1>2, <1>3, ChangeStep DEF SocketsNext
-----------------------------------------------------------------------------
(***************************************************************************)
(* The race page.  While the race the poller sent the timeline of is on,   *)
(* it is in the last frame (SentOnce), no race begins as one it was sent   *)
(* for (Once), and who is registered has the timeline of the last frame,   *)
(* or is about to get it with the frame under way (Caught).                *)
(***************************************************************************)
RaceShape ==
  /\ RaceType
  /\ pending \in [on : BOOLEAN, frame : Frame, left : SUBSET Spectators]
  /\ (race.phase = "racing" <=> race.full) /\ (lastFrame.phase = "racing" => lastFrame.full)
  /\ (race # Blank => race.of \in wasOn) /\ (lastFrame.full => lastFrame.of \in Races)
  /\ sentFor \in wasOn \cup {NoRace} /\ (~pending.on => pending.left = {})
  /\ (pending.on => pending.frame.of = lastFrame.of)

SentOnce ==
  /\ sentFor # NoRace /\ race.full /\ race.of = sentFor => lastFrame = race
  /\ lastFrame.full => sentFor = lastFrame.of

Once == race.phase = "betting" => sentFor # race.of

Caught ==
  \A p \in Spectators : page[p].there =>
    /\ lastFrame.full => \/ page[p].knows = lastFrame.of
                         \/ p \in pending.left /\ pending.frame.full /\ pending.frame.of = lastFrame.of
    /\ p \in pending.left /\ pending.frame.phase = "racing" /\ ~pending.frame.full
         => page[p].knows = pending.frame.of

RaceInv == RaceShape /\ SentOnce /\ Once /\ Caught /\ TimelineKnown

Pages == [there : BOOLEAN, shows : Frame, knows : Races \cup {NoRace}]

\* What becomes of a page's fields.
LEMMA PageFields ==
  ASSUME NEW r, NEW a, NEW b, NEW c, r = [there |-> a, shows |-> b, knows |-> c], NEW d
  PROVE  /\ [r EXCEPT !.there = d] = [there |-> d, shows |-> b, knows |-> c]
         /\ [r EXCEPT !.shows = d] = [there |-> a, shows |-> d, knows |-> c]
         /\ [r EXCEPT !.knows = d] = [there |-> a, shows |-> b, knows |-> d]
OBVIOUS

\* What a page is once it was shown a frame.
LEMMA ShownIs ==
  ASSUME NEW pg \in Pages, NEW f \in Frame
  PROVE  Shown(pg, f) = [there |-> pg.there, shows |-> f, knows |-> IF f.full THEN f.of ELSE pg.knows]
<1>. DEFINE k == IF f.full THEN f.of ELSE pg.knows
            x == [pg EXCEPT !.shows = f]
<1>1. pg = [there |-> pg.there, shows |-> pg.shows, knows |-> pg.knows]
  BY DEF Pages
<1>2. x = [there |-> pg.there, shows |-> f, knows |-> pg.knows]
  BY <1>1, PageFields
<1>3. Shown(pg, f) = [x EXCEPT !.knows = k]
  BY <1>1 DEF Shown
<1>. HIDE DEF x, k
<1>4. [x EXCEPT !.knows = k] = [there |-> pg.there, shows |-> f, knows |-> k]
  BY <1>2, PageFields
<1>. QED  BY <1>3, <1>4 DEF k

LEMMA RaceInitially == RaceInit => RaceInv
<1>. SUFFICES ASSUME RaceInit PROVE RaceInv
  OBVIOUS
<1>1. RaceShape
  BY DEF RaceInit, RaceShape, RaceType, Blank, Frame, NoFrame
<1>2. SentOnce /\ Once /\ Caught /\ TimelineKnown
  BY DEF RaceInit, SentOnce, Once, Caught, TimelineKnown, Blank, NoFrame
<1>. QED  BY <1>1, <1>2 DEF RaceInv

\* The game goes on.
LEMMA GameStep ==
  ASSUME RaceInv, Game
  PROVE  RaceInv'
<1>. USE DEF RaceInv
<1>0. race = [of |-> race.of, phase |-> race.phase, full |-> race.full]
  BY DEF RaceShape, RaceType, Frame
<1>1. /\ race' \in Frame /\ wasOn \subseteq wasOn' /\ wasOn' \subseteq Races
      /\ (race'.phase = "racing" <=> race'.full) /\ (race' # Blank => race'.of \in wasOn')
  <2>1. ASSUME NEW r \in Races \ wasOn, race' = [of |-> r, phase |-> "betting", full |-> FALSE],
               wasOn' = wasOn \cup {r}
        PROVE  <1>1!1
    BY <2>1 DEF RaceShape, RaceType, Frame
  <2>2. CASE race.phase = "betting" /\ race' = [race EXCEPT !.phase = "racing", !.full = TRUE] /\ wasOn' = wasOn
    <3>1. race' = [of |-> race.of, phase |-> "racing", full |-> TRUE]
      BY <1>0, <2>2
    <3>2. race # Blank
      BY <2>2 DEF Blank
    <3>. QED  BY <2>2, <3>1, <3>2 DEF RaceShape, RaceType, Frame
  <2>3. CASE race.phase = "racing" /\ race' = [race EXCEPT !.phase = "finished", !.full = FALSE] /\ wasOn' = wasOn
    <3>1. race' = [of |-> race.of, phase |-> "finished", full |-> FALSE]
      BY <1>0, <2>3
    <3>2. race # Blank
      BY <2>3 DEF Blank
    <3>. QED  BY <2>3, <3>1, <3>2 DEF RaceShape, RaceType, Frame
  <2>4. CASE race' = Blank /\ wasOn' = wasOn
    BY <2>4 DEF RaceShape, RaceType, Frame, Blank
  <2>. QED  BY <2>1, <2>2, <2>3, <2>4 DEF Game
<1>2. RaceShape'
  BY <1>1 DEF Game, RaceShape, RaceType
<1>3. SentOnce' /\ Once'
  <2>1. ASSUME NEW r \in Races \ wasOn, race' = [of |-> r, phase |-> "betting", full |-> FALSE]
        PROVE  SentOnce' /\ Once'
    BY <2>1, RaceAssumption DEF Game, SentOnce, Once, RaceShape
  <2>2. CASE race.phase = "betting" /\ race' = [race EXCEPT !.phase = "racing", !.full = TRUE]
    <3>1. race'.of = race.of /\ race'.phase = "racing"
      BY <2>2 DEF RaceShape, RaceType, Frame
    <3>. QED  BY <2>2, <3>1 DEF Game, SentOnce, Once
  <2>3. CASE race.phase = "racing" /\ race' = [race EXCEPT !.phase = "finished", !.full = FALSE]
    <3>1. race'.phase = "finished" /\ race'.full = FALSE
      BY <2>3 DEF RaceShape, RaceType, Frame
    <3>. QED  BY <2>3, <3>1 DEF Game, SentOnce, Once
  <2>4. CASE race' = Blank
    BY <2>4 DEF Game, SentOnce, Once, Blank
  <2>. QED  BY <2>1, <2>2, <2>3, <2>4 DEF Game
<1>4. Caught' /\ TimelineKnown'
  BY DEF Game, Caught, TimelineKnown
<1>. QED  BY <1>2, <1>3, <1>4

\* A poll, and the message that clears the page.
LEMMA PollStep ==
  ASSUME RaceInv, Poll
  PROVE  RaceInv'
<1>. USE DEF RaceInv
<1>. DEFINE sent == [race EXCEPT !.full = race.full /\ ~Light(race)]
<1>1. race \in Frame /\ race # Blank /\ race.of \in Races \cup {NoRace} /\ race.full \in BOOLEAN
  BY DEF Poll, RaceShape, RaceType, Frame
<1>2. /\ sent = [of |-> race.of, phase |-> race.phase, full |-> race.full /\ ~Light(race)]
      /\ sent \in Frame
  <2>1. race = [of |-> race.of, phase |-> race.phase, full |-> race.full]
    BY <1>1 DEF Frame
  <2>2. sent = [of |-> race.of, phase |-> race.phase, full |-> race.full /\ ~Light(race)]
    BY <2>1
  <2>. QED  BY <1>1, <2>2 DEF Frame
<1>3. /\ pending' = [on |-> TRUE, frame |-> sent, left |-> {p \in Spectators : page[p].there}]
      /\ lastFrame' = race /\ sentFor' = Marked(race) /\ ~pending.on
      /\ race' = race /\ wasOn' = wasOn /\ page' = page
  BY DEF Poll
<1>4. race.full => race.of \in Races
  BY <1>1 DEF RaceShape, RaceType
<1>5. RaceShape'
  BY <1>1, <1>2, <1>3, <1>4 DEF RaceShape, RaceType, Marked
<1>6. SentOnce' /\ Once'
  BY <1>1, <1>3, RaceAssumption DEF SentOnce, Once, RaceShape, Marked
<1>7. Caught'
  <2>. SUFFICES ASSUME NEW p \in Spectators, page[p].there, race.full
                PROVE  \/ page[p].knows = race.of
                       \/ sent.full /\ sent.of = race.of
    BY <1>2, <1>3 DEF Caught, RaceShape
  <2>1. CASE ~Light(race)
    BY <1>2, <2>1
  <2>2. CASE Light(race)
    <3>1. lastFrame = race
      BY <1>4, <2>2, RaceAssumption DEF Light, SentOnce
    <3>. QED  BY <1>3, <3>1 DEF Caught, RaceShape
  <2>. QED  BY <2>1, <2>2
<1>8. TimelineKnown'
  BY <1>3 DEF TimelineKnown
<1>. QED  BY <1>5, <1>6, <1>7, <1>8

LEMMA ClearStep ==
  ASSUME RaceInv, Clear
  PROVE  RaceInv'
<1>. USE DEF RaceInv
<1>1. RaceShape'
  BY DEF Clear, RaceShape, RaceType, Blank, Frame
<1>2. SentOnce' /\ Once' /\ Caught' /\ TimelineKnown'
  BY RaceAssumption DEF Clear, RaceShape, SentOnce, Once, Caught, TimelineKnown, Blank
<1>. QED  BY <1>1, <1>2

\* A frame reaches a page.
LEMMA DeliverStep ==
  ASSUME RaceInv, NEW p \in Spectators, Deliver(p)
  PROVE  RaceInv'
<1>. USE DEF RaceInv
<1>1. /\ pending' = [on |-> pending.on, frame |-> pending.frame, left |-> pending.left \ {p}]
      /\ p \in pending.left /\ UNCHANGED <<race, wasOn, lastFrame, sentFor>>
  BY DEF Deliver, RaceShape
<1>2. page' = [page EXCEPT ![p] =
        IF page[p].there
        THEN [there |-> page[p].there, shows |-> pending.frame,
              knows |-> IF pending.frame.full THEN pending.frame.of ELSE page[p].knows]
        ELSE page[p]]
  <2>1. page \in [Spectators -> [there : BOOLEAN, shows : Frame, knows : Races \cup {NoRace}]]
    BY DEF RaceShape, RaceType
  <2>2. Shown(page[p], pending.frame) = [there |-> page[p].there, shows |-> pending.frame,
              knows |-> IF pending.frame.full THEN pending.frame.of ELSE page[p].knows]
    BY <2>1, ShownIs DEF Pages, RaceShape
  <2>3. CASE page[p].there
    BY <2>2, <2>3 DEF Deliver
  <2>4. CASE ~page[p].there
    BY <2>1, <2>4 DEF Deliver
  <2>. QED  BY <2>3, <2>4
<1>3. RaceShape'
  BY <1>1, <1>2 DEF RaceShape, RaceType, Frame
<1>4. page \in [Spectators -> [there : BOOLEAN, shows : Frame, knows : Races \cup {NoRace}]]
  BY DEF RaceShape, RaceType
<1>5. SentOnce' /\ Once'
  BY <1>1 DEF SentOnce, Once
<1>6. Caught'
  <2>. SUFFICES ASSUME NEW q \in Spectators, page'[q].there
                PROVE  /\ lastFrame.full => \/ page'[q].knows = lastFrame.of
                                            \/ q \in pending.left \ {p} /\ pending.frame.full /\ pending.frame.of = lastFrame.of
                       /\ q \in pending.left \ {p} /\ pending.frame.phase = "racing" /\ ~pending.frame.full
                            => page'[q].knows = pending.frame.of
    BY <1>1 DEF Caught
  <2>1. CASE q # p
    BY <1>2, <1>4, <2>1 DEF Caught
  <2>2. CASE q = p
    <3>0. page[p].there
      BY <1>2, <1>4, <2>2
    <3>1. page'[p].knows = IF pending.frame.full THEN pending.frame.of ELSE page[p].knows
      BY <1>2, <1>4, <3>0
    <3>2. pending.frame.full => page'[p].knows = pending.frame.of
      BY <3>1
    <3>3. ~pending.frame.full => page'[p].knows = page[p].knows
      BY <3>1
    <3>4. lastFrame.full => page[p].knows = lastFrame.of \/ (pending.frame.full /\ pending.frame.of = lastFrame.of)
      BY <3>0 DEF Caught
    <3>5. pending.frame.full => pending.frame.of = lastFrame.of
      BY <1>1 DEF RaceShape
    <3>. QED  BY <2>2, <3>2, <3>3, <3>4, <3>5
  <2>. QED  BY <2>1, <2>2
<1>7. TimelineKnown'
  <2>. SUFFICES ASSUME NEW q \in Spectators, page'[q].there, page'[q].shows.phase = "racing"
                PROVE  page'[q].knows = page'[q].shows.of
    BY DEF TimelineKnown
  <2>1. CASE q # p
    BY <1>2, <1>4, <2>1 DEF TimelineKnown
  <2>2. CASE q = p
    BY <1>1, <1>2, <1>4, <2>2 DEF Caught
  <2>. QED  BY <2>1, <2>2
<1>. QED  BY <1>3, <1>5, <1>6, <1>7

\* Somebody comes and is shown the last frame, or goes.
LEMMA ComeOrGo ==
  ASSUME RaceInv, NEW p \in Spectators, Join(p) \/ Depart(p)
  PROVE  RaceInv'
<1>. USE DEF RaceInv
<1>1. page \in [Spectators -> Pages] /\ lastFrame \in Frame
  BY DEF RaceShape, RaceType, Pages
<1>2. UNCHANGED <<race, wasOn, lastFrame, sentFor, pending>>
  BY DEF Join, Depart
<1>3. SentOnce' /\ Once'
  BY <1>2 DEF SentOnce, Once
<1>4. CASE Join(p)
  <2>. DEFINE blank == [page[p] EXCEPT !.knows = NoRace]
              after == Shown(blank, lastFrame)
  <2>1. blank \in Pages /\ blank.knows = NoRace
    BY <1>1 DEF Pages
  <2>2. after \in Pages /\ after.shows = lastFrame /\ after.knows = IF lastFrame.full THEN lastFrame.of ELSE NoRace
    <3>. HIDE DEF blank
    <3>1. lastFrame.full => lastFrame.of \in Races
      BY DEF RaceShape
    <3>. QED  BY <1>1, <2>1, <3>1, ShownIs DEF Pages
  <2>3. page' = [page EXCEPT ![p] = [after EXCEPT !.there = TRUE]]
    BY <1>4 DEF Join
  <2>. HIDE DEF after
  <2>4. page' \in [Spectators -> Pages] /\ \A q \in Spectators \ {p} : page'[q] = page[q]
    BY <1>1, <2>2, <2>3 DEF Pages
  <2>5. page'[p].shows = lastFrame /\ page'[p].knows = IF lastFrame.full THEN lastFrame.of ELSE NoRace
    BY <1>1, <2>2, <2>3 DEF Pages
  <2>6. RaceShape'
    BY <1>2, <2>4 DEF RaceShape, RaceType, Pages
  <2>7. Caught'
    <3>1. pending.left = {}
      BY <1>4 DEF Join, RaceShape
    <3>2. lastFrame.full => page'[p].knows = lastFrame.of
      BY <2>5
    <3>. QED  BY <1>2, <2>4, <3>1, <3>2 DEF Caught
  <2>8. TimelineKnown'
    <3>1. lastFrame.phase = "racing" => page'[p].knows = lastFrame.of
      BY <2>5 DEF RaceShape
    <3>. QED  BY <2>4, <2>5, <3>1 DEF TimelineKnown
  <2>. QED  BY <1>3, <2>6, <2>7, <2>8
<1>5. CASE Depart(p)
  <2>1. page' = [page EXCEPT ![p].there = FALSE]
    BY <1>5 DEF Depart
  <2>2. page' \in [Spectators -> Pages] /\ ~page'[p].there /\ \A q \in Spectators \ {p} : page'[q] = page[q]
    BY <1>1, <2>1 DEF Pages
  <2>3. RaceShape'
    BY <1>2, <2>2 DEF RaceShape, RaceType, Pages
  <2>4. Caught' /\ TimelineKnown'
    BY <1>2, <2>2 DEF Caught, TimelineKnown
  <2>. QED  BY <1>3, <2>3, <2>4
<1>. QED  BY <1>4, <1>5

LEMMA RaceInductive ==
  ASSUME RaceInv, [RaceNext]_raceVars
  PROVE  RaceInv'
<1>1. CASE Sent
  BY <1>1 DEF Sent, NoFrame, Blank, Frame, RaceInv, RaceShape, RaceType, SentOnce, Once, Caught, TimelineKnown
<1>2. CASE UNCHANGED raceVars
  BY <1>2 DEF raceVars, RaceInv, RaceShape, RaceType, SentOnce, Once, Caught, TimelineKnown
<1>. QED  BY <1>1, <1>2, GameStep, PollStep, ClearStep, DeliverStep, ComeOrGo DEF RaceNext
-----------------------------------------------------------------------------
(***************************************************************************)
(* The inductive invariant.  A pad that yielded a key must be found by     *)
(* nobody: as long as its code is in the table somebody is about to take   *)
(* it out (Consumed), and who has read a pad that has yielded one shares   *)
(* it (Unspent), as do two that have read the same (OneReader).  Pads are  *)
(* told apart by their number, so a pad in hand is the row it was read     *)
(* from (PadsTold).                                                        *)
(***************************************************************************)
Pads == [code : Codes, user : Viewers, stale : BOOLEAN, pad : 1 .. grants]
Reading(t) == exchange[t].pc \in {"key", "drop"}

DeviceShape ==
  /\ grants \in Nat /\ codes \subseteq Pads
  /\ keys \subseteq [id : 1 .. MaxKeys, user : Viewers, from : 1 .. grants]
  /\ asking \in [Viewers -> [pc : {"idle", "purge", "pick", "store"}, code : Codes \cup {0}]]
  /\ \A u \in Viewers : asking[u].pc = "store" => asking[u].code \in Codes
  /\ exchange \in [Televisions -> [pc : {"idle", "valid", "key", "drop"}, pad : Pads \cup {0}]]
  /\ \A t \in Televisions : Reading(t) => exchange[t].pad \in Pads /\ ~exchange[t].pad.stale
  /\ reconcile \in [pc : {"idle", "list", "revoke"}, users : SUBSET Viewers]

OneCode == \A c, d \in codes : c.code = d.code => c = d
OneId == \A k, l \in keys : k.id = l.id => k = l

PadsTold ==
  /\ \A c, d \in codes : c.pad = d.pad => c = d
  /\ \A t \in Televisions, c \in codes : Reading(t) /\ exchange[t].pad.pad = c.pad
       => exchange[t].pad.code = c.code /\ exchange[t].pad.user = c.user
  /\ \A s, t \in Televisions : Reading(s) /\ Reading(t) /\ exchange[s].pad.pad = exchange[t].pad.pad
       => exchange[s].pad = exchange[t].pad

OneReader ==
  \A s, t \in Televisions : Reading(s) /\ Reading(t) /\ exchange[s].pad.pad = exchange[t].pad.pad
    => s = t \/ exchange[s].pad.pad \in shared

Unspent ==
  \A t \in Televisions, k \in keys :
    exchange[t].pc = "key" /\ exchange[t].pad.pad = k.from => k.from \in shared

Consumed ==
  \A k \in keys, c \in codes : c.pad = k.from /\ k.from \notin shared
    => \E t \in Televisions : exchange[t].pc = "drop" /\ exchange[t].pad.pad = k.from

DeviceRest == OneCode /\ OneId /\ PadsTold /\ OneReader /\ Unspent /\ Consumed /\ OneKeyPerPad
DeviceInv == DeviceShape /\ DeviceRest
-----------------------------------------------------------------------------
(* Steps that issue no pad, make no key and leave who reads what alone.    *)
LEMMA DevicesCalm ==
  ASSUME DeviceRest, codes' \subseteq codes, keys' \subseteq keys, shared' = shared,
         \A t \in Televisions : Reading(t) \/ Reading(t)' => exchange'[t] = exchange[t]
  PROVE DeviceRest'
<1>1. OneCode' /\ OneId' /\ OneKeyPerPad' BY DEF DeviceRest, OneCode, OneId, OneKeyPerPad
<1>2. PadsTold' BY DEF DeviceRest, PadsTold, Reading
<1>3. OneReader' BY DEF DeviceRest, OneReader, Reading
<1>4. Unspent' BY DEF DeviceRest, Unspent, Reading
<1>5. Consumed'
  <2> SUFFICES ASSUME NEW k \in keys', NEW c \in codes', c.pad = k.from, k.from \notin shared'
               PROVE \E t \in Televisions : exchange'[t].pc = "drop" /\ exchange'[t].pad.pad = k.from
    BY DEF Consumed
  <2>1. PICK t \in Televisions : exchange[t].pc = "drop" /\ exchange[t].pad.pad = k.from BY DEF DeviceRest, Consumed
  <2> QED BY <2>1 DEF Reading
<1> QED BY <1>1, <1>2, <1>3, <1>4, <1>5 DEF DeviceRest

LEMMA DevicesInitially == DevicesInit => DeviceInv
<1> SUFFICES ASSUME DevicesInit PROVE DeviceInv OBVIOUS
<1>1. \A t \in Televisions : exchange[t] = NoExchange BY DEF DevicesInit
<1>2. DeviceShape BY <1>1, DevicesAssumption DEF DevicesInit, DeviceShape, Reading, NoAsk, NoExchange, NoJob, Pads
<1>3. DeviceRest
  BY <1>1 DEF DevicesInit, DeviceRest, OneCode, OneId, PadsTold, OneReader, Unspent, Consumed, OneKeyPerPad, Reading, NoExchange
<1> QED BY <1>2, <1>3 DEF DeviceInv
-----------------------------------------------------------------------------
(* Asking for a code, up to storing it.                                    *)
LEMMA AskStep ==
  ASSUME DeviceInv, NEW u \in Viewers, AskCode(u) \/ Purge(u) \/ PickCode(u)
  PROVE DeviceInv'
<1>1. DeviceShape'
  <2>1. CASE AskCode(u) BY <2>1 DEF DeviceInv, DeviceShape, AskCode, AskGoto, Reading, Pads
  <2>2. CASE Purge(u) BY <2>2 DEF DeviceInv, DeviceShape, Purge, AskGoto, Reading, Pads
  <2>3. CASE PickCode(u) BY <2>3 DEF DeviceInv, DeviceShape, PickCode, NoAsk, Reading, Pads
  <2> QED BY <2>1, <2>2, <2>3
<1>2. /\ codes' \subseteq codes /\ keys' = keys /\ shared' = shared /\ exchange' = exchange
  BY DEF AskCode, Purge, PickCode
<1> QED BY <1>1, <1>2, DevicesCalm DEF DeviceInv, Reading

(* The moderator's list, the reconcile job and keys taken back.            *)
LEMMA BanStep ==
  ASSUME DeviceInv, \/ \E u \in Viewers : BanElsewhere(u) \/ BanHere(u) \/ Pardon(u)
               \/ Revoke \/ BanRevokes \/ Holders \/ BanList \/ NoList \/ RevokeAll
  PROVE DeviceInv'
<1>1. /\ codes' = codes /\ keys' \subseteq keys /\ shared' = shared /\ exchange' = exchange
      /\ grants' = grants /\ asking' = asking
  BY DEF BanElsewhere, BanHere, Pardon, Revoke, BanRevokes, Holders, BanList, NoList, RevokeAll, KeysOf
<1>2. reconcile' \in [pc : {"idle", "list", "revoke"}, users : SUBSET Viewers]
  <2>1. reconcile' = reconcile \/ Holders \/ BanList \/ NoList \/ RevokeAll
    BY DEF BanElsewhere, BanHere, Pardon, Revoke, BanRevokes
  <2>2. CASE Holders BY <2>2 DEF DeviceInv, DeviceShape, Holders
  <2>3. CASE BanList BY <2>3 DEF DeviceInv, DeviceShape, BanList
  <2>4. CASE NoList BY <2>4 DEF NoList, NoJob
  <2>5. CASE RevokeAll BY <2>5 DEF DeviceInv, DeviceShape, RevokeAll, NoJob
  <2> QED BY <2>1, <2>2, <2>3, <2>4, <2>5 DEF DeviceInv, DeviceShape
<1>3. DeviceShape' BY <1>1, <1>2 DEF DeviceInv, DeviceShape, Reading, Pads
<1> QED BY <1>1, <1>3, DevicesCalm DEF DeviceInv, Reading

LEMMA StartExchange ==
  ASSUME DeviceInv, NEW t \in Televisions, Exchange(t)
  PROVE DeviceInv'
<1>1. exchange' = [exchange EXCEPT ![t] = [pc |-> "valid", pad |-> exchange[t].pad]]
  <2>1. exchange[t] = [pc |-> exchange[t].pc, pad |-> exchange[t].pad] BY DEF DeviceInv, DeviceShape
  <2>2. [exchange[t] EXCEPT !.pc = "valid"] = [pc |-> "valid", pad |-> exchange[t].pad] BY <2>1
  <2> QED BY <2>2 DEF Exchange
<1>2. DeviceShape' BY <1>1 DEF DeviceInv, DeviceShape, Exchange, Reading, Pads
<1>3. \A s \in Televisions : Reading(s) \/ Reading(s)' => exchange'[s] = exchange[s]
  BY <1>1 DEF DeviceInv, DeviceShape, Exchange, Reading
<1>4. codes' \subseteq codes /\ keys' = keys /\ shared' = shared BY DEF Exchange
<1> QED BY <1>2, <1>3, <1>4, DevicesCalm DEF DeviceInv

(* A pad gets a number no other has had.                                   *)
LEMMA StoreStep ==
  ASSUME DeviceInv, NEW u \in Viewers, StoreCode(u)
  PROVE DeviceInv'
<1> DEFINE c == asking[u].code
           new == [code |-> c, user |-> u, stale |-> FALSE, pad |-> grants + 1]
<1>1. CASE \E d \in codes : d.code = c
  <2>1. /\ codes' = codes /\ keys' = keys /\ shared' = shared /\ exchange' = exchange
        /\ grants' = grants /\ reconcile' = reconcile /\ asking' = [asking EXCEPT ![u] = NoAsk]
    BY <1>1 DEF StoreCode
  <2>2. DeviceShape' BY <2>1 DEF DeviceInv, DeviceShape, NoAsk, Reading, Pads
  <2> QED BY <2>1, <2>2, DevicesCalm DEF DeviceInv, Reading
<1>2. CASE ~\E d \in codes : d.code = c
  <2>1. /\ codes' = codes \cup {new} /\ keys' = keys /\ shared' = shared /\ exchange' = exchange
        /\ grants' = grants + 1 /\ reconcile' = reconcile /\ asking' = [asking EXCEPT ![u] = NoAsk]
    BY <1>2 DEF StoreCode
  <2>2. c \in Codes /\ grants \in Nat BY DEF StoreCode, DeviceInv, DeviceShape
  <2>3. Pads \subseteq Pads' /\ new \in Pads' BY <2>1, <2>2 DEF Pads
  <2>4. DeviceShape'
    <3>1. grants' \in Nat /\ codes' \subseteq Pads'
      <4> HIDE DEF new
      <4>1. codes \subseteq Pads BY DEF DeviceInv, DeviceShape
      <4> QED BY <2>1, <2>2, <2>3, <4>1
    <3>2. keys' \subseteq [id : 1 .. MaxKeys, user : Viewers, from : 1 .. grants']
      BY <2>1, <2>2 DEF DeviceInv, DeviceShape
    <3>3. /\ asking' \in [Viewers -> [pc : {"idle", "purge", "pick", "store"}, code : Codes \cup {0}]]
          /\ \A v \in Viewers : asking'[v].pc = "store" => asking'[v].code \in Codes
      BY <2>1 DEF DeviceInv, DeviceShape, NoAsk
    <3>4. /\ exchange' \in [Televisions -> [pc : {"idle", "valid", "key", "drop"}, pad : Pads' \cup {0}]]
          /\ \A t \in Televisions : Reading(t)' => exchange'[t].pad \in Pads' /\ ~exchange'[t].pad.stale
      BY <2>1, <2>3 DEF DeviceInv, DeviceShape, Reading
    <3> QED BY <2>1, <3>1, <3>2, <3>3, <3>4 DEF DeviceInv, DeviceShape
  <2>5. /\ \A d \in codes : d.pad # new.pad
        /\ \A t \in Televisions : Reading(t) => exchange[t].pad.pad # new.pad
        /\ \A k \in keys : k.from # new.pad
    BY <2>2 DEF DeviceInv, DeviceShape, Pads
  <2>6. OneCode' /\ OneId' /\ OneKeyPerPad'
    <3>1. OneCode'
      <4>1. new.code = c OBVIOUS
      <4> HIDE DEF new, c
      <4>2. \A d \in codes : d.code # new.code BY <1>2, <4>1
      <4> QED BY <2>1, <4>2 DEF DeviceInv, DeviceRest, OneCode
    <3> QED BY <2>1, <3>1 DEF DeviceInv, DeviceRest, OneId, OneKeyPerPad
  <2>7. PadsTold' BY <2>1, <2>5 DEF DeviceInv, DeviceRest, PadsTold, Reading
  <2>8. OneReader' /\ Unspent' BY <2>1 DEF DeviceInv, DeviceRest, OneReader, Unspent, Reading
  <2>9. Consumed' BY <2>1, <2>5 DEF DeviceInv, DeviceRest, Consumed
  <2> QED BY <2>4, <2>6, <2>7, <2>8, <2>9 DEF DeviceInv, DeviceRest
<1> QED BY <1>1, <1>2

(* A pad that ages keeps its code, its user and its number.                *)
LEMMA AgeStep ==
  ASSUME DeviceInv, Age
  PROVE DeviceInv'
<1>1. PICK c \in codes : ~c.stale /\ codes' = (codes \ {c}) \cup {[c EXCEPT !.stale = TRUE]} BY DEF Age
<1> DEFINE old == [c EXCEPT !.stale = TRUE]
<1>2. /\ keys' = keys /\ shared' = shared /\ exchange' = exchange
      /\ grants' = grants /\ reconcile' = reconcile /\ asking' = asking
  BY DEF Age
<1>3. c \in Pads BY DEF DeviceInv, DeviceShape
<1>4. old \in Pads /\ old.code = c.code /\ old.user = c.user /\ old.pad = c.pad BY <1>3 DEF Pads
<1> HIDE DEF old
<1>5. \A d \in codes' : \E e \in codes : /\ e.code = d.code /\ e.user = d.user /\ e.pad = d.pad
                                         /\ d = (IF e = c THEN old ELSE e)
  BY <1>1, <1>4 DEF old
<1>6. DeviceShape' BY <1>1, <1>2, <1>4 DEF DeviceInv, DeviceShape, Reading, Pads, old
<1>7. OneCode' /\ OneId' /\ OneKeyPerPad' BY <1>2, <1>5 DEF DeviceInv, DeviceRest, OneCode, OneId, OneKeyPerPad
<1>8. PadsTold' BY <1>2, <1>5 DEF DeviceInv, DeviceRest, PadsTold, Reading
<1>9. OneReader' /\ Unspent' BY <1>2 DEF DeviceInv, DeviceRest, OneReader, Unspent, Reading
<1>10. Consumed'
  <2> SUFFICES ASSUME NEW k \in keys, NEW d \in codes', d.pad = k.from, k.from \notin shared
               PROVE \E t \in Televisions : exchange[t].pc = "drop" /\ exchange[t].pad.pad = k.from
    BY <1>2 DEF Consumed
  <2> QED BY <1>5 DEF DeviceInv, DeviceRest, Consumed
<1> QED BY <1>6, <1>7, <1>8, <1>9, <1>10 DEF DeviceInv, DeviceRest
-----------------------------------------------------------------------------
(* Who reads a pad that another holds shares it; if the pad has yielded a  *)
(* key already, whoever is about to consume it is that other.              *)
LEMMA ReadStep ==
  ASSUME DeviceInv, NEW t \in Televisions, Valid(t)
  PROVE DeviceInv'
<1>1. CASE exchange' = [exchange EXCEPT ![t] = NoExchange] /\ shared' = shared
  <2>1. codes' = codes /\ keys' = keys /\ grants' = grants /\ asking' = asking /\ reconcile' = reconcile
    BY DEF Valid
  <2>2. DeviceShape' BY <1>1, <2>1 DEF DeviceInv, DeviceShape, NoExchange, Reading, Pads
  <2>3. \A s \in Televisions : Reading(s) \/ Reading(s)' => exchange'[s] = exchange[s]
    BY <1>1 DEF DeviceInv, DeviceShape, Valid, Reading, NoExchange
  <2> QED BY <1>1, <2>1, <2>2, <2>3, DevicesCalm DEF DeviceInv
<1>2. CASE \E c \in codes :
          /\ ~c.stale /\ exchange' = [exchange EXCEPT ![t] = [pc |-> "key", pad |-> c]]
          /\ shared' = IF \E s \in Televisions : exchange[s].pc \in {"key", "drop"} /\ exchange[s].pad = c
                       THEN shared \cup {c.pad} ELSE shared
  <2>1. PICK c \in codes :
          /\ ~c.stale /\ exchange' = [exchange EXCEPT ![t] = [pc |-> "key", pad |-> c]]
          /\ shared' = IF \E s \in Televisions : exchange[s].pc \in {"key", "drop"} /\ exchange[s].pad = c
                       THEN shared \cup {c.pad} ELSE shared
    BY <1>2
  <2>2. codes' = codes /\ keys' = keys /\ grants' = grants /\ asking' = asking /\ reconcile' = reconcile
    BY DEF Valid
  <2>3. exchange[t].pc = "valid" /\ ~Reading(t) BY DEF Valid, Reading
  <2>4. exchange'[t] = [pc |-> "key", pad |-> c] /\ \A s \in Televisions \ {t} : exchange'[s] = exchange[s]
    BY <2>1 DEF DeviceInv, DeviceShape
  <2>5. DeviceShape' BY <2>1, <2>2, <2>4 DEF DeviceInv, DeviceShape, Reading, Pads
  <2>6. \A s \in Televisions : Reading(s) /\ exchange[s].pad.pad = c.pad => exchange[s].pad = c
    <3> SUFFICES ASSUME NEW s \in Televisions, Reading(s), exchange[s].pad.pad = c.pad PROVE exchange[s].pad = c
      OBVIOUS
    <3>1. exchange[s].pad \in Pads /\ c \in Pads /\ ~exchange[s].pad.stale BY DEF DeviceInv, DeviceShape
    <3>2. exchange[s].pad.code = c.code /\ exchange[s].pad.user = c.user BY DEF DeviceInv, DeviceRest, PadsTold
    <3> QED BY <2>1, <3>1, <3>2 DEF Pads
  <2>7. shared \subseteq shared' /\ \A s \in Televisions : Reading(s) /\ exchange[s].pad.pad = c.pad => c.pad \in shared'
    BY <2>1, <2>6 DEF Reading
  <2>8. OneCode' /\ OneId' /\ OneKeyPerPad' BY <2>2, <2>7 DEF DeviceInv, DeviceRest, OneCode, OneId, OneKeyPerPad
  <2>9. PadsTold'
    <3>1. \A s \in Televisions, d \in codes : Reading(s)' /\ exchange'[s].pad.pad = d.pad
            => exchange'[s].pad.code = d.code /\ exchange'[s].pad.user = d.user
      BY <2>3, <2>4 DEF DeviceInv, DeviceRest, PadsTold, Reading
    <3>2. \A r, s \in Televisions : Reading(r)' /\ Reading(s)' /\ exchange'[r].pad.pad = exchange'[s].pad.pad
            => exchange'[r].pad = exchange'[s].pad
      BY <2>3, <2>4, <2>6 DEF DeviceInv, DeviceRest, PadsTold, Reading
    <3> QED BY <2>2, <3>1, <3>2 DEF DeviceInv, DeviceRest, PadsTold
  <2>10. OneReader' BY <2>3, <2>4, <2>7 DEF DeviceInv, DeviceRest, OneReader, Reading
  <2>11. Unspent'
    <3> SUFFICES ASSUME NEW s \in Televisions, NEW k \in keys, exchange'[s].pc = "key", exchange'[s].pad.pad = k.from
                 PROVE k.from \in shared'
      BY <2>2 DEF Unspent
    <3>1. CASE s # t BY <3>1, <2>4, <2>7 DEF DeviceInv, DeviceRest, Unspent
    <3>2. CASE s = t
      <4>1. c.pad = k.from BY <3>2, <2>4
      <4>2. k.from \in shared \/ \E r \in Televisions : exchange[r].pc = "drop" /\ exchange[r].pad.pad = k.from
        BY <4>1 DEF DeviceInv, DeviceRest, Consumed
      <4> QED BY <4>1, <4>2, <2>7 DEF Reading
    <3> QED BY <3>1, <3>2
  <2>12. Consumed'
    <3> SUFFICES ASSUME NEW k \in keys, NEW d \in codes, d.pad = k.from, k.from \notin shared'
                 PROVE \E s \in Televisions : exchange'[s].pc = "drop" /\ exchange'[s].pad.pad = k.from
      BY <2>2 DEF Consumed
    <3>1. PICK s \in Televisions : exchange[s].pc = "drop" /\ exchange[s].pad.pad = k.from
      BY <2>7 DEF DeviceInv, DeviceRest, Consumed
    <3> QED BY <3>1, <2>3, <2>4
  <2> QED BY <2>5, <2>8, <2>9, <2>10, <2>11, <2>12 DEF DeviceInv, DeviceRest
<1> QED BY <1>1, <1>2 DEF Valid

LEMMA KeyStep ==
  ASSUME DeviceInv, NEW t \in Televisions, MakeKey(t)
  PROVE DeviceInv'
<1> DEFINE c == exchange[t].pad
           free == {i \in 1 .. MaxKeys : \A k \in keys : k.id # i}
           least == CHOOSE i \in free : \A j \in free : i <= j
           new == [id |-> least, user |-> c.user, from |-> c.pad]
<1>1. /\ keys' = keys \cup {new} /\ free # {} /\ exchange' = [exchange EXCEPT ![t].pc = "drop"]
      /\ codes' = codes /\ grants' = grants /\ asking' = asking /\ reconcile' = reconcile /\ shared' = shared
  BY DEF MakeKey
<1>2. least \in free
  <2>1. free \subseteq Nat BY DevicesAssumption
  <2>2. \E i \in free : \A j \in free : i <= j
    <3> HIDE DEF free
    <3> QED BY <1>1, <2>1, NatMin
  <2> HIDE DEF free
  <2> QED BY <2>2
<1>3. least \in 1 .. MaxKeys /\ \A k \in keys : k.id # least BY <1>2
<1>4. exchange[t].pc = "key" /\ c \in Pads BY DEF MakeKey, DeviceInv, DeviceShape, Reading
<1> HIDE DEF least
<1>5. new \in [id : 1 .. MaxKeys, user : Viewers, from : 1 .. grants] BY <1>3, <1>4 DEF Pads
<1>6. new.id = least /\ new.from = c.pad OBVIOUS
<1>7. exchange'[t] = [pc |-> "drop", pad |-> c] /\ \A s \in Televisions \ {t} : exchange'[s] = exchange[s]
  <2>1. exchange[t] = [pc |-> exchange[t].pc, pad |-> exchange[t].pad] BY DEF DeviceInv, DeviceShape
  <2>2. [exchange[t] EXCEPT !.pc = "drop"] = [pc |-> "drop", pad |-> c] BY <2>1
  <2> QED BY <1>1, <2>2 DEF DeviceInv, DeviceShape
<1>8. \A s \in Televisions : (Reading(s)' <=> Reading(s)) /\ exchange'[s].pad = exchange[s].pad
  BY <1>4, <1>7 DEF Reading
<1> HIDE DEF new
<1>9. DeviceShape'
  <2>1. exchange' \in [Televisions -> [pc : {"idle", "valid", "key", "drop"}, pad : Pads \cup {0}]]
    BY <1>1, <1>4, <1>7 DEF DeviceInv, DeviceShape
  <2>2. Pads' = Pads BY <1>1 DEF Pads
  <2> QED BY <1>1, <1>5, <1>8, <2>1, <2>2 DEF DeviceInv, DeviceShape
<1>10. OneCode' /\ OneId' BY <1>1, <1>3, <1>6 DEF DeviceInv, DeviceRest, OneCode, OneId
<1>11. PadsTold' BY <1>1, <1>8 DEF DeviceInv, DeviceRest, PadsTold
<1>12. OneReader' BY <1>1, <1>8 DEF DeviceInv, DeviceRest, OneReader
<1>13. Unspent'
  <2> SUFFICES ASSUME NEW s \in Televisions, NEW k \in keys', exchange'[s].pc = "key", exchange'[s].pad.pad = k.from
               PROVE k.from \in shared
    BY <1>1 DEF Unspent
  <2>1. s # t /\ exchange[s].pc = "key" /\ exchange[s].pad.pad = k.from BY <1>7
  <2>2. CASE k \in keys BY <2>1, <2>2 DEF DeviceInv, DeviceRest, Unspent
  <2>3. CASE k = new BY <2>1, <2>3, <1>4, <1>6 DEF DeviceInv, DeviceRest, OneReader, Reading
  <2> QED BY <2>2, <2>3, <1>1
<1>14. Consumed'
  <2> SUFFICES ASSUME NEW k \in keys', NEW d \in codes, d.pad = k.from, k.from \notin shared
               PROVE \E s \in Televisions : exchange'[s].pc = "drop" /\ exchange'[s].pad.pad = k.from
    BY <1>1 DEF Consumed
  <2>1. CASE k = new BY <2>1, <1>6, <1>7
  <2>2. CASE k \in keys
    <3>1. PICK s \in Televisions : exchange[s].pc = "drop" /\ exchange[s].pad.pad = k.from
      BY <2>2 DEF DeviceInv, DeviceRest, Consumed
    <3> QED BY <3>1, <1>4, <1>7
  <2> QED BY <2>1, <2>2, <1>1
<1>15. OneKeyPerPad'
  <2>1. \A k \in keys : k.from = new.from => k.from \in shared
    BY <1>4, <1>6 DEF DeviceInv, DeviceRest, Unspent
  <2> QED BY <1>1, <2>1 DEF DeviceInv, DeviceRest, OneKeyPerPad
<1> QED BY <1>9, <1>10, <1>11, <1>12, <1>13, <1>14, <1>15 DEF DeviceInv, DeviceRest

(* Consuming a pad: the row goes by its code, which is that of the pad.    *)
LEMMA DropStep ==
  ASSUME DeviceInv, NEW t \in Televisions, DropCode(t)
  PROVE DeviceInv'
<1>1. /\ codes' = {c \in codes : c.code # exchange[t].pad.code} /\ keys' = keys /\ grants' = grants
      /\ asking' = asking /\ reconcile' = reconcile /\ shared' = shared /\ exchange[t].pc = "drop"
      /\ exchange' = [exchange EXCEPT ![t] = NoExchange]
  BY DEF DropCode
<1>2. exchange'[t] = NoExchange /\ \A s \in Televisions \ {t} : exchange'[s] = exchange[s]
  BY <1>1 DEF DeviceInv, DeviceShape
<1>3. DeviceShape' BY <1>1, <1>2 DEF DeviceInv, DeviceShape, NoExchange, Reading, Pads
<1>4. ~Reading(t)' BY <1>2 DEF Reading, NoExchange
<1>5. OneCode' /\ OneId' /\ OneKeyPerPad' BY <1>1 DEF DeviceInv, DeviceRest, OneCode, OneId, OneKeyPerPad
<1>6. PadsTold' BY <1>1, <1>2, <1>4 DEF DeviceInv, DeviceRest, PadsTold, Reading
<1>7. OneReader' BY <1>1, <1>2, <1>4 DEF DeviceInv, DeviceRest, OneReader, Reading
<1>8. Unspent' BY <1>1, <1>2, <1>4 DEF DeviceInv, DeviceRest, Unspent, Reading
<1>9. Consumed'
  <2> SUFFICES ASSUME NEW k \in keys, NEW c \in codes', c.pad = k.from, k.from \notin shared
               PROVE \E s \in Televisions : exchange'[s].pc = "drop" /\ exchange'[s].pad.pad = k.from
    BY <1>1 DEF Consumed
  <2>1. PICK s \in Televisions : exchange[s].pc = "drop" /\ exchange[s].pad.pad = k.from
    BY <1>1 DEF DeviceInv, DeviceRest, Consumed
  <2>2. exchange[s].pad.code = c.code BY <1>1, <2>1 DEF DeviceInv, DeviceRest, PadsTold, Reading
  <2>3. s # t BY <1>1, <2>2
  <2> QED BY <1>2, <2>1, <2>3
<1> QED BY <1>3, <1>5, <1>6, <1>7, <1>8, <1>9 DEF DeviceInv, DeviceRest

LEMMA CrashStep ==
  ASSUME DeviceInv, DevicesCrash
  PROVE DeviceInv'
<1>1. /\ codes' = codes /\ keys' = keys /\ grants' = grants /\ reconcile' = NoJob
      /\ asking' = [u \in Viewers |-> NoAsk] /\ exchange' = [t \in Televisions |-> NoExchange]
      /\ shared' = shared \cup {exchange[t].pad.pad : t \in {s \in Televisions : exchange[s].pc \in {"key", "drop"}}}
  BY DEF DevicesCrash
<1>2. \A t \in Televisions : ~Reading(t)' BY <1>1 DEF Reading, NoExchange
<1>3. DeviceShape' BY <1>1, <1>2 DEF DeviceInv, DeviceShape, NoAsk, NoExchange, NoJob, Pads
<1>4. OneCode' /\ OneId' /\ OneKeyPerPad' BY <1>1 DEF DeviceInv, DeviceRest, OneCode, OneId, OneKeyPerPad
<1>5. PadsTold' BY <1>1, <1>2 DEF DeviceInv, DeviceRest, PadsTold
<1>6. OneReader' /\ Unspent' BY <1>2 DEF OneReader, Unspent, Reading
<1>7. Consumed' BY <1>1 DEF DeviceInv, DeviceRest, Consumed
<1> QED BY <1>3, <1>4, <1>5, <1>6, <1>7 DEF DeviceInv, DeviceRest

LEMMA DeviceInductive == DeviceInv /\ [DevicesNext]_deviceVars => DeviceInv'
<1> SUFFICES ASSUME DeviceInv, [DevicesNext]_deviceVars PROVE DeviceInv' OBVIOUS
<1>1. CASE UNCHANGED deviceVars
  BY <1>1 DEF deviceVars, DeviceInv, DeviceShape, DeviceRest, OneCode, OneId, PadsTold, OneReader, Unspent, Consumed, OneKeyPerPad, Reading, Pads
<1>2. CASE DevicesNext
  BY <1>2, AskStep, BanStep, StartExchange, StoreStep, AgeStep, ReadStep, KeyStep, DropStep, CrashStep DEF DevicesNext
<1> QED BY <1>1, <1>2

(* A pad yields one key, unless two exchanges of it overlap or a crash     *)
(* falls between the key and the consumption.                              *)
THEOREM DevicesSafeCorrect == DevicesSpec => []DevicesSafe
<1>1. DeviceInv => DevicesSafe
  BY DEF DeviceInv, DeviceShape, DeviceRest, OneCode, OneId, DevicesSafe, DevicesType
<1> QED BY <1>1, DevicesInitially, DeviceInductive, PTL DEF DevicesSpec
-----------------------------------------------------------------------------
(***************************************************************************)
(* Requests of one key.  The windows see in the deque what they would see  *)
(* in all that was let through, because what left it is older than the     *)
(* longest of them.                                                        *)
(***************************************************************************)
\* What the deque has of what was let through: all of it but a first part that
\* is older than every window.
LimitInv ==
  /\ clock \in 0 .. MaxClock /\ admitted \in Seq(0 .. MaxClock) /\ events \in Seq(0 .. MaxClock)
  /\ refused \in Tiers \cup {Granted}
  /\ Len(events) <= Len(admitted)
  /\ \A i \in 1 .. Len(events) : events[i] = admitted[Len(admitted) - Len(events) + i]
  /\ \A i \in 1 .. Len(admitted) - Len(events) : admitted[i] < clock - Longest
  /\ \A i, j \in 1 .. Len(admitted) : i < j => admitted[i] <= admitted[j]
  /\ \A i \in 1 .. Len(admitted) : admitted[i] <= clock
  /\ WithinEvery /\ RefusedFairly

LEMMA Elements ==
  ASSUME NEW s \in Seq(0 .. MaxClock)
  PROVE  Len(s) \in Nat /\ DOMAIN s = 1 .. Len(s) /\ (\A i \in 1 .. Len(s) : s[i] \in Nat /\ s[i] \in Int) /\ s \in Seq(Nat)
<1>1. Len(s) \in Nat /\ DOMAIN s = 1 .. Len(s) /\ \A i \in 1 .. Len(s) : s[i] \in 0 .. MaxClock
  BY LenProperties, ElementOfSeq
<1>2. \A i \in 1 .. Len(s) : s[i] \in Nat
  BY <1>1, LimitsAssumption
<1>. QED  BY <1>1, <1>2, SeqDef

LEMMA LongestIs == Longest \in Nat /\ \A t \in Tiers : t.window <= Longest
<1>. DEFINE W == {t.window : t \in Tiers}
            f == [t \in Tiers |-> t.window]
<1>1. IsFiniteSet({f[t] : t \in Tiers})
  <2>. HIDE DEF f
  <2>1. f = [x \in Tiers |-> f[x]]
    BY DEF f
  <2>. QED  BY <2>1, FiniteImage, LimitsAssumption
<1>2. W \subseteq Nat /\ W # {} /\ IsFiniteSet(W)
  <2>1. W = {f[t] : t \in Tiers}
    OBVIOUS
  <2>. QED  BY <1>1, <2>1, LimitsAssumption
<1>. HIDE DEF W
<1>3. PICK x \in W : \A y \in W : x >= y
  BY <1>2, NatMax
<1>4. \A t \in Tiers : t.window \in W
  BY DEF W
<1>5. x \in {t.window : t \in Tiers} /\ \A t \in Tiers : t.window <= x
  <2>. SUFFICES ASSUME NEW t \in Tiers PROVE t.window <= x /\ x \in W
    BY <1>3 DEF W
  <2>. QED  BY <1>2, <1>3, <1>4
<1>6. Longest \in {t.window : t \in Tiers} /\ \A t \in Tiers : t.window <= Longest
  BY <1>5 DEF Longest
<1>. QED  BY <1>2, <1>6 DEF W

\* What is kept of a deque is the rest of it, and what goes is older than every
\* window.
LEMMA KeptIs ==
  ASSUME NEW es \in Seq(0 .. MaxClock), clock \in 0 .. MaxClock
  PROVE  \E n \in 0 .. Len(es) :
            /\ Kept(es) \in Seq(0 .. MaxClock) /\ Len(Kept(es)) = Len(es) - n
            /\ \A i \in 1 .. Len(es) - n : Kept(es)[i] = es[n + i]
            /\ \A i \in 1 .. n : es[i] < clock - Longest
<1>. DEFINE Old(n) == (\A i \in 1 .. n : es[i] < clock - Longest) /\ (n < Len(es) => es[n + 1] >= clock - Longest)
            T == {n \in Nat : n >= Len(es) \/ (n < Len(es) /\ es[n + 1] >= clock - Longest)}
            gone == CHOOSE n \in 0 .. Len(es) : Old(n)
<1>1. Longest \in Nat /\ clock \in Int /\ Len(es) \in Nat /\ \A i \in 1 .. Len(es) : es[i] \in Int
  BY LongestIs, Elements, LimitsAssumption
<1>2. \E n \in 0 .. Len(es) : Old(n)
  <2>1. Len(es) \in T /\ T \subseteq Nat
    BY <1>1
  <2>. HIDE DEF T
  <2>2. PICK n \in T : \A m \in T : n <= m
    BY <2>1, NatMin
  <2>3. n \in 0 .. Len(es)
    BY <1>1, <2>1, <2>2
  <2>4. ASSUME NEW i \in 1 .. n PROVE es[i] < clock - Longest
    <3>1. i - 1 \notin T /\ i - 1 \in Nat /\ i - 1 < Len(es)
      BY <1>1, <2>1, <2>2, <2>3
    <3>2. ~(es[(i - 1) + 1] >= clock - Longest)
      BY <3>1 DEF T
    <3>3. (i - 1) + 1 = i /\ i \in 1 .. Len(es)
      BY <1>1, <2>3
    <3>. QED  BY <1>1, <3>2, <3>3
  <2>5. n < Len(es) => es[n + 1] >= clock - Longest
    BY <1>1, <2>1, <2>2 DEF T
  <2>. QED  BY <2>3, <2>4, <2>5
<1>3. gone \in 0 .. Len(es) /\ Old(gone)
  <2>. HIDE DEF Old
  <2>. QED  BY <1>2
<1>4. Kept(es) = SubSeq(es, gone + 1, Len(es))
  BY DEF Kept
<1>. HIDE DEF gone
<1>5. /\ Kept(es) \in Seq(0 .. MaxClock) /\ Len(Kept(es)) = Len(es) - gone
      /\ \A i \in 1 .. Len(es) - gone : Kept(es)[i] = es[gone + i]
  <2>1. /\ gone + 1 \in Int /\ gone \in Nat /\ Len(es) \in Int /\ Len(es) - (gone + 1) + 1 = Len(es) - gone
        /\ \A i \in Int : (gone + 1) + i - 1 = gone + i
    BY <1>1, <1>3
  <2>2. \A i \in gone + 1 .. Len(es) : i \in 1 .. Len(es)
    BY <1>1, <1>3
  <2>3. \A i \in gone + 1 .. Len(es) : es[i] \in 0 .. MaxClock
    BY <2>2, ElementOfSeq
  <2>4. /\ Kept(es) \in Seq(0 .. MaxClock)
        /\ Len(Kept(es)) = IF gone + 1 <= Len(es) THEN Len(es) - (gone + 1) + 1 ELSE 0
        /\ \A i \in 1 .. Len(es) - (gone + 1) + 1 : Kept(es)[i] = es[(gone + 1) + i - 1]
    <3>1. PICK m \in Int : m = gone + 1
      BY <2>1
    <3>2. \A i \in m .. Len(es) : es[i] \in 0 .. MaxClock
      BY <2>3, <3>1
    <3>3. SubSeq(es, m, Len(es)) \in Seq(0 .. MaxClock)
      BY <2>1, <3>2, SubSeqProperties
    <3>4. Len(SubSeq(es, m, Len(es))) = IF m <= Len(es) THEN Len(es) - m + 1 ELSE 0
      BY <2>1, <3>2, SubSeqProperties
    <3>5. \A i \in 1 .. Len(es) - m + 1 : SubSeq(es, m, Len(es))[i] = es[m + i - 1]
      BY <2>1, <3>2, SubSeqProperties
    <3>. QED  BY <1>4, <3>1, <3>3, <3>4, <3>5
  <2>5. Len(Kept(es)) = Len(es) - gone
    BY <1>1, <1>3, <2>4
  <2>6. \A i \in 1 .. Len(es) - gone : Kept(es)[i] = es[gone + i]
    <3>. SUFFICES ASSUME NEW i \in 1 .. Len(es) - gone PROVE Kept(es)[i] = es[gone + i]
      OBVIOUS
    <3>1. i \in 1 .. Len(es) - (gone + 1) + 1 /\ i \in Int
      BY <2>1
    <3>2. Kept(es)[i] = es[(gone + 1) + i - 1] /\ (gone + 1) + i - 1 = gone + i
      BY <2>1, <2>4, <3>1
    <3>. QED  BY <3>2
  <2>. QED  BY <2>4, <2>5, <2>6
<1>. QED  BY <1>3, <1>5

\* The windows see in the deque what they would see in all that was let through.
LEMMA SameCount ==
  ASSUME NEW a \in Seq(Nat), NEW e \in Seq(Nat), Len(e) <= Len(a), NEW from \in Int,
         \A i \in 1 .. Len(e) : e[i] = a[Len(a) - Len(e) + i],
         \A i \in 1 .. Len(a) - Len(e) : a[i] < from
  PROVE  /\ Cardinality({i \in DOMAIN e : e[i] >= from}) = Cardinality({i \in 1 .. Len(a) : a[i] >= from})
         /\ Cardinality({i \in 1 .. Len(a) : a[i] >= from}) \in Nat /\ IsFiniteSet({i \in 1 .. Len(a) : a[i] >= from})
<1>. DEFINE k == Len(a) - Len(e)
            A == {i \in 1 .. Len(a) : a[i] >= from}
            E == {i \in 1 .. Len(e) : e[i] >= from}
            f == [i \in E |-> k + i]
<1>1. k \in Nat /\ Len(a) \in Nat /\ Len(e) \in Nat /\ k + Len(e) = Len(a)
  OBVIOUS
<1>2. (\A i \in 1 .. Len(e) : e[i] = a[k + i] /\ e[i] \in Nat) /\ \A i \in 1 .. Len(a) : a[i] \in Nat
  OBVIOUS
<1>3. \A i \in 1 .. k : a[i] < from
  OBVIOUS
<1>. HIDE DEF k
<1>4. f \in Bijection(E, A)
  <2>1. f \in [E -> A]
    <3>. SUFFICES ASSUME NEW i \in E PROVE k + i \in A
      OBVIOUS
    <3>1. i \in 1 .. Len(e) /\ e[i] >= from
      OBVIOUS
    <3>2. k + i \in 1 .. Len(a) /\ e[i] = a[k + i]
      BY <1>1, <1>2, <3>1
    <3>. QED  BY <3>1, <3>2
  <2>2. \A i, j \in E : f[i] = f[j] => i = j
    BY <1>1
  <2>3. \A j \in A : \E i \in E : f[i] = j
    <3>. SUFFICES ASSUME NEW j \in A PROVE \E i \in E : f[i] = j
      OBVIOUS
    <3>1. j \notin 1 .. k
      BY <1>1, <1>2, <1>3
    <3>2. j - k \in 1 .. Len(e) /\ k + (j - k) = j
      BY <1>1, <3>1
    <3>3. e[j - k] = a[j]
      BY <1>2, <3>2
    <3>4. j - k \in E
      BY <1>2, <3>2, <3>3
    <3>. QED  BY <1>1, <3>2, <3>4
  <2>. HIDE DEF f, E, A
  <2>. QED  BY <2>1, <2>2, <2>3 DEF Bijection, Injection, Surjection, IsInjective
<1>5. IsFiniteSet(E) /\ IsFiniteSet(A)
  <2>1. IsFiniteSet(1 .. Len(e)) /\ IsFiniteSet(1 .. Len(a))
    BY <1>1, FS_Interval
  <2>2. E \subseteq 1 .. Len(e) /\ A \subseteq 1 .. Len(a)
    OBVIOUS
  <2>. HIDE DEF E, A
  <2>. QED  BY <2>1, <2>2, FS_Subset
<1>6. Cardinality(E) = Cardinality(A)
  <2>. HIDE DEF f, E, A
  <2>1. ExistsBijection(E, A)
    BY <1>4 DEF ExistsBijection
  <2>. QED  BY <1>5, <2>1, FS_Bijection
<1>7. DOMAIN e = 1 .. Len(e)
  OBVIOUS
<1>8. Cardinality(A) \in Nat
  <2>. HIDE DEF A
  <2>. QED  BY <1>5, FS_CardinalityType
<1>. QED  BY <1>5, <1>6, <1>7, <1>8

LEMMA LimitsInitially == ASSUME LimitsInit PROVE LimitInv
<1>1. \A from, to \in Int : Within(from, to) = 0
  <2>. SUFFICES ASSUME NEW from \in Int, NEW to \in Int PROVE Within(from, to) = 0
    OBVIOUS
  <2>1. {i \in DOMAIN admitted : from <= admitted[i] /\ admitted[i] <= to} = {}
    BY DEF LimitsInit
  <2>. QED  BY <2>1, FS_EmptySet DEF Within
<1>2. WithinEvery
  <2>. SUFFICES ASSUME NEW t \in Tiers, NEW from \in 0 .. MaxClock PROVE Within(from, from + t.window) <= t.most
    BY DEF WithinEvery
  <2>. QED  BY <1>1, LimitsAssumption
<1>. QED  BY <1>2, LimitsAssumption DEF LimitsInit, LimitInv, RefusedFairly

LEMMA TickStep == ASSUME LimitInv, Tick PROVE LimitInv'
<1>1. WithinEvery'
  BY DEF LimitInv, Tick, WithinEvery, Within
<1>2. Longest \in Nat
  BY LongestIs
<1>3. Len(events) \in Nat /\ Len(admitted) \in Nat /\ \A i \in 1 .. Len(admitted) : admitted[i] \in Int
  BY Elements DEF LimitInv
<1>. QED  BY <1>1, <1>2, <1>3, LimitsAssumption DEF LimitInv, Tick, RefusedFairly

LEMMA RequestStep == ASSUME LimitInv, Request PROVE LimitInv'
<1>. DEFINE es == Kept(events)
            over == {t \in Tiers : Full(es, t)}
<1>1. /\ clock \in 0 .. MaxClock /\ MaxClock \in Nat /\ clock \in Int
      /\ admitted \in Seq(0 .. MaxClock) /\ events \in Seq(0 .. MaxClock)
      /\ Longest \in Nat /\ \A t \in Tiers : t.window <= Longest /\ t.most \in Nat /\ t.window \in Nat
  BY LongestIs, LimitsAssumption DEF LimitInv
<1>2. PICK n \in 0 .. Len(events) :
         /\ es \in Seq(0 .. MaxClock) /\ Len(es) = Len(events) - n
         /\ \A i \in 1 .. Len(events) - n : es[i] = events[n + i]
         /\ \A i \in 1 .. n : events[i] < clock - Longest
  BY <1>1, KeptIs
<1>3. /\ (over # {} => refused' \in over /\ events' = es /\ admitted' = admitted)
      /\ (over = {} => refused' = Granted /\ events' = Append(es, clock) /\ admitted' = Append(admitted, clock))
      /\ clock' = clock
  BY DEF Request
<1>. HIDE DEF es
<1>. DEFINE k == Len(admitted) - Len(es)
<1>4. /\ Len(es) \in Nat /\ Len(admitted) \in Nat /\ Len(events) \in Nat /\ Len(es) <= Len(admitted)
      /\ \A i \in 1 .. Len(es) : es[i] = admitted[k + i]
      /\ \A i \in 1 .. k : admitted[i] < clock - Longest
  <2>1. Len(es) \in Nat /\ Len(admitted) \in Nat /\ Len(events) \in Nat /\ Len(events) <= Len(admitted) /\ n \in Nat /\ n <= Len(events)
    BY <1>1, <1>2 DEF LimitInv
  <2>. DEFINE d == Len(admitted) - Len(events)
  <2>2. k = d + n /\ d \in Nat
    BY <1>2, <2>1
  <2>3. (\A i \in 1 .. Len(events) : events[i] = admitted[d + i]) /\ \A i \in 1 .. d : admitted[i] < clock - Longest
    BY DEF LimitInv
  <2>. HIDE DEF k, d
  <2>4. ASSUME NEW i \in 1 .. Len(es) PROVE es[i] = admitted[k + i]
    <3>1. es[i] = events[n + i] /\ n + i \in 1 .. Len(events) /\ d + (n + i) = k + i
      BY <1>2, <2>1, <2>2
    <3>. QED  BY <2>3, <3>1
  <2>5. ASSUME NEW i \in 1 .. k PROVE admitted[i] < clock - Longest
    <3>1. CASE i \in 1 .. d
      BY <2>3, <3>1
    <3>2. CASE i \notin 1 .. d
      <4>1. i - d \in 1 .. n /\ d + (i - d) = i /\ i - d \in 1 .. Len(events)
        BY <2>1, <2>2, <3>2
      <4>2. events[i - d] = admitted[d + (i - d)]
        BY <2>3, <4>1
      <4>3. events[i - d] < clock - Longest
        BY <1>2, <4>1
      <4>. QED  BY <4>1, <4>2, <4>3
    <3>. QED  BY <3>1, <3>2
  <2>. QED  BY <1>2, <2>1, <2>4, <2>5
<1>5. /\ \A i \in 1 .. Len(admitted) : admitted[i] <= clock /\ admitted[i] \in Nat /\ admitted[i] \in Int
      /\ \A i, j \in 1 .. Len(admitted) : i < j => admitted[i] <= admitted[j]
      /\ WithinEvery
  BY <1>1, Elements DEF LimitInv
<1>. DEFINE Since(from) == {i \in 1 .. Len(admitted) : admitted[i] >= from}
\* What the windows see.
<1>6. ASSUME NEW t \in Tiers
      PROVE  /\ Cardinality({i \in DOMAIN es : es[i] >= clock - t.window}) = Cardinality(Since(clock - t.window))
             /\ Cardinality(Since(clock - t.window)) \in Nat /\ IsFiniteSet(Since(clock - t.window))
  <2>1. admitted \in Seq(Nat) /\ es \in Seq(Nat) /\ clock - t.window \in Int
    BY <1>1, <1>2
  <2>2. ASSUME NEW i \in 1 .. k PROVE admitted[i] < clock - t.window
    <3>1. i \in 1 .. Len(admitted)
      BY <1>4
    <3>2. admitted[i] \in Int /\ admitted[i] < clock - Longest
      BY <1>4, <1>5, <3>1
    <3>3. clock - Longest <= clock - t.window /\ clock - Longest \in Int /\ clock - t.window \in Int
      BY <1>1
    <3>. QED  BY <3>2, <3>3
  <2>. QED  BY <1>4, <2>1, <2>2, SameCount
<1>7. CASE over # {}
  <2>1. refused' \in Tiers /\ Full(es, refused') /\ events' = es /\ admitted' = admitted /\ clock' = clock
    BY <1>3, <1>7
  <2>. DEFINE from == clock - refused'.window
  <2>2. Cardinality(Since(from)) >= refused'.most
    BY <1>6, <2>1 DEF Full
  <2>3. Within(clock - refused.window, clock)' = Cardinality(Since(from))
    <3>1. {i \in DOMAIN admitted : from <= admitted[i] /\ admitted[i] <= clock} = Since(from)
      <4>1. DOMAIN admitted = 1 .. Len(admitted) /\ from \in Int
        BY <1>1, <2>1, Elements
      <4>. QED  BY <1>1, <1>5, <4>1
    <3>. QED  BY <2>1, <3>1 DEF Within
  <2>4. RefusedFairly'
    BY <2>1, <2>2, <2>3 DEF RefusedFairly
  <2>5. WithinEvery'
    BY <1>5, <2>1 DEF WithinEvery, Within
  <2>. QED  BY <1>1, <1>2, <1>4, <1>5, <2>1, <2>4, <2>5 DEF LimitInv
<1>8. CASE over = {}
  <2>. DEFINE m == Len(admitted)
  <2>1. refused' = Granted /\ events' = Append(es, clock) /\ admitted' = Append(admitted, clock) /\ clock' = clock
    BY <1>3, <1>8
  <2>2. /\ m \in Nat /\ Len(admitted') = m + 1 /\ admitted'[m + 1] = clock /\ admitted' \in Seq(0 .. MaxClock)
        /\ \A i \in 1 .. m : admitted'[i] = admitted[i]
        /\ DOMAIN admitted' = 1 .. m + 1 /\ DOMAIN admitted = 1 .. m
    BY <1>1, <2>1
  <2>3. /\ Len(events') = Len(es) + 1 /\ events'[Len(es) + 1] = clock /\ events' \in Seq(0 .. MaxClock)
        /\ \A i \in 1 .. Len(es) : events'[i] = es[i]
    BY <1>1, <1>2, <1>4, <2>1
  <2>4. WithinEvery'
    <3>. SUFFICES ASSUME NEW t \in Tiers, NEW from \in 0 .. MaxClock PROVE Within(from, from + t.window)' <= t.most
      BY DEF WithinEvery
    <3>. DEFINE to == from + t.window
                Now == {i \in 1 .. m : from <= admitted[i] /\ admitted[i] <= to}
                Then == {i \in 1 .. m + 1 : from <= admitted'[i] /\ admitted'[i] <= to}
    <3>1. Within(from, to) = Cardinality(Now) /\ Within(from, to)' = Cardinality(Then)
      BY <2>2 DEF Within
    <3>2. Cardinality(Now) <= t.most /\ to \in Int /\ t.most \in Nat
      BY <1>1, <1>5, <3>1 DEF WithinEvery
    <3>3. CASE ~(from <= clock /\ clock <= to)
      <4>1. Then = Now
        BY <2>2, <3>3
      <4>. QED  BY <3>1, <3>2, <4>1
    <3>4. CASE from <= clock /\ clock <= to
      <4>1. Now \subseteq Since(clock - t.window)
        <5>. SUFFICES ASSUME NEW i \in Now PROVE admitted[i] >= clock - t.window
          OBVIOUS
        <5>1. i \in 1 .. m /\ from <= admitted[i] /\ admitted[i] \in Int
          BY <1>5
        <5>2. clock - t.window <= from /\ clock - t.window \in Int /\ from \in Int
          BY <1>1, <3>4
        <5>. QED  BY <5>1, <5>2
      <4>2. Then = Now \cup {m + 1} /\ m + 1 \notin Now
        BY <2>2, <3>4
      <4>3. ~(Cardinality(Since(clock - t.window)) >= t.most)
        BY <1>6, <1>8 DEF Full
      <4>. HIDE DEF Now, Then, Since
      <4>4. IsFiniteSet(Now) /\ Cardinality(Now) <= Cardinality(Since(clock - t.window)) /\ Cardinality(Now) \in Nat
        BY <1>6, <4>1, FS_Subset, FS_CardinalityType
      <4>5. Cardinality(Then) = Cardinality(Now) + 1
        BY <4>2, <4>4, FS_AddElement
      <4>6. Cardinality(Since(clock - t.window)) \in Nat
        BY <1>6
      <4>. QED  BY <3>1, <3>2, <4>3, <4>4, <4>5, <4>6
    <3>. QED  BY <3>3, <3>4
  <2>5. Len(events') <= Len(admitted') /\ Len(admitted') - Len(events') = k
    BY <1>4, <2>2, <2>3
  <2>6. ASSUME NEW i \in 1 .. Len(events') PROVE events'[i] = admitted'[k + i]
    <3>1. CASE i = Len(es) + 1
      <4>1. k + i = m + 1
        BY <1>4, <3>1
      <4>. QED  BY <2>2, <2>3, <3>1, <4>1
    <3>2. CASE i # Len(es) + 1
      <4>1. i \in 1 .. Len(es) /\ k + i \in 1 .. m
        BY <1>4, <2>3, <3>2
      <4>. QED  BY <1>4, <2>2, <2>3, <4>1
    <3>. QED  BY <3>1, <3>2
  <2>7. \A i \in 1 .. k : admitted'[i] < clock - Longest
    <3>1. \A i \in 1 .. k : i \in 1 .. m
      BY <1>4
    <3>. QED  BY <1>4, <2>2, <3>1
  <2>8. /\ \A i, j \in 1 .. m + 1 : i < j => admitted'[i] <= admitted'[j]
        /\ \A i \in 1 .. m + 1 : admitted'[i] <= clock
    <3>1. \A i \in 1 .. m + 1 : i \in 1 .. m \/ i = m + 1
      BY <2>2
    <3>2. ASSUME NEW i \in 1 .. m + 1 PROVE admitted'[i] <= clock
      <4>1. CASE i \in 1 .. m
        BY <1>5, <2>2, <4>1
      <4>2. CASE i = m + 1
        BY <1>1, <2>2, <4>2
      <4>. QED  BY <3>1, <4>1, <4>2
    <3>3. ASSUME NEW i \in 1 .. m + 1, NEW j \in 1 .. m + 1, i < j PROVE admitted'[i] <= admitted'[j]
      <4>1. i \in 1 .. m
        BY <2>2, <3>3
      <4>2. CASE j = m + 1
        BY <1>5, <2>2, <4>1, <4>2
      <4>3. CASE j \in 1 .. m
        BY <1>5, <2>2, <3>3, <4>1, <4>3
      <4>. QED  BY <3>1, <4>2, <4>3
    <3>. QED  BY <3>2, <3>3
  <2>. HIDE DEF k
  <2>. QED  BY <1>1, <2>1, <2>2, <2>3, <2>4, <2>5, <2>6, <2>7, <2>8 DEF LimitInv, RefusedFairly
<1>. QED  BY <1>7, <1>8

LEMMA LimitsInductive == ASSUME LimitInv, [LimitsNext]_limitVars PROVE LimitInv'
<1>1. CASE UNCHANGED limitVars
  BY <1>1 DEF limitVars, LimitInv, WithinEvery, RefusedFairly, Within
<1>. QED  BY <1>1, TickStep, RequestStep DEF LimitsNext

LEMMA LimitInvSafe == ASSUME LimitInv PROVE LimitsSafe
<1>1. \A i, j \in DOMAIN events : i < j => events[i] <= events[j]
  <2>1. DOMAIN events = 1 .. Len(events) /\ Len(events) \in Nat /\ Len(admitted) \in Nat
    BY Elements DEF LimitInv
  <2>. DEFINE k == Len(admitted) - Len(events)
  <2>2. k \in Nat /\ k + Len(events) = Len(admitted)
    BY <2>1 DEF LimitInv
  <2>3. (\A i \in 1 .. Len(events) : events[i] = admitted[k + i])
        /\ \A i, j \in 1 .. Len(admitted) : i < j => admitted[i] <= admitted[j]
    BY DEF LimitInv
  <2>. HIDE DEF k
  <2>. SUFFICES ASSUME NEW i \in 1 .. Len(events), NEW j \in 1 .. Len(events), i < j
                PROVE  events[i] <= events[j]
    BY <2>1
  <2>4. k + i \in 1 .. Len(admitted) /\ k + j \in 1 .. Len(admitted) /\ k + i < k + j
    BY <2>1, <2>2
  <2>. QED  BY <2>3, <2>4
<1>. QED  BY <1>1 DEF LimitInv, LimitsSafe, LimitsType
-----------------------------------------------------------------------------
(***************************************************************************)
(* Enrichment.  What a step saw of a film may be stale when it writes: a   *)
(* number is promoted only where none was given meanwhile (NoNumber), and  *)
(* the data that is saved was pushed before (GotRight).                    *)
(***************************************************************************)
\* What a step holds of a film, and the run.
Rows == [id : Works, title : {"raw", "clean"}, tt : {"none"} \cup Tts, art : {"none"},
         lookup : {"derived", "edited"}, scored : BOOLEAN, real : BOOLEAN]
Names == {"classify", "identify", "title", "meta", "art", "tags"}
RunRecords == [pc : {"idle", "load", "item", "save"}, steps : Seq(Names), force : BOOLEAN, dry : BOOLEAN,
         only : SUBSET Works, todo : Seq(Rows), got : {"none", "pushed", "failed"} \cup Keys]
Going(w) ==
  /\ w \in RunRecords
  /\ w.pc # "idle" => w.steps # <<>>
  /\ w.pc \in {"item", "save"} <=> w.todo # <<>>

\* What a run is about to write down stands.
GotRight ==
  work.pc = "save" =>
     /\ ~work.dry
     /\ Step = "identify" => Film.tt = "none" /\ work.got \in {"none"} \cup Tts
     /\ Step = "meta" => work.got \in Keys /\ (Film.id \in unsure \/ cms[Film.id].words # "poor")

\* An identify step that holds a film without a number is the only one to give
\* it one.
NoNumber ==
  work.pc # "idle" /\ Step = "identify" =>
     \A k \in DOMAIN work.todo : work.todo[k].tt = "none" => given[work.todo[k].id] = "none"

States == [lookup : {"none", "derived", "edited"}, meta : {"none"} \cup Keys, stamps : SUBSET Names]
Hosted == [title : {"raw", "clean"}, words : {"poor"} \cup Keys, tags : BOOLEAN]
Titles == [title : {"raw", "clean"}, words : {"poor"} \cup Keys, tags : BOOLEAN, tt : {"none"} \cup Tts,
           art : {"none"} \cup Tts, poster : {"none", "thumb"} \cup Keys]
EnrichShape ==
  /\ cms \in [Works -> Hosted] /\ row \in [Works -> Titles] /\ state \in [Works -> States]
  /\ given \in [Works -> {"none"} \cup Tts] /\ unsure \subseteq Works /\ did \in 0 .. MaxDone

Gentle == PosterKept /\ DryRunQuiet
EnrichInv == EnrichShape /\ Going(work) /\ GotRight /\ NoNumber /\ AdminNumberStays /\ StampedIsThere

LEMMA MostIs == ToSet(Most) = Names /\ Most \in Seq(Names) /\ Most # <<>>
<1>1. DOMAIN Most = {1, 2, 3, 4, 5, 6}
  BY DEF Most
<1>2. ToSet(Most) = {Most[i] : i \in {1, 2, 3, 4, 5, 6}}
  BY <1>1 DEF ToSet
<1>3. {Most[i] : i \in {1, 2, 3, 4, 5, 6}} = {Most[1], Most[2], Most[3], Most[4], Most[5], Most[6]}
  OBVIOUS
<1>4. Most[1] = "classify" /\ Most[2] = "identify" /\ Most[3] = "title" /\ Most[4] = "meta" /\ Most[5] = "art" /\ Most[6] = "tags"
  BY DEF Most
<1>. QED  BY <1>2, <1>3, <1>4 DEF Names, Most

\* The run that is over.
LEMMA NoWorkIs == Going(NoWork) /\ NoWork.pc = "idle" /\ NoWork.dry = FALSE /\ NoWork.todo = <<>>
<1>1. NoWork \in RunRecords
  BY DEF NoWork, RunRecords
<1>. QED  BY <1>1 DEF NoWork, Going

\* The run's next step, if it has one, and its next film, if the step has one.
LEMMA NextStepIs ==
  ASSUME Going(work), work.pc # "idle"
  PROVE  Going(NextStep) /\ NextStep.pc \in {"idle", "load"} /\ NextStep.todo = <<>>
<1>1. work \in RunRecords /\ work.steps \in Seq(Names) /\ work.steps # <<>>
  BY DEF Going, RunRecords
<1>2. CASE Len(work.steps) = 1
  BY <1>2, NoWorkIs DEF NextStep
<1>3. CASE Len(work.steps) # 1
  <2>. DEFINE w == [work EXCEPT !.pc = "load", !.steps = Tail(@), !.todo = <<>>, !.got = "none"]
  <2>1. Tail(work.steps) \in Seq(Names) /\ Len(Tail(work.steps)) = Len(work.steps) - 1 /\ Len(work.steps) \in Nat /\ Len(work.steps) > 0
    BY <1>1
  <2>2. Tail(work.steps) # <<>>
    <3>1. Len(Tail(work.steps)) # 0
      BY <1>3, <2>1
    <3>2. Len(<<>>) = 0
      OBVIOUS
    <3>. QED  BY <3>1, <3>2
  <2>3. w \in RunRecords /\ w.pc = "load" /\ w.steps = Tail(work.steps) /\ w.todo = <<>>
    <3>1. "load" \in {"idle", "load", "item", "save"} /\ <<>> \in Seq(Rows)
          /\ "none" \in {"none", "pushed", "failed"} \cup Keys
      BY EmptySeq
    <3>2. w.pc = "load" /\ w.steps = Tail(work.steps) /\ w.todo = <<>>
      BY <1>1 DEF RunRecords
    <3>3. w \in RunRecords
      BY <1>1, <2>1, <3>1 DEF RunRecords
    <3>. QED  BY <3>2, <3>3
  <2>4. NextStep = w
    BY <1>3 DEF NextStep
  <2>. QED  BY <2>2, <2>3, <2>4 DEF Going
<1>. QED  BY <1>2, <1>3

LEMMA NextFilmIs ==
  ASSUME Going(work), work.pc \in {"item", "save"}
  PROVE  /\ Going(NextFilm) /\ NextFilm.pc # "save"
         /\ \/ NextFilm.todo = <<>>
            \/ /\ NextFilm.todo = Tail(work.todo) /\ NextFilm.pc = "item" /\ NextFilm.steps = work.steps
               /\ Len(NextFilm.todo) = Len(work.todo) - 1
               /\ \A k \in 1 .. Len(NextFilm.todo) : NextFilm.todo[k] = work.todo[k + 1]
<1>1. work \in RunRecords /\ work.todo \in Seq(Rows) /\ work.todo # <<>> /\ Len(work.todo) \in Nat /\ work.steps # <<>>
  BY DEF Going, RunRecords
<1>2. CASE Len(work.todo) = 1
  BY <1>2, NextStepIs DEF NextFilm
<1>3. CASE Len(work.todo) # 1
  <2>. DEFINE w == [work EXCEPT !.pc = "item", !.todo = Tail(@), !.got = "none"]
  <2>1. /\ Tail(work.todo) \in Seq(Rows) /\ Len(Tail(work.todo)) = Len(work.todo) - 1 /\ Len(work.todo) > 0
        /\ \A k \in 1 .. Len(work.todo) - 1 : Tail(work.todo)[k] = work.todo[k + 1]
    BY <1>1, HeadTailProperties
  <2>2. Tail(work.todo) # <<>>
    <3>1. Len(Tail(work.todo)) # 0
      BY <1>1, <1>3, <2>1
    <3>2. Len(<<>>) = 0
      OBVIOUS
    <3>. QED  BY <3>1, <3>2
  <2>3. w \in RunRecords /\ w.pc = "item" /\ w.steps = work.steps /\ w.todo = Tail(work.todo)
    BY <1>1, <2>1 DEF RunRecords
  <2>4. NextFilm = w
    BY <1>3 DEF NextFilm
  <2>5. Going(w)
    BY <1>1, <2>2, <2>3 DEF Going
  <2>. HIDE DEF w
  <2>. QED  BY <2>1, <2>3, <2>4, <2>5
<1>. QED  BY <1>2, <1>3

\* The film in hand is one of the step's.
LEMMA FilmIs ==
  ASSUME Going(work), work.pc \in {"item", "save"}
  PROVE  Film \in Rows /\ Film = work.todo[1] /\ 1 \in DOMAIN work.todo /\ Step \in Names /\ Film.id \in Works
<1>1. work.todo \in Seq(Rows) /\ work.todo # <<>> /\ work.steps \in Seq(Names) /\ work.steps # <<>>
  BY DEF Going, RunRecords
<1>2. Film \in Rows /\ Film = work.todo[1] /\ 1 \in DOMAIN work.todo /\ Step \in Names
  BY <1>1 DEF Film, Step
<1>. QED  BY <1>2 DEF Rows

\* A step that goes on to the next film keeps what it holds of the others.
LEMMA HoldsOn ==
  ASSUME EnrichInv, work.pc \in {"item", "save"}, work' = NextFilm,
         \A i \in Works : given'[i] = given[i]
  PROVE  Going(work)' /\ GotRight' /\ NoNumber'
<1>1. Going(work') /\ work'.pc # "save"
  BY NextFilmIs DEF EnrichInv
<1>2. CASE work'.todo = <<>>
  BY <1>1, <1>2 DEF NoNumber, GotRight
<1>3. CASE work'.todo # <<>>
  <2>1. /\ work'.steps = work.steps /\ Len(work'.todo) = Len(work.todo) - 1
        /\ \A k \in 1 .. Len(work'.todo) : work'.todo[k] = work.todo[k + 1]
    BY <1>3, NextFilmIs DEF EnrichInv
  <2>2. work.todo \in Seq(Rows) /\ work'.todo \in Seq(Rows)
    BY <1>1 DEF EnrichInv, Going, RunRecords
  <2>3. ASSUME Step' = "identify", NEW k \in DOMAIN work'.todo, work'.todo[k].tt = "none"
        PROVE  given'[work'.todo[k].id] = "none"
    <3>1. k \in 1 .. Len(work'.todo) /\ k + 1 \in DOMAIN work.todo /\ work'.todo[k] = work.todo[k + 1]
      <4>1. DOMAIN work.todo = 1 .. Len(work.todo) /\ DOMAIN work'.todo = 1 .. Len(work'.todo) /\ Len(work.todo) \in Nat
        BY <2>2, LenProperties
      <4>2. k \in 1 .. Len(work'.todo) /\ k + 1 \in 1 .. Len(work.todo)
        BY <2>1, <4>1
      <4>. QED  BY <2>1, <4>1, <4>2
    <3>2. Step = "identify" /\ work.todo[k + 1].tt = "none" /\ work.todo[k + 1].id \in Works
      <4>1. Step = "identify"
        BY <2>1, <2>3 DEF Step
      <4>2. work.todo[k + 1] \in Rows
        BY <2>2, <3>1
      <4>3. work.todo[k + 1].id \in Works
        BY <4>2 DEF Rows
      <4>. QED  BY <2>3, <3>1, <4>1, <4>3
    <3>3. given[work.todo[k + 1].id] = "none"
      BY <3>1, <3>2 DEF EnrichInv, NoNumber
    <3>. QED  BY <3>1, <3>2, <3>3
  <2>. QED  BY <1>1, <2>3 DEF NoNumber, GotRight
<1>. QED  BY <1>1, <1>2, <1>3
-----------------------------------------------------------------------------
\* A step that leaves every poster as it is puts no thumbnail in its place.
LEMMA PosterSame == ASSUME \A i \in Works : row'[i].poster = row[i].poster PROVE PosterKept
<1>1. "thumb" \notin Keys
  BY EnrichmentAssumption DEF Keys
<1>. QED  BY <1>1 DEF PosterKept

\* A run that has nothing in hand, with all else as it was.
LEMMA FreshRun ==
  ASSUME EnrichInv, Going(work'), work'.pc \in {"idle", "load"}, work'.todo = <<>>,
         UNCHANGED <<cms, row, state, given, unsure>>, did' \in 0 .. MaxDone
  PROVE  EnrichInv' /\ Gentle
<1>1. EnrichShape'
  BY DEF EnrichInv, EnrichShape
<1>2. GotRight' /\ NoNumber'
  BY DEF GotRight, NoNumber
<1>3. AdminNumberStays' /\ StampedIsThere'
  BY DEF EnrichInv, AdminNumberStays, StampedIsThere
<1>4. PosterKept
  BY PosterSame
<1>5. DryRunQuiet
  BY DEF DryRunQuiet
<1>. QED  BY <1>1, <1>2, <1>3, <1>4, <1>5 DEF EnrichInv, Gentle

LEMMA StartStep == ASSUME EnrichInv, StartAll \/ StartChosen \/ StartForced PROVE EnrichInv' /\ Gentle
<1>1. did \in 0 .. MaxDone /\ MaxDone \in Nat
  BY EnrichmentAssumption DEF EnrichInv, EnrichShape
<1>2. CASE StartAll
  <2>1. work' \in RunRecords /\ work'.pc = "load" /\ work'.todo = <<>> /\ work'.steps = Most
    BY <1>2, MostIs, NoWorkIs DEF StartAll, RunRecords, Going
  <2>2. Going(work')
    BY <2>1, MostIs DEF Going
  <2>. QED  BY <1>1, <1>2, <2>1, <2>2, FreshRun DEF StartAll
<1>3. ASSUME NEW steps \in Seq(Names), steps # <<>>, NEW force \in BOOLEAN, NEW dry \in BOOLEAN, NEW only \in SUBSET Works,
             StartWith(steps, force, dry, only)
      PROVE  EnrichInv' /\ Gentle
  <2>1. work' \in RunRecords /\ work'.pc = "load" /\ work'.todo = <<>> /\ work'.steps = steps
    BY <1>3, NoWorkIs DEF StartWith, RunRecords, Going
  <2>2. Going(work')
    BY <1>3, <2>1 DEF Going
  <2>3. did' \in 0 .. MaxDone
    BY <1>1, <1>3 DEF StartWith, Another
  <2>. QED  BY <1>3, <2>1, <2>2, <2>3, FreshRun DEF StartWith
<1>4. CASE StartChosen
  BY <1>3, <1>4, MostIs DEF StartChosen
<1>5. CASE StartForced
  <2>1. <<"classify", "identify", "meta", "art", "tags">> \in Seq(Names) /\ <<"classify", "identify", "meta", "art", "tags">> # <<>>
    BY DEF Names
  <2>. QED  BY <1>3, <1>5, <2>1 DEF StartForced
<1>. QED  BY <1>2, <1>4, <1>5

LEMMA DiesStep == ASSUME EnrichInv, Dies PROVE EnrichInv' /\ Gentle
<1>1. did' \in 0 .. MaxDone
  BY EnrichmentAssumption DEF EnrichInv, EnrichShape, Dies, Another
<1>. QED  BY <1>1, NoWorkIs, FreshRun DEF Dies

LEMMA LoadStep == ASSUME EnrichInv, Load PROVE EnrichInv' /\ Gentle
<1>1. work \in RunRecords /\ Going(work) /\ work.pc = "load" /\ UNCHANGED <<cms, row, state, did, given, unsure>>
  BY DEF EnrichInv, Going, Load
<1>2. PICK few \in Loadable :
        work' = IF few = <<>> THEN NextStep ELSE [work EXCEPT !.pc = "item", !.todo = [k \in DOMAIN few |-> Seen(few[k])]]
  BY DEF Load
<1>3. CASE few = <<>>
  <2>1. work' = NextStep /\ did' \in 0 .. MaxDone
    BY <1>1, <1>2, <1>3 DEF EnrichInv, EnrichShape
  <2>. QED  BY <1>1, <2>1, NextStepIs, FreshRun
<1>4. CASE few # <<>>
  <2>. DEFINE todo == [k \in DOMAIN few |-> Seen(few[k])]
  <2>1. PICK n \in 0 .. Limit : few \in [1 .. n -> Needing]
    BY <1>2 DEF Loadable
  <2>2. n \in Nat /\ DOMAIN few = 1 .. n /\ \A k \in 1 .. n : few[k] \in Works
    BY <1>1, <2>1, EnrichmentAssumption DEF Needing, RunRecords
  <2>3. ASSUME NEW i \in Works PROVE Seen(i) \in Rows /\ Seen(i).id = i /\ Seen(i).tt = row[i].tt
    <3>1. row[i].title \in {"raw", "clean"} /\ row[i].tt \in {"none"} \cup Tts /\ state[i].lookup \in {"none", "derived", "edited"}
      BY DEF EnrichInv, EnrichShape, Titles, States
    <3>. DEFINE cached == ~work.force /\ state[i].lookup # "none"
    <3>2. (IF cached THEN state[i].lookup ELSE "derived") \in {"derived", "edited"}
      BY <3>1
    <3>3. (cached /\ state[i].meta # "none") \in BOOLEAN /\ (row[i].poster \in Keys) \in BOOLEAN
      OBVIOUS
    <3>. HIDE DEF cached
    <3>4. Seen(i) = [id |-> i, title |-> row[i].title, tt |-> row[i].tt, art |-> "none",
                     lookup |-> IF cached THEN state[i].lookup ELSE "derived",
                     scored |-> cached /\ state[i].meta # "none", real |-> row[i].poster \in Keys]
      BY DEF Seen, cached
    <3>. QED  BY <3>1, <3>2, <3>3, <3>4 DEF Rows
  <2>4. todo \in Seq(Rows) /\ DOMAIN todo = 1 .. n /\ \A k \in 1 .. n : todo[k] = Seen(few[k])
    <3>1. todo \in [1 .. n -> Rows]
      BY <2>2, <2>3
    <3>. QED  BY <2>2, <3>1, SeqDef
  <2>5. todo # <<>>
    <3>1. n # 0
      <4>. SUFFICES ASSUME n = 0 PROVE FALSE
        OBVIOUS
      <4>1. few \in Seq(Works) /\ Len(few) = 0
        BY <2>1, <2>2, SeqDef
      <4>. QED  BY <1>4, <4>1
    <3>2. 1 \in DOMAIN todo
      BY <2>2, <2>4, <3>1
    <3>. QED  BY <3>2
  <2>. HIDE DEF todo
  <2>6. work' = [work EXCEPT !.pc = "item", !.todo = todo]
    BY <1>2, <1>4 DEF todo
  <2>7. work' \in RunRecords /\ work'.pc = "item" /\ work'.todo = todo /\ work'.steps = work.steps
    BY <1>1, <2>4, <2>6 DEF RunRecords
  <2>8. Going(work)'
    BY <1>1, <2>5, <2>7 DEF Going
  <2>9. NoNumber'
    <3>. SUFFICES ASSUME NEW k \in 1 .. n, todo[k].tt = "none" PROVE given'[todo[k].id] = "none"
      BY <2>4, <2>7 DEF NoNumber
    <3>1. few[k] \in Works /\ todo[k].id = few[k] /\ row[few[k]].tt = "none"
      BY <2>2, <2>3, <2>4
    <3>. QED  BY <1>1, <3>1 DEF EnrichInv, AdminNumberStays
  <2>10. EnrichShape' /\ AdminNumberStays' /\ StampedIsThere' /\ GotRight'
    BY <1>1, <2>7 DEF EnrichInv, EnrichShape, AdminNumberStays, StampedIsThere, GotRight
  <2>11. Gentle
    BY <1>1, PosterSame DEF Gentle, DryRunQuiet
  <2>. QED  BY <2>8, <2>9, <2>10, <2>11 DEF EnrichInv
<1>. QED  BY <1>3, <1>4
-----------------------------------------------------------------------------
\* A stamp on a film of the catalogue.
LEMMA StampedIs ==
  ASSUME EnrichShape, NEW i \in Works, Step \in Names
  PROVE  /\ Stamped(i) \in [Works -> States]
         /\ Stamped(i)[i].stamps = state[i].stamps \cup {Step}
         /\ Stamped(i)[i].lookup = state[i].lookup /\ Stamped(i)[i].meta = state[i].meta
         /\ \A j \in Works \ {i} : Stamped(i)[j] = state[j]
<1>1. state \in [Works -> States] /\ state[i] \in States
  BY DEF EnrichShape
<1>2. [state[i] EXCEPT !.stamps = @ \cup {Step}] \in States
  BY <1>1 DEF States
<1>. QED  BY <1>1, <1>2 DEF Stamped, States

\* A step that stamps a film with anything but "meta", or not at all, takes it
\* no data from MediaCMS.
LEMMA StampElse ==
  ASSUME EnrichInv, UNCHANGED <<cms, unsure>>, \A i \in Works : "meta" \in state'[i].stamps => "meta" \in state[i].stamps
  PROVE  StampedIsThere'
BY DEF EnrichInv, StampedIsThere

LEMMA ClassifyStep == ASSUME EnrichInv, Classify PROVE EnrichInv' /\ Gentle
<1>1. /\ EnrichShape /\ Going(work) /\ work.pc = "item" /\ Step = "classify" /\ work' = NextFilm
      /\ UNCHANGED <<cms, row, did, given, unsure>>
  BY DEF EnrichInv, Classify, RowAt
<1>2. Film \in Rows /\ Film.id \in Works /\ Step \in Names
  BY <1>1, FilmIs
<1>3. Going(work)' /\ GotRight' /\ NoNumber'
  BY <1>1, HoldsOn
<1>. DEFINE i == Film.id
            s == Stamped(i)
            t == [s EXCEPT ![i].lookup = Film.lookup]
<1>4. /\ s \in [Works -> States] /\ s[i].stamps = state[i].stamps \cup {"classify"}
      /\ \A j \in Works \ {i} : s[j] = state[j]
  BY <1>1, <1>2, StampedIs
<1>5. state' = IF work.dry THEN state ELSE t
  BY DEF Classify
<1>. HIDE DEF s
<1>6. t \in [Works -> States] /\ t[i].stamps = s[i].stamps /\ \A j \in Works \ {i} : t[j] = s[j]
  <2>1. Film.lookup \in {"none", "derived", "edited"} /\ s[i] \in States
    BY <1>2, <1>4 DEF Rows
  <2>2. [s[i] EXCEPT !.lookup = Film.lookup] \in States /\ [s[i] EXCEPT !.lookup = Film.lookup].stamps = s[i].stamps
    BY <2>1 DEF States
  <2>. QED  BY <1>2, <1>4, <2>2
<1>. HIDE DEF t, i
<1>7. state' \in [Works -> States] /\ \A j \in Works : "meta" \in state'[j].stamps => "meta" \in state[j].stamps
  <2>1. CASE work.dry
    BY <1>1, <1>5, <2>1 DEF EnrichShape
  <2>2. CASE ~work.dry
    BY <1>4, <1>5, <1>6, <2>2
  <2>. QED  BY <2>1, <2>2
<1>8. EnrichShape' /\ AdminNumberStays'
  BY <1>1, <1>7 DEF EnrichInv, EnrichShape, AdminNumberStays
<1>9. StampedIsThere'
  BY <1>1, <1>7, StampElse
<1>10. Gentle
  <2>1. work.dry => state' = state
    BY <1>5
  <2>. QED  BY <1>1, <2>1, PosterSame DEF Gentle, DryRunQuiet
<1>. QED  BY <1>3, <1>8, <1>9, <1>10 DEF EnrichInv

LEMMA IdentifyStep == ASSUME EnrichInv, Identify PROVE EnrichInv' /\ Gentle
<1>1. /\ EnrichShape /\ Going(work) /\ work.pc = "item" /\ Step = "identify" /\ UNCHANGED <<cms, row, did, given, unsure>>
      /\ state' = IF work.dry THEN state ELSE Stamped(Film.id)
  BY DEF EnrichInv, Identify, RowAt
<1>2. Film \in Rows /\ Film.id \in Works /\ Step \in Names /\ Film = work.todo[1]
  BY <1>1, FilmIs
<1>3. Going(work)' /\ GotRight' /\ NoNumber'
  <2>1. CASE ~Promotes
    <3>1. work' = NextFilm
      BY <2>1 DEF Identify
    <3>. QED  BY <1>1, <3>1, HoldsOn
  <2>2. CASE Promotes
    <3>1. work' = [work EXCEPT !.pc = "save", !.got = TtOf[Film.id]]
      BY <2>2 DEF Identify
    <3>2. ~work.dry /\ Film.tt = "none" /\ TtOf[Film.id] \in {"none"} \cup Tts
      BY <1>2, <2>2, EnrichmentAssumption DEF Promotes
    <3>3. work \in RunRecords /\ work.steps # <<>> /\ work.todo # <<>>
      BY <1>1 DEF Going
    <3>4. /\ work' \in RunRecords /\ work'.pc = "save" /\ work'.got = TtOf[Film.id] /\ work'.todo = work.todo
          /\ work'.steps = work.steps /\ work'.dry = work.dry
      BY <3>1, <3>2, <3>3 DEF RunRecords, Keys
    <3>5. Step' = Step /\ Film' = Film
      BY <3>4 DEF Step, Film
    <3>. QED  BY <1>1, <3>2, <3>3, <3>4, <3>5 DEF Going, GotRight, NoNumber, EnrichInv
  <2>. QED  BY <2>1, <2>2
<1>4. state' \in [Works -> States] /\ \A j \in Works : "meta" \in state'[j].stamps => "meta" \in state[j].stamps
  <2>1. CASE work.dry
    BY <1>1, <2>1 DEF EnrichShape
  <2>2. CASE ~work.dry
    BY <1>1, <1>2, <2>2, StampedIs
  <2>. QED  BY <2>1, <2>2
<1>5. EnrichShape' /\ AdminNumberStays'
  BY <1>1, <1>4 DEF EnrichInv, EnrichShape, AdminNumberStays
<1>6. StampedIsThere'
  BY <1>1, <1>4, StampElse
<1>7. Gentle
  <2>1. work.dry => state' = state
    BY <1>1
  <2>. QED  BY <1>1, <2>1, PosterSame DEF Gentle, DryRunQuiet
<1>. QED  BY <1>3, <1>5, <1>6, <1>7 DEF EnrichInv

LEMMA PromoteStep == ASSUME EnrichInv, Promote PROVE EnrichInv' /\ Gentle
<1>1. /\ EnrichShape /\ Going(work) /\ work.pc = "save" /\ Step = "identify" /\ work' = NextFilm
      /\ UNCHANGED <<cms, state, did, given, unsure>>
      /\ row' = IF \E j \in Works \ {Film.id} : row[j].tt = work.got THEN row ELSE [row EXCEPT ![Film.id].tt = work.got]
  BY DEF EnrichInv, Promote, Saving
<1>2. Film \in Rows /\ Film.id \in Works /\ Film = work.todo[1] /\ 1 \in DOMAIN work.todo
  BY <1>1, FilmIs
<1>3. Going(work)' /\ GotRight' /\ NoNumber'
  BY <1>1, HoldsOn
<1>4. ~work.dry /\ work.got \in {"none"} \cup Tts /\ given[Film.id] = "none"
  BY <1>1, <1>2 DEF EnrichInv, GotRight, NoNumber
<1>. DEFINE i == Film.id
<1>5. /\ row' \in [Works -> Titles] /\ row'[i].poster = row[i].poster
      /\ \A j \in Works \ {i} : row'[j] = row[j]
  <2>1. row \in [Works -> Titles] /\ row[i] \in Titles
    BY <1>1, <1>2 DEF EnrichShape
  <2>2. [row[i] EXCEPT !.tt = work.got] \in Titles /\ [row[i] EXCEPT !.tt = work.got].poster = row[i].poster
    BY <1>4, <2>1 DEF Titles
  <2>. QED  BY <1>1, <1>2, <2>1, <2>2
<1>. HIDE DEF i
<1>6. EnrichShape' /\ StampedIsThere'
  BY <1>1, <1>5 DEF EnrichInv, EnrichShape, StampedIsThere
<1>7. AdminNumberStays'
  BY <1>1, <1>4, <1>5 DEF EnrichInv, AdminNumberStays, i
<1>8. Gentle
  <2>1. \A j \in Works : row'[j].poster = row[j].poster
    BY <1>5
  <2>. QED  BY <1>4, <2>1, PosterSame DEF Gentle, DryRunQuiet
<1>. QED  BY <1>3, <1>6, <1>7, <1>8 DEF EnrichInv
-----------------------------------------------------------------------------
\* A push to MediaCMS, for the film in hand: heard of or not.
LEMMA PushedIs ==
  ASSUME EnrichShape, NEW field, NEW value, Film.id \in Works, Pushed(field, value),
         [cms[Film.id] EXCEPT ![field] = value] \in Hosted
  PROVE  /\ cms' \in [Works -> Hosted] /\ did' \in 0 .. MaxDone /\ unsure \subseteq unsure' /\ unsure' \subseteq Works
         /\ \A j \in Works \ {Film.id} : cms'[j] = cms[j]
         /\ cms'[Film.id] \in {cms[Film.id], [cms[Film.id] EXCEPT ![field] = value]}
         /\ Film.id \in unsure' \/ cms'[Film.id] = [cms[Film.id] EXCEPT ![field] = value]
<1>. DEFINE i == Film.id
            r == [cms[i] EXCEPT ![field] = value]
            c == [cms EXCEPT ![i][field] = value]
<1>1. cms \in [Works -> Hosted] /\ did \in 0 .. MaxDone /\ MaxDone \in Nat /\ unsure \subseteq Works
  BY EnrichmentAssumption DEF EnrichShape
<1>2. c \in [Works -> Hosted] /\ c[i] = r /\ \A j \in Works \ {i} : c[j] = cms[j]
  BY <1>1
<1>3. (cms' = c /\ UNCHANGED <<did, unsure>>) \/ (Another /\ unsure' = unsure \cup {i} /\ cms' \in {cms, c})
  BY DEF Pushed
<1>. HIDE DEF c, r, i
<1>4. i \in Works
  BY DEF i
<1>5. did' \in 0 .. MaxDone
  BY <1>1, <1>3 DEF Another
<1>6. /\ cms' \in [Works -> Hosted] /\ unsure \subseteq unsure' /\ unsure' \subseteq Works
      /\ (\A j \in Works \ {i} : cms'[j] = cms[j])
      /\ cms'[i] \in {cms[i], r} /\ (i \in unsure' \/ cms'[i] = r)
  <2>1. CASE cms' = c /\ UNCHANGED <<did, unsure>>
    BY <1>1, <1>2, <2>1
  <2>2. CASE unsure' = unsure \cup {i} /\ cms' \in {cms, c}
    BY <1>1, <1>2, <1>4, <2>2
  <2>. QED  BY <1>3, <2>1, <2>2
<1>. QED  BY <1>5, <1>6 DEF i, r

\* A run that writes down, and nothing but it, what it got.
LEMMA SaveIs ==
  ASSUME EnrichInv, work.pc = "item", NEW got \in {"none", "pushed", "failed"} \cup Keys,
         work' = [work EXCEPT !.pc = "save", !.got = got]
  PROVE  /\ Going(work)' /\ work'.pc = "save" /\ work'.got = got /\ work'.dry = work.dry /\ Step' = Step /\ Film' = Film
         /\ (UNCHANGED given => NoNumber')
<1>1. work \in RunRecords /\ work.steps # <<>> /\ work.todo # <<>>
  BY DEF EnrichInv, Going
<1>2. /\ work' \in RunRecords /\ work'.pc = "save" /\ work'.got = got /\ work'.todo = work.todo
      /\ work'.steps = work.steps /\ work'.dry = work.dry
  BY <1>1 DEF RunRecords
<1>3. Step' = Step /\ Film' = Film
  BY <1>2 DEF Step, Film
<1>. QED  BY <1>1, <1>2, <1>3 DEF Going, NoNumber, EnrichInv

LEMMA TitleSameStep == ASSUME EnrichInv, TitleSame PROVE EnrichInv' /\ Gentle
<1>1. /\ EnrichShape /\ Going(work) /\ work.pc = "item" /\ Step = "title" /\ work' = NextFilm
      /\ state' = Stamped(Film.id) /\ UNCHANGED <<cms, row, did, given, unsure>>
  BY DEF EnrichInv, TitleSame, RowAt
<1>2. Film.id \in Works /\ Step \in Names
  BY <1>1, FilmIs
<1>3. Going(work)' /\ GotRight' /\ NoNumber'
  BY <1>1, HoldsOn
<1>4. /\ state' \in [Works -> States] /\ state'[Film.id].stamps = state[Film.id].stamps \cup {"title"}
      /\ \A j \in Works \ {Film.id} : state'[j] = state[j]
  BY <1>1, <1>2, StampedIs
<1>5. EnrichShape' /\ AdminNumberStays'
  BY <1>1, <1>4 DEF EnrichInv, EnrichShape, AdminNumberStays
<1>6. StampedIsThere'
  <2>1. \A j \in Works : "meta" \in state'[j].stamps => "meta" \in state[j].stamps
    BY <1>4
  <2>. QED  BY <1>1, <2>1, StampElse
<1>7. Gentle
  <2>1. \A j \in Works : state'[j].stamps \subseteq state[j].stamps \cup {"title", "tags"}
    BY <1>4
  <2>. QED  BY <1>1, <2>1, PosterSame DEF Gentle, DryRunQuiet
<1>. QED  BY <1>3, <1>5, <1>6, <1>7 DEF EnrichInv

LEMMA TitlePushStep == ASSUME EnrichInv, TitlePush PROVE EnrichInv' /\ Gentle
<1>1. /\ EnrichShape /\ Going(work) /\ work.pc = "item" /\ Step = "title" /\ ~work.dry /\ UNCHANGED <<row, state, given>>
      /\ work' = [work EXCEPT !.pc = "save", !.got = IF did' = did THEN "pushed" ELSE "failed"] /\ Pushed("title", "clean")
  BY DEF EnrichInv, TitlePush, RowAt
<1>2. Film.id \in Works /\ cms \in [Works -> Hosted] /\ cms[Film.id] \in Hosted
  BY <1>1, FilmIs DEF EnrichShape
<1>3. /\ [cms[Film.id] EXCEPT !["title"] = "clean"] \in Hosted
      /\ [cms[Film.id] EXCEPT !["title"] = "clean"].words = cms[Film.id].words
  BY <1>2 DEF Hosted
<1>4. /\ cms' \in [Works -> Hosted] /\ did' \in 0 .. MaxDone /\ unsure \subseteq unsure' /\ unsure' \subseteq Works
      /\ \A j \in Works : cms'[j].words = cms[j].words
  <2>1. /\ cms' \in [Works -> Hosted] /\ did' \in 0 .. MaxDone /\ unsure \subseteq unsure' /\ unsure' \subseteq Works
        /\ \A j \in Works \ {Film.id} : cms'[j] = cms[j]
        /\ cms'[Film.id] \in {cms[Film.id], [cms[Film.id] EXCEPT !["title"] = "clean"]}
    BY <1>1, <1>2, <1>3, PushedIs
  <2>2. cms'[Film.id].words = cms[Film.id].words
    BY <1>3, <2>1
  <2>. QED  BY <2>1, <2>2
<1>5. Going(work)' /\ Step' = "title" /\ work'.dry = work.dry /\ NoNumber'
  <2>1. (IF did' = did THEN "pushed" ELSE "failed") \in {"none", "pushed", "failed"} \cup Keys
    OBVIOUS
  <2>. QED  BY <1>1, <2>1, SaveIs
<1>6. EnrichShape' /\ AdminNumberStays' /\ GotRight'
  BY <1>1, <1>4, <1>5 DEF EnrichInv, EnrichShape, AdminNumberStays, GotRight
<1>7. StampedIsThere'
  BY <1>1, <1>4 DEF EnrichInv, StampedIsThere
<1>8. Gentle
  BY <1>1, PosterSame DEF Gentle, DryRunQuiet
<1>. QED  BY <1>5, <1>6, <1>7, <1>8 DEF EnrichInv

LEMMA TitleSaveStep == ASSUME EnrichInv, TitleSave PROVE EnrichInv' /\ Gentle
<1>1. /\ EnrichShape /\ Going(work) /\ work.pc = "save" /\ Step = "title" /\ work' = NextFilm
      /\ state' = Stamped(Film.id) /\ UNCHANGED <<cms, did, given, unsure>>
      /\ row' = IF work.got = "pushed" THEN [row EXCEPT ![Film.id].title = "clean"] ELSE row
  BY DEF EnrichInv, TitleSave, Saving
<1>2. Film.id \in Works /\ Step \in Names /\ ~work.dry
  BY <1>1, FilmIs DEF EnrichInv, GotRight
<1>3. Going(work)' /\ GotRight' /\ NoNumber'
  BY <1>1, HoldsOn
<1>4. /\ state' \in [Works -> States] /\ state'[Film.id].stamps = state[Film.id].stamps \cup {"title"}
      /\ \A j \in Works \ {Film.id} : state'[j] = state[j]
  BY <1>1, <1>2, StampedIs
<1>5. row' \in [Works -> Titles] /\ \A j \in Works : row'[j].tt = row[j].tt /\ row'[j].poster = row[j].poster
  <2>. DEFINE r == [row[Film.id] EXCEPT !.title = "clean"]
  <2>1. row \in [Works -> Titles] /\ row[Film.id] \in Titles
    BY <1>1, <1>2 DEF EnrichShape
  <2>2. r \in Titles /\ r.tt = row[Film.id].tt /\ r.poster = row[Film.id].poster
    BY <2>1 DEF Titles
  <2>. HIDE DEF r
  <2>3. row' = row \/ (row' \in [Works -> Titles] /\ row'[Film.id] = r /\ \A j \in Works \ {Film.id} : row'[j] = row[j])
    BY <1>1, <1>2, <2>1, <2>2 DEF r
  <2>. QED  BY <2>1, <2>2, <2>3
<1>6. EnrichShape' /\ AdminNumberStays'
  BY <1>1, <1>4, <1>5 DEF EnrichInv, EnrichShape, AdminNumberStays
<1>7. StampedIsThere'
  <2>1. \A j \in Works : "meta" \in state'[j].stamps => "meta" \in state[j].stamps
    BY <1>4
  <2>. QED  BY <1>1, <2>1, StampElse
<1>8. Gentle
  BY <1>2, <1>5, PosterSame DEF Gentle, DryRunQuiet
<1>. QED  BY <1>3, <1>6, <1>7, <1>8 DEF EnrichInv

LEMMA SkipStep == ASSUME EnrichInv, MetaSkip \/ ArtSkip PROVE EnrichInv' /\ Gentle
<1>1. /\ EnrichShape /\ Going(work) /\ work.pc = "item" /\ work' = NextFilm /\ UNCHANGED <<cms, row, state, given, unsure>>
  BY DEF EnrichInv, MetaSkip, ArtSkip, RowAt
<1>2. did' \in 0 .. MaxDone
  BY EnrichmentAssumption DEF EnrichInv, EnrichShape, MetaSkip, ArtSkip, Another
<1>3. Going(work)' /\ GotRight' /\ NoNumber'
  BY <1>1, HoldsOn
<1>4. EnrichShape' /\ AdminNumberStays' /\ StampedIsThere'
  BY <1>1, <1>2 DEF EnrichInv, EnrichShape, AdminNumberStays, StampedIsThere
<1>5. Gentle
  BY <1>1, PosterSame DEF Gentle, DryRunQuiet
<1>. QED  BY <1>3, <1>4, <1>5 DEF EnrichInv

LEMMA MetaPushStep == ASSUME EnrichInv, MetaPush PROVE EnrichInv' /\ Gentle
<1>1. /\ EnrichShape /\ Going(work) /\ work.pc = "item" /\ Step = "meta" /\ ~work.dry /\ UNCHANGED <<row, state, given>>
      /\ work' = [work EXCEPT !.pc = "save", !.got = Key] /\ Pushed("words", Key)
  BY DEF EnrichInv, MetaPush, RowAt
<1>2. Film.id \in Works /\ cms \in [Works -> Hosted] /\ cms[Film.id] \in Hosted /\ Film \in Rows
  BY <1>1, FilmIs DEF EnrichShape
<1>3. Key \in Keys /\ Key # "poor"
  <2>1. Film.tt \in {"none"} \cup Tts /\ Film.lookup \in {"derived", "edited"}
    BY <1>2 DEF Rows
  <2>2. "poor" \notin Tts
    BY EnrichmentAssumption
  <2>. QED  BY <2>1, <2>2 DEF Key, Keys
<1>4. /\ [cms[Film.id] EXCEPT !["words"] = Key] \in Hosted
      /\ [cms[Film.id] EXCEPT !["words"] = Key].words = Key
  BY <1>2, <1>3 DEF Hosted
<1>5. /\ cms' \in [Works -> Hosted] /\ did' \in 0 .. MaxDone /\ unsure \subseteq unsure' /\ unsure' \subseteq Works
      /\ \A j \in Works \ {Film.id} : cms'[j] = cms[j]
      /\ cms'[Film.id] \in {cms[Film.id], [cms[Film.id] EXCEPT !["words"] = Key]}
      /\ Film.id \in unsure' \/ cms'[Film.id] = [cms[Film.id] EXCEPT !["words"] = Key]
  BY <1>1, <1>2, <1>4, PushedIs
<1>6. Film.id \in unsure' \/ cms'[Film.id].words # "poor"
  BY <1>3, <1>4, <1>5
<1>7. Going(work)' /\ Step' = "meta" /\ Film' = Film /\ work'.dry = work.dry /\ work'.got = Key /\ NoNumber'
  <2>. HIDE DEF Key
  <2>1. Key \in {"none", "pushed", "failed"} \cup Keys
    BY <1>3
  <2>. QED  BY <1>1, <2>1, SaveIs
<1>8. EnrichShape' /\ AdminNumberStays' /\ GotRight'
  BY <1>1, <1>3, <1>5, <1>6, <1>7 DEF EnrichInv, EnrichShape, AdminNumberStays, GotRight
<1>9. StampedIsThere'
  <2>1. \A j \in Works \ unsure' : cms[j].words # "poor" => cms'[j].words # "poor"
    BY <1>5, <1>6
  <2>. QED  BY <1>1, <1>5, <2>1 DEF EnrichInv, StampedIsThere
<1>10. Gentle
  BY <1>1, PosterSame DEF Gentle, DryRunQuiet
<1>. QED  BY <1>7, <1>8, <1>9, <1>10 DEF EnrichInv
LEMMA MetaSaveStep == ASSUME EnrichInv, MetaSave PROVE EnrichInv' /\ Gentle
<1>. DEFINE i == Film.id
            s == Stamped(i)
            t == [s EXCEPT ![i].meta = work.got]
<1>1. /\ EnrichShape /\ Going(work) /\ work.pc = "save" /\ Step = "meta" /\ work' = NextFilm
      /\ state' = t /\ UNCHANGED <<cms, did, given, unsure>> /\ row' = [row EXCEPT ![i].words = work.got]
  BY DEF EnrichInv, MetaSave, Saving
<1>2. i \in Works /\ Step \in Names
  BY <1>1, FilmIs
<1>3. ~work.dry /\ work.got \in Keys /\ (i \in unsure \/ cms[i].words # "poor")
  BY <1>1 DEF EnrichInv, GotRight
<1>4. Going(work)' /\ GotRight' /\ NoNumber'
  BY <1>1, HoldsOn
<1>5. s \in [Works -> States] /\ \A j \in Works \ {i} : s[j] = state[j]
  BY <1>1, <1>2, StampedIs
<1>. HIDE DEF s
<1>6. t \in [Works -> States] /\ \A j \in Works \ {i} : t[j] = state[j]
  <2>1. s[i] \in States /\ [s[i] EXCEPT !.meta = work.got] \in States
    BY <1>2, <1>3, <1>5 DEF States
  <2>. QED  BY <1>2, <1>5, <2>1
<1>7. row' \in [Works -> Titles] /\ \A j \in Works : row'[j].tt = row[j].tt /\ row'[j].poster = row[j].poster
  <2>. DEFINE r == [row[i] EXCEPT !.words = work.got]
  <2>. HIDE DEF i
  <2>1. row \in [Works -> Titles] /\ row[i] \in Titles
    BY <1>1, <1>2 DEF EnrichShape
  <2>2. r \in Titles /\ r.tt = row[i].tt /\ r.poster = row[i].poster
    BY <1>3, <2>1 DEF Titles
  <2>. HIDE DEF r
  <2>3. row' \in [Works -> Titles] /\ row'[i] = r /\ \A j \in Works \ {i} : row'[j] = row[j]
    BY <1>1, <1>2, <2>1, <2>2 DEF r
  <2>. QED  BY <2>1, <2>2, <2>3
<1>. HIDE DEF t, i
<1>8. EnrichShape' /\ AdminNumberStays'
  BY <1>1, <1>6, <1>7 DEF EnrichInv, EnrichShape, AdminNumberStays
<1>9. StampedIsThere'
  BY <1>1, <1>3, <1>6 DEF EnrichInv, StampedIsThere
<1>10. Gentle
  BY <1>3, <1>7, PosterSame DEF Gentle, DryRunQuiet
<1>. QED  BY <1>4, <1>8, <1>9, <1>10 DEF EnrichInv

LEMMA ArtSaveStep == ASSUME EnrichInv, ArtSave PROVE EnrichInv' /\ Gentle
<1>. DEFINE i == Film.id
<1>1. /\ EnrichShape /\ Going(work) /\ work.pc = "item" /\ Step = "art" /\ work' = NextFilm
      /\ state' = Stamped(i) /\ UNCHANGED <<cms, given, unsure>> /\ ~ArtSkips /\ ~work.dry
  BY DEF EnrichInv, ArtSave, RowAt
<1>2. i \in Works /\ Film \in Rows /\ Step \in Names
  BY <1>1, FilmIs
<1>3. Going(work)' /\ GotRight' /\ NoNumber'
  BY <1>1, HoldsOn
<1>4. state' \in [Works -> States] /\ \A j \in Works : "meta" \in state'[j].stamps => "meta" \in state[j].stamps
  BY <1>1, <1>2, StampedIs
<1>5. Poster \in {"none", "thumb"} \cup Keys
  <2>1. Film.tt \in {"none"} \cup Tts /\ Film.lookup \in {"derived", "edited"} /\ Film.art = "none"
    BY <1>2 DEF Rows
  <2>2. Key \in Keys
    BY <2>1 DEF Key, Keys
  <2>3. state[i].meta \in {"none"} \cup Keys
    BY <1>1, <1>2 DEF EnrichShape, States
  <2>. HIDE DEF Key
  <2>. QED  BY <2>1, <2>2, <2>3 DEF Poster
<1>6. /\ did' \in 0 .. MaxDone
      /\ \E p \in {"none", "thumb"} \cup Keys : row' \in {row, [row EXCEPT ![i].poster = p]}
  <2>1. did \in 0 .. MaxDone /\ MaxDone \in Nat
    BY <1>1, EnrichmentAssumption DEF EnrichShape
  <2>2. CASE row' = [row EXCEPT ![i].poster = Poster] /\ UNCHANGED did
    BY <1>5, <2>1, <2>2
  <2>3. CASE Another /\ row' \in {row, [row EXCEPT ![i].poster = IF Film.art = "none" /\ state[i].meta # "none" THEN Poster ELSE "thumb"]}
    BY <1>5, <2>1, <2>3 DEF Another
  <2>. QED  BY <2>2, <2>3 DEF ArtSave
<1>. HIDE DEF i
<1>7. row' \in [Works -> Titles] /\ (\A j \in Works : row'[j].tt = row[j].tt) /\ \A j \in Works \ {i} : row'[j] = row[j]
  <2>1. PICK p \in {"none", "thumb"} \cup Keys : row' \in {row, [row EXCEPT ![i].poster = p]}
    BY <1>6
  <2>2. row \in [Works -> Titles] /\ row[i] \in Titles
    BY <1>1, <1>2 DEF EnrichShape
  <2>3. [row[i] EXCEPT !.poster = p] \in Titles /\ [row[i] EXCEPT !.poster = p].tt = row[i].tt
    BY <2>1, <2>2 DEF Titles
  <2>4. CASE row' = row
    BY <2>2, <2>4
  <2>5. CASE row' = [row EXCEPT ![i].poster = p]
    <3>1. row' \in [Works -> Titles] /\ row'[i] = [row[i] EXCEPT !.poster = p] /\ \A j \in Works \ {i} : row'[j] = row[j]
      BY <1>2, <2>2, <2>3, <2>5
    <3>. QED  BY <2>3, <3>1
  <2>. QED  BY <2>1, <2>4, <2>5
<1>8. EnrichShape' /\ AdminNumberStays'
  BY <1>1, <1>4, <1>6, <1>7 DEF EnrichInv, EnrichShape, AdminNumberStays
<1>9. StampedIsThere'
  BY <1>1, <1>4, StampElse
<1>10. PosterKept
  <2>1. "thumb" \notin Keys
    BY EnrichmentAssumption DEF Keys
  <2>2. work.force \/ ~Film.real
    BY <1>1 DEF ArtSkips
  <2>. QED  BY <1>7, <2>1, <2>2 DEF PosterKept
<1>. QED  BY <1>1, <1>3, <1>8, <1>9, <1>10 DEF EnrichInv, Gentle, DryRunQuiet

LEMMA TagsStepStep == ASSUME EnrichInv, TagsStep PROVE EnrichInv' /\ Gentle
<1>. DEFINE i == Film.id
            tags == state[i].meta # "none" /\ ~work.dry
<1>1. /\ EnrichShape /\ Going(work) /\ work.pc = "item" /\ Step = "tags" /\ work' = NextFilm
      /\ state' = Stamped(i) /\ UNCHANGED given
      /\ (tags => row' = [row EXCEPT ![i].tags = TRUE] /\ Pushed("tags", TRUE))
      /\ (~tags => UNCHANGED <<row, cms, did, unsure>>)
  BY DEF EnrichInv, TagsStep, RowAt
<1>2. i \in Works /\ Step \in Names
  BY <1>1, FilmIs
<1>3. Going(work)' /\ GotRight' /\ NoNumber'
  BY <1>1, HoldsOn
<1>4. /\ state' \in [Works -> States] /\ state'[i].stamps = state[i].stamps \cup {"tags"}
      /\ \A j \in Works \ {i} : state'[j] = state[j]
  BY <1>1, <1>2, StampedIs
<1>5. /\ cms' \in [Works -> Hosted] /\ did' \in 0 .. MaxDone /\ unsure \subseteq unsure' /\ unsure' \subseteq Works
      /\ \A j \in Works : cms'[j].words = cms[j].words
  <2>1. cms \in [Works -> Hosted] /\ cms[i] \in Hosted
    BY <1>1, <1>2 DEF EnrichShape
  <2>2. CASE ~tags
    BY <1>1, <2>1, <2>2 DEF EnrichShape
  <2>3. CASE tags
    <3>1. [cms[i] EXCEPT !["tags"] = TRUE] \in Hosted /\ [cms[i] EXCEPT !["tags"] = TRUE].words = cms[i].words
      BY <2>1 DEF Hosted
    <3>2. Pushed("tags", TRUE)
      BY <1>1, <2>3
    <3>3. /\ cms' \in [Works -> Hosted] /\ did' \in 0 .. MaxDone /\ unsure \subseteq unsure' /\ unsure' \subseteq Works
          /\ \A j \in Works \ {i} : cms'[j] = cms[j]
          /\ cms'[i] \in {cms[i], [cms[i] EXCEPT !["tags"] = TRUE]}
      BY <1>1, <1>2, <3>1, <3>2, PushedIs
    <3>4. cms'[i].words = cms[i].words
      BY <3>1, <3>3
    <3>. QED  BY <3>3, <3>4
  <2>. QED  BY <2>2, <2>3
<1>6. row' \in [Works -> Titles] /\ \A j \in Works : row'[j].tt = row[j].tt /\ row'[j].poster = row[j].poster
  <2>. DEFINE r == [row[i] EXCEPT !.tags = TRUE]
  <2>. HIDE DEF i
  <2>1. row \in [Works -> Titles] /\ row[i] \in Titles
    BY <1>1, <1>2 DEF EnrichShape
  <2>2. r \in Titles /\ r.tt = row[i].tt /\ r.poster = row[i].poster
    BY <2>1 DEF Titles
  <2>. HIDE DEF r
  <2>3. CASE tags
    <3>1. row' \in [Works -> Titles] /\ row'[i] = r /\ \A j \in Works \ {i} : row'[j] = row[j]
      BY <1>1, <1>2, <2>1, <2>2, <2>3 DEF r
    <3>. QED  BY <2>1, <2>2, <3>1
  <2>4. CASE ~tags
    BY <1>1, <2>1, <2>4
  <2>. QED  BY <2>3, <2>4
<1>7. EnrichShape' /\ AdminNumberStays'
  BY <1>1, <1>4, <1>5, <1>6 DEF EnrichInv, EnrichShape, AdminNumberStays
<1>8. StampedIsThere'
  <2>. HIDE DEF i
  <2>. QED  BY <1>2, <1>4, <1>5 DEF EnrichInv, StampedIsThere
<1>9. Gentle
  <2>1. \A j \in Works : state'[j].stamps \subseteq state[j].stamps \cup {"title", "tags"}
    BY <1>4
  <2>2. work.dry => UNCHANGED <<cms, row>>
    BY <1>1
  <2>. QED  BY <1>6, <2>1, <2>2, PosterSame DEF Gentle, DryRunQuiet
<1>. QED  BY <1>3, <1>7, <1>8, <1>9 DEF EnrichInv

LEMMA SyncedStep == ASSUME EnrichInv, NEW i \in Works, Synced(i) PROVE EnrichInv' /\ Gentle
<1>1. EnrichShape /\ UNCHANGED <<cms, state, work, did, given, unsure>>
  BY DEF EnrichInv, Synced
<1>. DEFINE found == IF "derived" \in KnownTts THEN "derived" ELSE "thumb"
            r1 == [row EXCEPT ![i].title = cms[i].title]
            r2 == [r1 EXCEPT ![i].words = cms[i].words]
            r3 == [r2 EXCEPT ![i].tags = cms[i].tags]
            r4 == [r3 EXCEPT ![i].poster = IF @ \in Keys THEN @ ELSE found]
<1>2. row' = r4
  BY DEF Synced
<1>3. cms[i].title \in {"raw", "clean"} /\ cms[i].words \in {"poor"} \cup Keys /\ cms[i].tags \in BOOLEAN
      /\ row \in [Works -> Titles] /\ found \in {"thumb"} \cup Keys
  BY <1>1 DEF EnrichShape, Hosted, Keys
<1>. HIDE DEF found
<1>4. /\ r1 \in [Works -> Titles] /\ r1[i].tt = row[i].tt /\ r1[i].poster = row[i].poster
      /\ \A j \in Works \ {i} : r1[j] = row[j]
  <2>1. row[i] \in Titles /\ [row[i] EXCEPT !.title = cms[i].title] \in Titles
    BY <1>3 DEF Titles
  <2>2. [row[i] EXCEPT !.title = cms[i].title].tt = row[i].tt /\ [row[i] EXCEPT !.title = cms[i].title].poster = row[i].poster
    BY <2>1 DEF Titles
  <2>. QED  BY <1>3, <2>1, <2>2
<1>. HIDE DEF r1
<1>5. /\ r2 \in [Works -> Titles] /\ r2[i].tt = row[i].tt /\ r2[i].poster = row[i].poster
      /\ \A j \in Works \ {i} : r2[j] = row[j]
  <2>1. r1[i] \in Titles /\ [r1[i] EXCEPT !.words = cms[i].words] \in Titles
    BY <1>3, <1>4 DEF Titles
  <2>2. [r1[i] EXCEPT !.words = cms[i].words].tt = r1[i].tt /\ [r1[i] EXCEPT !.words = cms[i].words].poster = r1[i].poster
    BY <2>1 DEF Titles
  <2>. QED  BY <1>4, <2>1, <2>2
<1>. HIDE DEF r2
<1>6. /\ r3 \in [Works -> Titles] /\ r3[i].tt = row[i].tt /\ r3[i].poster = row[i].poster
      /\ \A j \in Works \ {i} : r3[j] = row[j]
  <2>1. r2[i] \in Titles /\ [r2[i] EXCEPT !.tags = cms[i].tags] \in Titles
    BY <1>3, <1>5 DEF Titles
  <2>2. [r2[i] EXCEPT !.tags = cms[i].tags].tt = r2[i].tt /\ [r2[i] EXCEPT !.tags = cms[i].tags].poster = r2[i].poster
    BY <2>1 DEF Titles
  <2>. QED  BY <1>5, <2>1, <2>2
<1>. HIDE DEF r3
<1>7. /\ r4 \in [Works -> Titles] /\ r4[i].tt = row[i].tt /\ (row[i].poster \in Keys => r4[i].poster = row[i].poster)
      /\ \A j \in Works \ {i} : r4[j] = row[j]
  <2>. DEFINE p == IF r3[i].poster \in Keys THEN r3[i].poster ELSE found
  <2>1. r3[i] \in Titles /\ p \in {"none", "thumb"} \cup Keys /\ r4 = [r3 EXCEPT ![i].poster = p]
    BY <1>3, <1>6 DEF Titles
  <2>2. row[i].poster \in Keys => p = row[i].poster
    BY <1>6
  <2>. HIDE DEF p
  <2>3. [r3[i] EXCEPT !.poster = p] \in Titles /\ [r3[i] EXCEPT !.poster = p].tt = r3[i].tt /\ [r3[i] EXCEPT !.poster = p].poster = p
    BY <2>1 DEF Titles
  <2>. HIDE DEF r4
  <2>. QED  BY <1>6, <2>1, <2>2, <2>3
<1>. HIDE DEF r4
<1>8. EnrichShape' /\ AdminNumberStays'
  BY <1>1, <1>2, <1>7 DEF EnrichInv, EnrichShape, AdminNumberStays
<1>9. Going(work)' /\ GotRight' /\ NoNumber' /\ StampedIsThere'
  BY <1>1 DEF EnrichInv, GotRight, NoNumber, Step, Film, StampedIsThere
<1>10. Gentle
  <2>1. "thumb" \notin Keys
    BY EnrichmentAssumption DEF Keys
  <2>2. PosterKept
    BY <1>2, <1>7, <2>1 DEF PosterKept
  <2>. QED  BY <1>1, <2>2 DEF Gentle, DryRunQuiet
<1>. QED  BY <1>8, <1>9, <1>10 DEF EnrichInv

LEMMA AdminEditsStep == ASSUME EnrichInv, NEW i \in Works, AdminEdits(i) PROVE EnrichInv' /\ Gentle
<1>1. EnrichShape /\ UNCHANGED <<cms, work, unsure>> /\ did' \in 0 .. MaxDone /\ Going(work)'
  BY EnrichmentAssumption DEF EnrichInv, EnrichShape, AdminEdits, Another
<1>2. row \in [Works -> Titles] /\ row[i] \in Titles /\ state \in [Works -> States] /\ state[i] \in States
      /\ given \in [Works -> {"none"} \cup Tts]
  BY <1>1 DEF EnrichShape
<1>3. Step' = Step /\ Film' = Film
  BY <1>1 DEF Step, Film
<1>4. GotRight' /\ DryRunQuiet
  BY <1>1, <1>3 DEF EnrichInv, GotRight, DryRunQuiet
<1>5. CASE \E tt \in Tts : /\ row' = [row EXCEPT ![i].tt = tt] /\ UNCHANGED state
                          /\ given' = [given EXCEPT ![i] = IF OnRow(i) /\ Step = "identify" THEN "none" ELSE tt]
  <2>1. PICK tt \in Tts : /\ row' = [row EXCEPT ![i].tt = tt] /\ UNCHANGED state
                          /\ given' = [given EXCEPT ![i] = IF OnRow(i) /\ Step = "identify" THEN "none" ELSE tt]
    BY <1>5
  <2>2. [row[i] EXCEPT !.tt = tt] \in Titles /\ [row[i] EXCEPT !.tt = tt].tt = tt /\ [row[i] EXCEPT !.tt = tt].poster = row[i].poster
    BY <1>2 DEF Titles
  <2>3. /\ row' \in [Works -> Titles] /\ row'[i].tt = tt /\ row'[i].poster = row[i].poster
        /\ \A j \in Works \ {i} : row'[j] = row[j]
    BY <1>2, <2>1, <2>2
  <2>4. /\ given' \in [Works -> {"none"} \cup Tts] /\ given'[i] \in {"none", tt} /\ \A j \in Works \ {i} : given'[j] = given[j]
        /\ (OnRow(i) /\ Step = "identify" => given'[i] = "none")
    BY <1>2, <2>1
  <2>5. EnrichShape' /\ AdminNumberStays' /\ StampedIsThere'
    BY <1>1, <2>1, <2>3, <2>4 DEF EnrichInv, EnrichShape, AdminNumberStays, StampedIsThere
  <2>6. PosterKept
    BY <2>3, PosterSame
  <2>7. NoNumber'
    <3>. SUFFICES ASSUME work.pc # "idle", Step = "identify", NEW k \in DOMAIN work.todo, work.todo[k].tt = "none"
                  PROVE  given'[work.todo[k].id] = "none"
      BY <1>1, <1>3 DEF NoNumber
    <3>1. given[work.todo[k].id] = "none" /\ work.todo[k].id \in Works
      <4>1. work.todo \in Seq(Rows) /\ work.todo[k] \in Rows
        BY DEF EnrichInv, Going, RunRecords
      <4>. QED  BY <4>1 DEF EnrichInv, NoNumber, Rows
    <3>2. CASE work.todo[k].id = i
      <4>1. OnRow(i)
        BY <3>2 DEF OnRow
      <4>. QED  BY <2>4, <3>2, <4>1
    <3>3. CASE work.todo[k].id # i
      BY <2>4, <3>1, <3>3
    <3>. QED  BY <3>2, <3>3
  <2>. QED  BY <1>1, <1>4, <2>5, <2>6, <2>7 DEF EnrichInv, Gentle
<1>6. CASE \E tt \in Tts : row' = [row EXCEPT ![i].art = tt] /\ UNCHANGED <<state, given>>
  <2>1. PICK tt \in Tts : row' = [row EXCEPT ![i].art = tt] /\ UNCHANGED <<state, given>>
    BY <1>6
  <2>2. [row[i] EXCEPT !.art = tt] \in Titles /\ [row[i] EXCEPT !.art = tt].tt = row[i].tt /\ [row[i] EXCEPT !.art = tt].poster = row[i].poster
    BY <1>2 DEF Titles
  <2>3. /\ row' \in [Works -> Titles] /\ row'[i].tt = row[i].tt /\ row'[i].poster = row[i].poster
        /\ \A j \in Works \ {i} : row'[j] = row[j]
    BY <1>2, <2>1, <2>2
  <2>4. EnrichShape' /\ AdminNumberStays' /\ StampedIsThere' /\ NoNumber'
    BY <1>1, <1>3, <2>1, <2>3 DEF EnrichInv, EnrichShape, AdminNumberStays, StampedIsThere, NoNumber
  <2>5. PosterKept
    BY <2>3, PosterSame
  <2>. QED  BY <1>1, <1>4, <2>4, <2>5 DEF EnrichInv, Gentle
<1>7. CASE state' = [state EXCEPT ![i].lookup = "edited"] /\ UNCHANGED <<row, given>>
  <2>1. [state[i] EXCEPT !.lookup = "edited"] \in States /\ [state[i] EXCEPT !.lookup = "edited"].stamps = state[i].stamps
    BY <1>2 DEF States
  <2>2. /\ state' \in [Works -> States] /\ state'[i].stamps = state[i].stamps
        /\ \A j \in Works \ {i} : state'[j] = state[j]
    BY <1>2, <1>7, <2>1
  <2>3. EnrichShape' /\ AdminNumberStays' /\ StampedIsThere' /\ NoNumber'
    BY <1>1, <1>3, <1>7, <2>2 DEF EnrichInv, EnrichShape, AdminNumberStays, StampedIsThere, NoNumber
  <2>4. PosterKept
    BY <1>7, PosterSame
  <2>. QED  BY <1>1, <1>4, <2>3, <2>4 DEF EnrichInv, Gentle
<1>. QED  BY <1>5, <1>6, <1>7 DEF AdminEdits

LEMMA EnrichInitially == ASSUME EnrichmentInit PROVE EnrichInv
<1>1. EnrichShape
  BY EnrichmentAssumption DEF EnrichmentInit, EnrichShape, Hosted, Titles, States
<1>2. Going(work) /\ work.pc = "idle"
  BY NoWorkIs DEF EnrichmentInit
<1>3. \A i \in Works : given[i] = "none" /\ state[i].stamps = {}
  BY DEF EnrichmentInit
<1>. QED  BY <1>1, <1>2, <1>3 DEF EnrichInv, GotRight, NoNumber, AdminNumberStays, StampedIsThere

\* Every step keeps what is known of the films, and is as gentle as promised.
LEMMA EnrichInductive == ASSUME EnrichInv, EnrichmentNext PROVE EnrichInv' /\ Gentle
BY StartStep, DiesStep, LoadStep, ClassifyStep, IdentifyStep, PromoteStep, TitleSameStep, TitlePushStep, TitleSaveStep,
   SkipStep, MetaPushStep, MetaSaveStep, ArtSaveStep, TagsStepStep, SyncedStep, AdminEditsStep DEF EnrichmentNext, WorkStep

LEMMA EnrichInvSafe == ASSUME EnrichInv PROVE EnrichmentSafe
<1>1. work.pc \in {"idle", "load", "item", "save"} /\ (work.pc \in {"item", "save"} => work.todo # <<>>)
      /\ (work.pc # "idle" => work.steps # <<>>)
  BY DEF EnrichInv, Going, RunRecords
<1>. QED  BY <1>1, MostIs DEF EnrichInv, EnrichShape, EnrichmentSafe, EnrichmentType, Hosted, Titles, States
-----------------------------------------------------------------------------
\* What holds of all of them.
LiveInv == SockInv /\ RaceInv /\ LimitInv /\ EnrichInv

\* A step is one of each of them, or leaves it alone.
LEMMA LiveSteps ==
  ASSUME [LiveNext]_liveVars
  PROVE  [SocketsNext]_socketVars /\ [RaceNext]_raceVars /\ [LimitsNext]_limitVars /\ [EnrichmentNext]_enrichVars
BY DEF LiveNext, liveVars, InSockets, InRace, InDevices, InLimits, InEnrichment

LEMMA LiveInitially == LiveInit => LiveInv
BY SockInitially, RaceInitially, LimitsInitially, EnrichInitially DEF LiveInit, LiveInv

LEMMA LiveInductive == LiveInv /\ [LiveNext]_liveVars => LiveInv' /\ [Gentle]_enrichVars
<1>. SUFFICES ASSUME LiveInv, [LiveNext]_liveVars PROVE LiveInv' /\ [Gentle]_enrichVars
  OBVIOUS
<1>1. SockInv' /\ RaceInv' /\ LimitInv'
  BY LiveSteps, SockInductive, RaceInductive, LimitsInductive DEF LiveInv
<1>2. CASE EnrichmentNext
  BY <1>1, <1>2, EnrichInductive DEF LiveInv
<1>3. CASE UNCHANGED enrichVars
  <2>1. EnrichInv'
    BY <1>3 DEF LiveInv, enrichVars, EnrichInv, EnrichShape, GotRight, NoNumber, Step, Film, AdminNumberStays, StampedIsThere
  <2>. QED  BY <1>1, <1>3, <2>1 DEF LiveInv
<1>. QED  BY <1>2, <1>3, LiveSteps

\* A page that listens is in the list that broadcasts go through, whatever
\* connects, breaks and comes again meanwhile, and a page of the race knows
\* the timeline of what it shows.
THEOREM PagesSafeCorrect == LiveSpec => []PagesSafe
<1>1. LiveInv => PagesSafe
  <2>1. SockInv => SocketsType /\ Registered
    BY DEF SockInv, SockShape, Listed, Registered
  <2>2. RaceInv => RaceType /\ TimelineKnown
    BY DEF RaceInv, RaceShape
  <2>. QED  BY <2>1, <2>2 DEF LiveInv, PagesSafe
<1>. QED  BY <1>1, LiveInitially, LiveInductive, PTL DEF LiveSpec

\* However requests fall, each window lets through what it allows, and none is
\* refused but by a window that is full of requests let through.
THEOREM LimitsSafeCorrect == LiveSpec => []LimitsSafe
<1>1. LiveInv => LimitsSafe
  BY LimitInvSafe DEF LiveInv
<1>. QED  BY <1>1, LiveInitially, LiveInductive, PTL DEF LiveSpec

\* A number an admin gave stays and a film stamped "meta" has its data in
\* MediaCMS too, through runs, crashes, syncs and edits in any order.
THEOREM EnrichmentSafeCorrect == LiveSpec => []EnrichmentSafe
<1>1. LiveInv => EnrichmentSafe
  BY EnrichInvSafe DEF LiveInv
<1>. QED  BY <1>1, LiveInitially, LiveInductive, PTL DEF LiveSpec

\* No step of a run takes a real poster away unless forced, and none of a dry
\* run changes a film but for the stamps of titles and tags.
THEOREM RunsGentleCorrect == LiveSpec => RunsGentle
<1>1. LiveSpec => [][Gentle]_enrichVars
  BY LiveInitially, LiveInductive, PTL DEF LiveSpec
<1>2. Gentle <=> PosterKept /\ DryRunQuiet
  BY DEF Gentle
<1>. QED  BY <1>1, <1>2, PTL DEF RunsGentle

-----------------------------------------------------------------------------
(***************************************************************************)
(* Saved playlists.  What the items of a list amount to is the order of    *)
(* their positions, so first: a finite set of items of which no two are at *)
(* one position has a listing, and the listing of a list's own table is    *)
(* the list.                                                               *)
(***************************************************************************)
Placed(t) == t \subseteq Entry /\ IsFiniteSet(t) /\ \A r, s \in t : r.at = s.at => r = s
Rising(q) == \A i, j \in DOMAIN q : i < j => q[i].at < q[j].at
Sorted(t) == \E q \in [1 .. Cardinality(t) -> t] : Rising(q)

LEMMA EmptyPlaced == Placed({})
BY FS_EmptySet DEF Placed

\* A table less one of its items is a table.
LEMMA FewerPlaced == ASSUME NEW t, Placed(t), NEW u \in SUBSET t PROVE Placed(u)
BY FS_Subset DEF Placed

\* A table has an item behind all others.
LEMMA HasLast ==
  ASSUME NEW t, Placed(t), t # {}
  PROVE  \E r \in t : \A s \in t : r.at >= s.at
<1>. DEFINE f == [r \in t |-> r.at]
<1>1. IsFiniteSet({f[r] : r \in t})
  <2>1. f = [r \in t |-> f[r]] /\ IsFiniteSet(t)
    BY DEF Placed
  <2>. HIDE DEF f
  <2>. QED BY <2>1, FiniteImage
<1>2. {f[r] : r \in t} \subseteq Nat /\ {f[r] : r \in t} # {}
  BY DEF Placed, Entry
<1>3. PICK x \in {f[r] : r \in t} : \A y \in {f[r] : r \in t} : x >= y
  <2>. HIDE DEF f
  <2>. QED BY <1>1, <1>2, NatMax
<1>4. PICK r \in t : x = r.at
  BY <1>3
<1>5. \A s \in t : f[s] \in {f[z] : z \in t} /\ f[s] = s.at
  OBVIOUS
<1>. QED BY <1>3, <1>4, <1>5

\* With the last item behind it, a listing of the others is one of them all.
LEMMA OneMore ==
  ASSUME NEW t, Placed(t), NEW r \in t, \A s \in t : r.at >= s.at, Sorted(t \ {r})
  PROVE  Sorted(t)
<1>. DEFINE u == t \ {r}
            n == Cardinality(t)
<1>1. Cardinality(u) = n - 1 /\ n \in Nat /\ Cardinality(u) \in Nat
  BY FS_RemoveElement, FS_CardinalityType DEF Placed
<1>2. PICK p \in [1 .. n - 1 -> u] : Rising(p)
  BY <1>1 DEF Sorted
<1>. DEFINE q == [i \in 1 .. n |-> IF i = n THEN r ELSE p[i]]
<1>3. \A i \in 1 .. n : i # n => i \in 1 .. n - 1 /\ p[i] \in t /\ p[i] # r /\ q[i] = p[i]
  BY <1>1, <1>2
<1>4. q \in [1 .. n -> t]
  BY <1>3
<1>5. \A s \in t : s # r => s.at < r.at
  BY DEF Placed, Entry
<1>6. ASSUME NEW i \in 1 .. n, NEW j \in 1 .. n, i < j PROVE q[i].at < q[j].at
  <2>1. i # n
    BY <1>1, <1>6
  <2>2. CASE j = n
    BY <2>1, <2>2, <1>3, <1>5
  <2>3. CASE j # n
    BY <2>1, <2>3, <1>2, <1>3, <1>6 DEF Rising
  <2>. QED BY <2>2, <2>3
<1>7. Rising(q)
  BY <1>6 DEF Rising
<1>. HIDE DEF q
<1>. QED BY <1>4, <1>7 DEF Sorted

\* Every table can be listed: of those that cannot the smallest is not empty,
\* and without its last item it can.
LEMMA AllSorted == ASSUME NEW t, Placed(t) PROVE Sorted(t)
<1>. DEFINE Wild == {u \in SUBSET t : ~Sorted(u)}
            sizes == {Cardinality(u) : u \in Wild}
<1>1. \A u \in SUBSET t : Placed(u) /\ Cardinality(u) \in Nat
  BY FewerPlaced, FS_CardinalityType DEF Placed
<1>2. SUFFICES ASSUME Wild # {} PROVE FALSE
  OBVIOUS
<1>3. sizes \subseteq Nat /\ sizes # {}
  BY <1>1, <1>2
<1>4. PICK n \in sizes : \A m \in sizes : n <= m
  <2>. HIDE DEF sizes
  <2>. QED BY <1>3, NatMin
<1>5. PICK u \in Wild : Cardinality(u) = n
  BY <1>4
<1>6. \A v \in Wild : Cardinality(u) <= Cardinality(v)
  BY <1>4, <1>5
<1>7. u # {}
  <2>1. SUFFICES ASSUME u = {} PROVE FALSE
    OBVIOUS
  <2>2. Cardinality(u) = 0
    BY <2>1, FS_EmptySet
  <2>4. <<>> \in [1 .. Cardinality(u) -> u]
    BY <2>2
  <2>3. Rising(<<>>)
    BY DEF Rising
  <2>. QED BY <1>5, <2>3, <2>4 DEF Sorted
<1>8. PICK r \in u : \A s \in u : r.at >= s.at
  BY <1>1, <1>5, <1>7, HasLast
<1>9. Cardinality(u \ {r}) = Cardinality(u) - 1
  BY <1>1, <1>5, <1>8, FS_RemoveElement DEF Placed
<1>10. u \ {r} \notin Wild
  BY <1>1, <1>5, <1>6, <1>9
<1>11. Sorted(u \ {r})
  BY <1>5, <1>10
<1>. QED BY <1>1, <1>5, <1>8, <1>11, OneMore

LEMMA ListingOf ==
  ASSUME NEW t, Placed(t)
  PROVE  /\ Ordered(t) \in [1 .. Cardinality(t) -> t] /\ Rising(Ordered(t))
         /\ Cardinality(t) \in Nat
         /\ Listing(t) = [i \in 1 .. Cardinality(t) |-> Ordered(t)[i].media]
         /\ Listing(t) \in Seq(Medias)
<1>1. Ordered(t) \in [1 .. Cardinality(t) -> t] /\ Rising(Ordered(t))
  BY AllSorted DEF Sorted, Rising, Ordered
<1>2. Cardinality(t) \in Nat
  BY FS_CardinalityType DEF Placed
<1>3. Listing(t) = [i \in 1 .. Cardinality(t) |-> Ordered(t)[i].media]
  BY <1>1 DEF Listing
<1>4. \A i \in 1 .. Cardinality(t) : Ordered(t)[i].media \in Medias
  BY <1>1 DEF Placed, Entry
<1>5. Listing(t) \in [1 .. Cardinality(t) -> Medias]
  BY <1>3, <1>4
<1>. QED BY <1>1, <1>2, <1>3, <1>5, SeqDef

\* The items of a list, numbered from the top.
Table(ms) == {[at |-> i - 1, media |-> ms[i]] : i \in DOMAIN ms}

LEMMA TablePlaced ==
  ASSUME NEW ms \in Seq(Medias)
  PROVE  Placed(Table(ms)) /\ Cardinality(Table(ms)) = Len(ms)
<1>. DEFINE f == [i \in 1 .. Len(ms) |-> [at |-> i - 1, media |-> ms[i]]]
            t == Table(ms)
<1>1. Len(ms) \in Nat /\ DOMAIN ms = 1 .. Len(ms)
  OBVIOUS
<1>2. \A i \in 1 .. Len(ms) : f[i].at = i - 1 /\ f[i].media = ms[i] /\ f[i] \in Entry
  BY <1>1 DEF Entry
<1>3. t = {f[i] : i \in 1 .. Len(ms)}
  BY <1>1 DEF Table
<1>4. f \in [1 .. Len(ms) -> t]
  BY <1>3
<1>5. f \in Bijection(1 .. Len(ms), t)
  BY <1>1, <1>2, <1>3, <1>4 DEF Bijection, Injection, Surjection, IsInjective
<1>6. IsFiniteSet(1 .. Len(ms)) /\ Cardinality(1 .. Len(ms)) = Len(ms)
  BY <1>1, FS_Interval
<1>7. IsFiniteSet(t) /\ Cardinality(t) = Len(ms)
  BY <1>5, <1>6, FS_Bijection DEF ExistsBijection
<1>8. t \subseteq Entry /\ \A r, s \in t : r.at = s.at => r = s
  BY <1>1, <1>2, <1>3
<1>. QED BY <1>7, <1>8 DEF Placed

\* Positions that rise from nought to as many as there are skip none.
LEMMA NoGap ==
  ASSUME NEW n \in Nat, NEW a \in [1 .. n -> Nat], \A i \in 1 .. n : a[i] < n,
         \A i, j \in 1 .. n : i < j => a[i] < a[j]
  PROVE  \A i \in 1 .. n : a[i] = i - 1
<1>. DEFINE low == {i \in 1 .. n : a[i] < i - 1}
            high == {i \in 1 .. n : a[i] > i - 1}
<1>1. low = {}
  <2>1. SUFFICES ASSUME low # {} PROVE FALSE
    OBVIOUS
  <2>2. low \subseteq Nat
    OBVIOUS
  <2>3. PICK i \in low : \A j \in low : i <= j
    <3>. HIDE DEF low
    <3>. QED BY <2>1, <2>2, NatMin
  <2>4. i \in 1 .. n /\ a[i] < i - 1 /\ a[i] \in Nat
    BY <2>3
  <2>5. i - 1 \in 1 .. n /\ i - 1 \notin low
    BY <2>3, <2>4
  <2>6. a[i - 1] >= i - 2 /\ a[i - 1] \in Nat /\ a[i - 1] < a[i]
    BY <2>4, <2>5
  <2>. QED BY <2>4, <2>6
<1>2. high = {}
  <2>1. SUFFICES ASSUME high # {} PROVE FALSE
    OBVIOUS
  <2>2. high \subseteq Nat /\ IsFiniteSet(high)
    BY FS_Interval, FS_Subset
  <2>3. PICK i \in high : \A j \in high : i >= j
    <3>. HIDE DEF high
    <3>. QED BY <2>1, <2>2, NatMax
  <2>4. i \in 1 .. n /\ a[i] > i - 1 /\ a[i] \in Nat /\ a[i] < n
    BY <2>3
  <2>5. i + 1 \in 1 .. n /\ i + 1 \notin high
    BY <2>3, <2>4
  <2>6. a[i + 1] <= i /\ a[i + 1] \in Nat /\ a[i] < a[i + 1]
    BY <2>4, <2>5
  <2>. QED BY <2>4, <2>6
<1>3. \A i \in 1 .. n : ~(a[i] < i - 1) /\ ~(a[i] > i - 1)
  BY <1>1, <1>2
<1>. HIDE DEF low, high
<1>. QED BY <1>3

\* The listing of a list's own table is the list.
LEMMA TableListed == ASSUME NEW ms \in Seq(Medias) PROVE Listing(Table(ms)) = ms
<1>. DEFINE t == Table(ms)
            q == Ordered(t)
            n == Len(ms)
            a == [i \in 1 .. n |-> q[i].at]
<1>1. n \in Nat /\ ms = [i \in 1 .. n |-> ms[i]]
  OBVIOUS
<1>2. q \in [1 .. n -> t] /\ Rising(q) /\ Listing(t) = [i \in 1 .. n |-> q[i].media]
  BY TablePlaced, ListingOf
<1>3. \A r \in t : \E i \in 1 .. n : r = [at |-> i - 1, media |-> ms[i]]
  BY DEF Table
<1>4. \A i \in 1 .. n : q[i].at \in Nat /\ q[i].at < n /\ q[i].media = ms[q[i].at + 1]
  <2>. TAKE i \in 1 .. n
  <2>1. PICK j \in 1 .. n : q[i] = [at |-> j - 1, media |-> ms[j]]
    BY <1>2, <1>3
  <2>2. q[i].at = j - 1 /\ q[i].media = ms[j]
    BY <2>1
  <2>3. j - 1 + 1 = j /\ j - 1 \in Nat /\ j - 1 < n
    BY <1>1
  <2>. QED BY <2>2, <2>3
<1>5. \A i, j \in 1 .. n : i < j => a[i] < a[j]
  BY <1>2 DEF Rising
<1>6. a \in [1 .. n -> Nat] /\ \A i \in 1 .. n : a[i] < n /\ a[i] = q[i].at
  BY <1>4
<1>7. \A i \in 1 .. n : a[i] = i - 1
  <2>. HIDE DEF a
  <2>. QED BY <1>1, <1>5, <1>6, NoGap
<1>8. \A i \in 1 .. n : q[i].media = ms[i]
  BY <1>4, <1>6, <1>7
<1>. HIDE DEF q, n
<1>. QED BY <1>1, <1>2, <1>8

-----------------------------------------------------------------------------
(***************************************************************************)
(* The inductive invariant.  ListMeant and ListSettled say nothing of a    *)
(* list half written: what carries them from one commit to the next is     *)
(* that, of the list the running call means, the first so many items are   *)
(* in the table and the others are what it has left to write (Halfway),    *)
(* and that outside of that the table is what is on disk.                  *)
(***************************************************************************)
EditLabels == {"idle", "ids", "last", "rows", "items", "wipe", "insert"}
EditOps == {"none", "replace", "append", "many", "rotate"}
EditRow == [pc : EditLabels, op : EditOps, given : Seq(Medias), left : Nat, todo : Seq(Entry)]

Routed(e) ==
  /\ e.pc \in {"ids", "last"} => e.op \in {"append", "many"}
  /\ e.pc \in {"rows", "items"} => e.op = "rotate"
  /\ e.pc = "wipe" => e.op \in {"replace", "rotate"}
  /\ e.op = "rotate" => Len(e.given) = 1

ListsShape ==
  /\ Placed(entries) /\ Placed(saved)
  /\ meant \in Seq(Medias) /\ safe \in BOOLEAN /\ edits \in 0 .. MaxEdits
  /\ edit \in [Callers -> EditRow] /\ \A c \in Callers : Routed(edit[c])

Upper(ms, k) == {[at |-> i - 1, media |-> ms[i]] : i \in 1 .. k}
Lower(ms, k) == [j \in 1 .. Len(ms) - k |-> [at |-> k + j - 1, media |-> ms[k + j]]]

Halfway(e) ==
  LET ms == After(meant, e) IN
  /\ e.pc = "wipe" => e.todo = Lower(ms, 0)
  /\ e.pc = "insert" => \E k \in 0 .. Len(ms) : entries = Upper(ms, k) /\ e.todo = Lower(ms, k)

OneAtWork == \A c, d \in Callers : c # d => edit[c].pc = "idle" \/ edit[d].pc = "idle"

Undisturbed ==
  /\ OneAtWork
  /\ saved = Table(meant)
  /\ (\A c \in Callers : edit[c].pc # "insert") => entries = saved
  /\ \A c \in Callers : Halfway(edit[c])

ListsInv == ListsShape /\ (safe => Undisturbed)

\* What a table holds of a list.
LEMMA Slices ==
  ASSUME NEW ms \in Seq(Medias)
  PROVE  /\ Upper(ms, Len(ms)) = Table(ms) /\ Upper(ms, 0) = {}
         /\ Numbered(ms, 0) = Lower(ms, 0)
         /\ \A k \in 0 .. Len(ms) : Lower(ms, k) = <<>> <=> k = Len(ms)
         /\ \A k \in 0 .. Len(ms) - 1 :
              /\ Head(Lower(ms, k)) = [at |-> k, media |-> ms[k + 1]]
              /\ Tail(Lower(ms, k)) = Lower(ms, k + 1)
              /\ Upper(ms, k) \cup {Head(Lower(ms, k))} = Upper(ms, k + 1)
<1>1. Len(ms) \in Nat /\ DOMAIN ms = 1 .. Len(ms)
  OBVIOUS
<1>2. Upper(ms, Len(ms)) = Table(ms) /\ Upper(ms, 0) = {}
  BY <1>1 DEF Upper, Table
<1>3. Numbered(ms, 0) = Lower(ms, 0)
  BY <1>1 DEF Numbered, Lower
<1>4. ASSUME NEW k \in 0 .. Len(ms)
      PROVE  Lower(ms, k) \in Seq(Entry) /\ Len(Lower(ms, k)) = Len(ms) - k
  <2>1. \A j \in 1 .. Len(ms) - k : k + j - 1 \in Nat /\ k + j \in 1 .. Len(ms)
    BY <1>1
  <2>2. \A j \in 1 .. Len(ms) - k : [at |-> k + j - 1, media |-> ms[k + j]] \in Entry
    BY <2>1, ElementOfSeq DEF Entry
  <2>3. Lower(ms, k) \in [1 .. Len(ms) - k -> Entry]
    BY <2>2 DEF Lower
  <2>4. Len(ms) - k \in Nat
    BY <1>1
  <2>5. Lower(ms, k) \in Seq(Entry)
    BY <2>3, <2>4, SeqDef
  <2>. QED BY <2>3, <2>4, <2>5, LenProperties
<1>5. ASSUME NEW k \in 0 .. Len(ms) PROVE Lower(ms, k) = <<>> <=> k = Len(ms)
  <2>1. Lower(ms, k) \in Seq(Entry) /\ Len(Lower(ms, k)) = Len(ms) - k
    BY <1>4
  <2>2. Lower(ms, k) = <<>> <=> Len(Lower(ms, k)) = 0
    BY <2>1, EmptySeq
  <2>3. Len(ms) - k = 0 <=> k = Len(ms)
    BY <1>1
  <2>. QED BY <2>1, <2>2, <2>3
<1>6. ASSUME NEW k \in 0 .. Len(ms) - 1
      PROVE  /\ Head(Lower(ms, k)) = [at |-> k, media |-> ms[k + 1]]
             /\ Tail(Lower(ms, k)) = Lower(ms, k + 1)
             /\ Upper(ms, k) \cup {Head(Lower(ms, k))} = Upper(ms, k + 1)
  <2>. DEFINE s == Lower(ms, k)
  <2>1. k \in 0 .. Len(ms) /\ k + 1 \in 0 .. Len(ms) /\ Len(ms) - k \in Nat /\ 1 \in 1 .. Len(ms) - k /\ k + 1 - 1 = k
    BY <1>1
  <2>2. Head(s) = s[1] /\ Len(s) = Len(ms) - k /\ s # <<>>
    BY <1>4, <1>5, <2>1
  <2>3. s[1] = [at |-> k, media |-> ms[k + 1]]
    BY <2>1 DEF Lower
  <2>4. Len(Tail(s)) = Len(s) - 1 /\ \A i \in 1 .. Len(Tail(s)) : Tail(s)[i] = s[i + 1]
    BY <1>4, <2>1, <2>2, HeadTailProperties
  <2>5. Tail(s) = [j \in 1 .. Len(ms) - (k + 1) |-> s[j + 1]]
    <3>1. Tail(s) \in Seq(Entry)
      BY <1>4, <2>1, <2>2, HeadTailProperties
    <3>2. Len(s) - 1 = Len(ms) - (k + 1)
      BY <1>1, <2>2
    <3>3. \A u \in Seq(Entry) : u = [i \in 1 .. Len(u) |-> u[i]]
      OBVIOUS
    <3>4. Tail(s) = [i \in 1 .. Len(Tail(s)) |-> Tail(s)[i]]
      BY <3>1, <3>3
    <3>. QED BY <2>2, <2>4, <3>2, <3>4
  <2>6. \A j \in 1 .. Len(ms) - (k + 1) : s[j + 1] = [at |-> (k + 1) + j - 1, media |-> ms[(k + 1) + j]]
    <3>. TAKE j \in 1 .. Len(ms) - (k + 1)
    <3>1. j + 1 \in 1 .. Len(ms) - k /\ k + (j + 1) - 1 = (k + 1) + j - 1 /\ k + (j + 1) = (k + 1) + j
      BY <1>1
    <3>. QED BY <3>1 DEF Lower
  <2>7. Tail(s) = Lower(ms, k + 1)
    BY <2>5, <2>6 DEF Lower
  <2>8. 1 .. k + 1 = (1 .. k) \cup {k + 1}
    BY <2>1
  <2>9. Upper(ms, k) \cup {[at |-> k, media |-> ms[k + 1]]} = Upper(ms, k + 1)
    BY <2>1, <2>8 DEF Upper
  <2>. QED BY <2>2, <2>3, <2>7, <2>9
<1>. QED BY <1>2, <1>3, <1>5, <1>6

\* What a call has to write is items of the table.
LEMMA NumberedItems ==
  ASSUME NEW ms \in Seq(Medias), NEW from \in Nat
  PROVE  Numbered(ms, from) \in Seq(Entry)
<1>1. Len(ms) \in Nat /\ \A i \in 1 .. Len(ms) : ms[i] \in Medias /\ from + i - 1 \in Nat
  BY ElementOfSeq
<1>2. Numbered(ms, from) \in [1 .. Len(ms) -> Entry]
  BY <1>1 DEF Numbered, Entry
<1>. QED BY <1>1, <1>2, SeqDef

\* The first of some places is one of them.
LEMMA MinIn == ASSUME NEW S, S \subseteq Nat, S # {} PROVE Min(S) \in S /\ \A j \in S : Min(S) <= j
BY NatMin DEF Min

LEMMA LastPosIs ==
  ASSUME NEW t, Placed(t)
  PROVE  LastPos(t) + 1 \in Nat
<1>1. CASE t = {}
  BY <1>1 DEF LastPos
<1>2. CASE t # {}
  <2>1. PICK r \in t : \A s \in t : r.at >= s.at
    BY <1>2, HasLast
  <2>2. \E x \in {s.at : s \in t} : \A y \in {s.at : s \in t} : x >= y
    BY <2>1
  <2>3. Max({s.at : s \in t}) \in {s.at : s \in t}
    BY <2>2 DEF Max
  <2>4. Max({s.at : s \in t}) \in Nat
    BY <2>3 DEF Placed, Entry
  <2>. QED BY <1>2, <2>4 DEF LastPos
<1>. QED BY <1>1, <1>2

\* The positions of a list's own table go up to its length.
LEMMA TableEnd == ASSUME NEW ms \in Seq(Medias) PROVE LastPos(Table(ms)) + 1 = Len(ms)
<1>. DEFINE ats == {r.at : r \in Table(ms)}
<1>1. Len(ms) \in Nat /\ DOMAIN ms = 1 .. Len(ms)
  OBVIOUS
<1>2. \A y : y \in ats <=> \E i \in 1 .. Len(ms) : y = i - 1
  <2>1. ASSUME NEW i \in 1 .. Len(ms) PROVE i - 1 \in ats
    <3>. DEFINE r == [at |-> i - 1, media |-> ms[i]]
    <3>1. r \in Table(ms) /\ r.at = i - 1
      BY <1>1 DEF Table
    <3>. HIDE DEF r
    <3>. QED BY <3>1
  <2>2. ASSUME NEW y \in ats PROVE \E i \in 1 .. Len(ms) : y = i - 1
    BY <1>1, <2>2 DEF Table
  <2>. QED BY <2>1, <2>2
<1>3. CASE Len(ms) = 0
  <2>1. Table(ms) = {}
    BY <1>1, <1>3 DEF Table
  <2>. QED BY <1>3, <2>1 DEF LastPos
<1>4. CASE Len(ms) # 0
  <2>1. Table(ms) # {}
    <3>1. Len(ms) - 1 \in ats
      <4>1. Len(ms) \in 1 .. Len(ms)
        BY <1>1, <1>4
      <4>. HIDE DEF ats
      <4>. QED BY <1>2, <4>1
    <3>. QED BY <3>1
  <2>2. Len(ms) - 1 \in ats /\ \A y \in ats : y \in Int /\ Len(ms) - 1 >= y
    <3>. HIDE DEF ats
    <3>. QED BY <1>1, <1>2, <1>4
  <2>3. Max(ats) \in ats /\ \A y \in ats : Max(ats) >= y
    <3>. HIDE DEF ats
    <3>. QED BY <2>2 DEF Max
  <2>4. Max(ats) = Len(ms) - 1
    <3>. HIDE DEF ats
    <3>. QED BY <1>1, <2>2, <2>3
  <2>. QED BY <1>1, <2>1, <2>4 DEF LastPos
<1>. QED BY <1>1, <1>3, <1>4

\* An append writes on where the list ends.
LEMMA Appending ==
  ASSUME NEW ms \in Seq(Medias), NEW new \in Seq(Medias)
  PROVE  /\ ms \o new \in Seq(Medias) /\ Len(ms) \in 0 .. Len(ms \o new)
         /\ Table(ms) = Upper(ms \o new, Len(ms))
         /\ Numbered(new, Len(ms)) = Lower(ms \o new, Len(ms))
<1>1. Len(ms) \in Nat /\ Len(new) \in Nat /\ DOMAIN ms = 1 .. Len(ms) /\ DOMAIN new = 1 .. Len(new)
  OBVIOUS
<1>2. ms \o new \in Seq(Medias) /\ Len(ms \o new) = Len(ms) + Len(new)
  BY ConcatProperties
<1>3. \A i \in 1 .. Len(ms) : (ms \o new)[i] = ms[i]
  BY <1>1, ConcatProperties
<1>4. \A j \in 1 .. Len(new) : (ms \o new)[Len(ms) + j] = new[j]
  BY <1>1, ConcatProperties
<1>5. Table(ms) = Upper(ms \o new, Len(ms))
  BY <1>1, <1>3 DEF Table, Upper
<1>6. Len(ms \o new) - Len(ms) = Len(new)
  BY <1>1, <1>2
<1>7. Numbered(new, Len(ms)) = Lower(ms \o new, Len(ms))
  BY <1>1, <1>4, <1>6 DEF Numbered, Lower
<1>. QED BY <1>1, <1>2, <1>5, <1>7

\* What a rotation writes is the list without the first of the item played,
\* and the item behind.
LEMMA Sinking ==
  ASSUME NEW ms \in Seq(Medias), NEW m, NEW places,
         places = {i \in DOMAIN ms : ms[i] = m}, places # {}
  PROVE  /\ Min(places) \in DOMAIN ms /\ ms[Min(places)] = m
         /\ Sunk(ms, Min(places)) = RemoveFirst(ms, m) \o <<m>>
<1>1. Len(ms) \in Nat /\ DOMAIN ms = 1 .. Len(ms)
  OBVIOUS
<1>2. Min(places) \in DOMAIN ms /\ ms[Min(places)] = m
  <2>1. places \subseteq Nat
    BY <1>1
  <2>2. Min(places) \in places
    BY <2>1, MinIn
  <2>. QED BY <2>2
<1>3. \E i \in 1 .. Len(ms) : ms[i] = m
  BY <1>1, <1>2
<1>4. SelectInSeq(ms, LAMBDA v : v = m) = Min(places)
  BY <1>1 DEF SelectInSeq
<1>5. RemoveFirst(ms, m) = SubSeq(ms, 1, Min(places) - 1) \o SubSeq(ms, Min(places) + 1, Len(ms))
  BY <1>3, <1>4 DEF RemoveFirst, RemoveAt
<1>. QED BY <1>2, <1>5 DEF Sunk

LEMMA SunkIs ==
  ASSUME NEW ms \in Seq(Medias), NEW i \in DOMAIN ms
  PROVE  Sunk(ms, i) \in Seq(Medias)
<1>1. Len(ms) \in Nat /\ i \in 1 .. Len(ms) /\ ms[i] \in Medias
  OBVIOUS
<1>2. SubSeq(ms, 1, i - 1) \in Seq(Medias)
  BY <1>1, SubSeqProperties
<1>3. SubSeq(ms, i + 1, Len(ms)) \in Seq(Medias)
  BY <1>1, SubSeqProperties
<1>4. <<ms[i]>> \in Seq(Medias)
  BY <1>1
<1>. QED BY <1>2, <1>3, <1>4, ConcatProperties DEF Sunk

\* What is left of the media that are to be appended.
LEMMA FreshIs ==
  ASSUME NEW ms \in Seq(Medias), NEW present
  PROVE  Fresh(ms, present) \in Seq(Medias)
<1>. DEFINE K == {k \in DOMAIN ms : ms[k] \notin present /\ \A j \in 1 .. k - 1 : ms[j] # ms[k]}
            f == [i \in K |-> [at |-> i, media |-> ms[i]]]
            t == {[at |-> i, media |-> ms[i]] : i \in K}
<1>1. Len(ms) \in Nat /\ DOMAIN ms = 1 .. Len(ms) /\ \A i \in 1 .. Len(ms) : ms[i] \in Medias
  BY ElementOfSeq
<1>2. IsFiniteSet(K)
  <2>1. K \in SUBSET (1 .. Len(ms)) /\ IsFiniteSet(1 .. Len(ms))
    BY <1>1, FS_Interval
  <2>. HIDE DEF K
  <2>. QED BY <2>1, FS_Subset
<1>3. IsFiniteSet({f[i] : i \in K})
  <2>1. f = [i \in K |-> f[i]]
    OBVIOUS
  <2>. HIDE DEF f, K
  <2>. QED BY <1>2, <2>1, FiniteImage
<1>4. t = {f[i] : i \in K}
  OBVIOUS
<1>5. t \subseteq Entry /\ \A r, s \in t : r.at = s.at => r = s
  BY <1>1 DEF Entry
<1>6. Placed(t)
  BY <1>3, <1>4, <1>5 DEF Placed
<1>7. Fresh(ms, present) = Listing(t)
  BY DEF Fresh
<1>. HIDE DEF t
<1>. QED BY <1>6, <1>7, ListingOf

LEMMA AfterIs ==
  ASSUME NEW ms \in Seq(Medias), NEW e \in EditRow
  PROVE  After(ms, e) \in Seq(Medias)
<1>1. e.given \in Seq(Medias)
  BY DEF EditRow
<1>2. CASE e.op = "replace"
  BY <1>1, <1>2 DEF After
<1>3. CASE e.op = "rotate"
  <2>1. RemoveFirst(ms, e.given[1]) \in Seq(Medias)
    <3>1. CASE ~\E i \in 1 .. Len(ms) : ms[i] = e.given[1]
      BY <3>1 DEF RemoveFirst
    <3>2. CASE \E i \in 1 .. Len(ms) : ms[i] = e.given[1]
      <4>. DEFINE places == {i \in DOMAIN ms : ms[i] = e.given[1]}
      <4>1. places # {} /\ Len(ms) \in Nat /\ DOMAIN ms = 1 .. Len(ms)
        BY <3>2
      <4>2. Min(places) \in DOMAIN ms
        <5>1. places \subseteq Nat
          BY <4>1
        <5>2. Min(places) \in places
          <6>. HIDE DEF places
          <6>. QED BY <4>1, <5>1, MinIn
        <5>. QED BY <5>2
      <4>3. SelectInSeq(ms, LAMBDA v : v = e.given[1]) = Min(places)
        BY <4>1 DEF SelectInSeq
      <4>4. RemoveFirst(ms, e.given[1]) = SubSeq(ms, 1, Min(places) - 1) \o SubSeq(ms, Min(places) + 1, Len(ms))
        BY <3>2, <4>3 DEF RemoveFirst, RemoveAt
      <4>. HIDE DEF places
      <4>5. SubSeq(ms, 1, Min(places) - 1) \in Seq(Medias)
        BY <4>1, <4>2, SubSeqProperties
      <4>6. SubSeq(ms, Min(places) + 1, Len(ms)) \in Seq(Medias)
        BY <4>1, <4>2, SubSeqProperties
      <4>. QED BY <4>4, <4>5, <4>6, ConcatProperties
    <3>. QED BY <3>1, <3>2
  <2>. QED BY <1>1, <1>3, <2>1, ConcatProperties DEF After
<1>4. CASE e.op \notin {"replace", "rotate"}
  BY <1>1, <1>4, ConcatProperties DEF After
<1>. QED BY <1>2, <1>3, <1>4

-----------------------------------------------------------------------------
\* One call moves on.
LEMMA ShapeBy ==
  ASSUME ListsShape, NEW c \in Callers, NEW e \in EditRow, Routed(e), edit' = [edit EXCEPT ![c] = e],
         Placed(entries)', Placed(saved)', meant' \in Seq(Medias), safe' \in BOOLEAN, edits' \in 0 .. MaxEdits
  PROVE  ListsShape'
<1>1. \A d \in Callers : edit'[d] = IF d = c THEN e ELSE edit[d]
  BY DEF ListsShape
<1>2. edit' \in [Callers -> EditRow]
  BY DEF ListsShape
<1>3. \A d \in Callers : Routed(edit[d])
  BY DEF ListsShape
<1>4. \A d \in Callers : Routed(edit'[d])
  BY <1>1, <1>3
<1>. QED BY <1>2, <1>4 DEF ListsShape

LEMMA UndisturbedBy ==
  ASSUME ListsShape, NEW c \in Callers, NEW e \in EditRow, edit' = [edit EXCEPT ![c] = e],
         \A d \in Callers \ {c} : edit[d].pc = "idle",
         saved' = Table(meant'), e.pc # "insert" => entries' = saved', Halfway(e)'
  PROVE  Undisturbed'
<1>1. \A d \in Callers : edit'[d] = IF d = c THEN e ELSE edit[d]
  BY DEF ListsShape
<1>2. \A d \in Callers \ {c} : edit'[d].pc = "idle"
  BY <1>1
<1>3. OneAtWork'
  BY <1>2 DEF OneAtWork
<1>4. (\A d \in Callers : edit'[d].pc # "insert") => entries' = saved'
  BY <1>1
<1>5. ASSUME NEW d \in Callers PROVE Halfway(edit[d])'
  <2>1. CASE d = c
    BY <1>1, <2>1 DEF Halfway
  <2>2. CASE d # c
    BY <1>2, <2>2 DEF Halfway
  <2>. QED BY <2>1, <2>2
<1>. QED BY <1>3, <1>4, <1>5 DEF Undisturbed

\* While a call runs that nobody disturbs, no other does.
LEMMA AtWork ==
  ASSUME ListsInv, NEW c \in Callers
  PROVE  /\ edit[c] \in EditRow /\ Routed(edit[c])
         /\ (safe /\ edit[c].pc # "idle") =>
              /\ \A d \in Callers \ {c} : edit[d].pc = "idle"
              /\ saved = Table(meant) /\ Halfway(edit[c])
              /\ edit[c].pc # "insert" => entries = saved
<1>1. edit[c] \in EditRow /\ Routed(edit[c])
  BY DEF ListsInv, ListsShape
<1>2. ASSUME safe, edit[c].pc # "idle"
      PROVE  \A d \in Callers \ {c} : edit[d].pc = "idle"
  BY <1>2 DEF ListsInv, Undisturbed, OneAtWork
<1>3. ASSUME safe, edit[c].pc # "idle", edit[c].pc # "insert"
      PROVE  entries = saved
  <2>1. \A d \in Callers : edit[d].pc # "insert"
    BY <1>2, <1>3
  <2>. QED BY <1>3, <2>1 DEF ListsInv, Undisturbed
<1>4. safe => saved = Table(meant) /\ Halfway(edit[c])
  BY DEF ListsInv, Undisturbed
<1>. QED BY <1>1, <1>2, <1>3, <1>4

LEMMA IdleRow == NoEdit \in EditRow /\ Routed(NoEdit) /\ NoEdit.pc = "idle"
<1>1. <<>> \in Seq(Medias) /\ <<>> \in Seq(Entry)
  BY EmptySeq
<1>. QED BY <1>1 DEF NoEdit, EditRow, EditLabels, EditOps, Routed

LEMMA ListsInitially == PlaylistsInit => ListsInv
<1>1. SUFFICES ASSUME PlaylistsInit PROVE ListsInv
  OBVIOUS
<1>2. <<>> \in Seq(Medias) /\ Len(<<>>) = 0
  BY EmptySeq
<1>3. Table(<<>>) = {}
  BY <1>2 DEF Table
<1>4. ListsShape
  BY <1>1, <1>2, IdleRow, EmptyPlaced, PlaylistsAssumption DEF PlaylistsInit, ListsShape
<1>5. \A c \in Callers : edit[c] = NoEdit /\ edit[c].pc = "idle"
  BY <1>1, IdleRow DEF PlaylistsInit
<1>6. Undisturbed
  BY <1>1, <1>3, <1>5 DEF PlaylistsInit, Undisturbed, OneAtWork, Halfway
<1>. QED BY <1>4, <1>6 DEF ListsInv

LEMMA BeginStep == ASSUME ListsInv, NEW c \in Callers, BeginEdit(c) PROVE ListsInv'
<1>1. PICK op \in {"replace", "append", "many", "rotate"}, ms \in Lists :
        /\ op \in {"append", "rotate"} => Len(ms) = 1
        /\ edit' = [edit EXCEPT ![c] =
             IF op = "replace" THEN [NoEdit EXCEPT !.pc = "wipe", !.op = op, !.given = ms, !.todo = Numbered(ms, 0)]
             ELSE [NoEdit EXCEPT !.op = op, !.given = ms,
                   !.pc = CASE op = "append" -> "last" [] op = "many" -> "ids" [] OTHER -> "rows"]]
  BY DEF BeginEdit
<1>2. ms \in Seq(Medias)
  <2>1. PICK n \in 0 .. 2 : ms \in [1 .. n -> Medias]
    BY DEF Lists
  <2>. QED BY <2>1, SeqDef
<1>3. Numbered(ms, 0) \in Seq(Entry) /\ <<>> \in Seq(Entry)
  BY <1>2, NumberedItems, EmptySeq
<1>4. PICK e : e = IF op = "replace" THEN [pc |-> "wipe", op |-> op, given |-> ms, left |-> 0, todo |-> Numbered(ms, 0)]
                   ELSE [pc |-> CASE op = "append" -> "last" [] op = "many" -> "ids" [] OTHER -> "rows",
                         op |-> op, given |-> ms, left |-> 0, todo |-> <<>>]
  OBVIOUS
<1>5. edit' = [edit EXCEPT ![c] = e]
  <2>1. PICK todo : todo = Numbered(ms, 0)
    OBVIOUS
  <2>2. PICK pc : pc = CASE op = "append" -> "last" [] op = "many" -> "ids" [] OTHER -> "rows"
    OBVIOUS
  <2>3. PICK u : u = [NoEdit EXCEPT !.op = op]
    OBVIOUS
  <2>4. u = [pc |-> "idle", op |-> op, given |-> <<>>, left |-> 0, todo |-> <<>>]
    BY <2>3 DEF NoEdit
  <2>5. PICK v : v = [u EXCEPT !.given = ms]
    OBVIOUS
  <2>6. v = [pc |-> "idle", op |-> op, given |-> ms, left |-> 0, todo |-> <<>>]
    BY <2>4, <2>5
  <2>7. [NoEdit EXCEPT !.op = op, !.given = ms, !.pc = pc] = [v EXCEPT !.pc = pc]
    BY <2>3, <2>5
  <2>8. PICK z : z = [v EXCEPT !.pc = "wipe"]
    OBVIOUS
  <2>9. z = [pc |-> "wipe", op |-> op, given |-> ms, left |-> 0, todo |-> <<>>]
    BY <2>6, <2>8
  <2>10. [NoEdit EXCEPT !.pc = "wipe", !.op = op, !.given = ms, !.todo = todo] = [z EXCEPT !.todo = todo]
    BY <2>3, <2>5, <2>8, <2>9 DEF NoEdit
  <2>11. [z EXCEPT !.todo = todo] = [pc |-> "wipe", op |-> op, given |-> ms, left |-> 0, todo |-> todo]
    BY <2>9
  <2>12. [v EXCEPT !.pc = pc] = [pc |-> pc, op |-> op, given |-> ms, left |-> 0, todo |-> <<>>]
    BY <2>6
  <2>13. CASE op = "replace"
    BY <1>1, <1>4, <2>1, <2>10, <2>11, <2>13
  <2>14. CASE op # "replace"
    BY <1>1, <1>4, <2>2, <2>7, <2>12, <2>14
  <2>. QED BY <2>13, <2>14
<1>6. e \in EditRow /\ Routed(e)
  BY <1>1, <1>2, <1>3, <1>4 DEF EditRow, EditLabels, EditOps, Routed
<1>7. /\ edit[c].pc = "idle" /\ edits < MaxEdits /\ edits' = edits + 1
      /\ safe' = (safe /\ Alone(c)) /\ UNCHANGED <<entries, saved, meant>>
  BY DEF BeginEdit
<1>8. ListsShape'
  BY <1>5, <1>6, <1>7, ShapeBy, PlaylistsAssumption DEF ListsInv, ListsShape, Placed
<1>9. ASSUME safe' PROVE Undisturbed'
  <2>1. safe /\ \A d \in Callers \ {c} : edit[d].pc = "idle"
    BY <1>7, <1>9 DEF Alone
  <2>2. \A d \in Callers : edit[d].pc # "insert"
    BY <1>7, <2>1
  <2>3. saved = Table(meant) /\ entries = saved /\ meant \in Seq(Medias)
    BY <2>1, <2>2 DEF ListsInv, ListsShape, Undisturbed
  <2>4. e.pc # "insert" /\ (e.pc = "wipe" => e.op = "replace" /\ e.given = ms /\ e.todo = Numbered(ms, 0))
    BY <1>4
  <2>5. e.pc = "wipe" => e.todo = Lower(After(meant', e), 0)
    BY <1>2, <2>4, Slices DEF After
  <2>6. Halfway(e)'
    BY <2>4, <2>5 DEF Halfway
  <2>. QED BY <1>5, <1>6, <1>7, <2>1, <2>3, <2>6, UndisturbedBy DEF ListsInv
<1>. QED BY <1>8, <1>9 DEF ListsInv

\* A call that only reads leaves the table as it is on disk.
LEMMA MovesOn ==
  ASSUME ListsInv, NEW c \in Callers, NEW e \in EditRow, Routed(e), edit' = [edit EXCEPT ![c] = e],
         UNCHANGED <<entries, saved, meant, safe, edits>>,
         edit[c].pc \notin {"idle", "insert"}, safe => Halfway(e)
  PROVE  ListsInv'
<1>1. ListsShape'
  BY ShapeBy DEF ListsInv, ListsShape, Placed
<1>2. ASSUME safe PROVE Undisturbed'
  <2>1. /\ \A d \in Callers \ {c} : edit[d].pc = "idle"
        /\ saved' = Table(meant') /\ entries' = saved'
    BY <1>2, AtWork
  <2>2. Halfway(e)'
    BY <1>2 DEF Halfway
  <2>. QED BY <2>1, <2>2, UndisturbedBy DEF ListsInv
<1>. QED BY <1>1, <1>2 DEF ListsInv

\* The row of a caller, and what its table is.
LEMMA RowOf ==
  ASSUME ListsInv, NEW c \in Callers
  PROVE  /\ edit[c].pc \in EditLabels /\ edit[c].op \in EditOps
         /\ edit[c].given \in Seq(Medias) /\ edit[c].left \in Nat /\ edit[c].todo \in Seq(Entry)
         /\ edit[c] = [pc |-> edit[c].pc, op |-> edit[c].op, given |-> edit[c].given,
                       left |-> edit[c].left, todo |-> edit[c].todo]
         /\ Placed(entries) /\ Placed(saved) /\ meant \in Seq(Medias) /\ edit \in [Callers -> EditRow]
<1>1. edit[c] \in EditRow
  BY AtWork
<1>. QED BY <1>1 DEF EditRow, ListsInv, ListsShape

\* A row with some of its fields new.
LEMMA NewLabel ==
  ASSUME NEW w, w = [pc |-> w.pc, op |-> w.op, given |-> w.given, left |-> w.left, todo |-> w.todo], NEW p
  PROVE  [w EXCEPT !.pc = p] = [pc |-> p, op |-> w.op, given |-> w.given, left |-> w.left, todo |-> w.todo]
OBVIOUS

LEMMA NewCount ==
  ASSUME NEW w, w = [pc |-> w.pc, op |-> w.op, given |-> w.given, left |-> w.left, todo |-> w.todo], NEW n
  PROVE  [w EXCEPT !.left = n] = [pc |-> w.pc, op |-> w.op, given |-> w.given, left |-> n, todo |-> w.todo]
OBVIOUS

LEMMA NewGiven ==
  ASSUME NEW w, w = [pc |-> w.pc, op |-> w.op, given |-> w.given, left |-> w.left, todo |-> w.todo], NEW p, NEW g
  PROVE  [w EXCEPT !.pc = p, !.given = g] = [pc |-> p, op |-> w.op, given |-> g, left |-> w.left, todo |-> w.todo]
<1>1. PICK u : u = [w EXCEPT !.pc = p]
  OBVIOUS
<1>2. u = [pc |-> p, op |-> w.op, given |-> w.given, left |-> w.left, todo |-> w.todo]
  BY <1>1
<1>3. [w EXCEPT !.pc = p, !.given = g] = [u EXCEPT !.given = g]
  BY <1>1
<1>. QED BY <1>2, <1>3

LEMMA NewTodo ==
  ASSUME NEW w, w = [pc |-> w.pc, op |-> w.op, given |-> w.given, left |-> w.left, todo |-> w.todo], NEW p, NEW t
  PROVE  [w EXCEPT !.pc = p, !.todo = t] = [pc |-> p, op |-> w.op, given |-> w.given, left |-> w.left, todo |-> t]
<1>1. PICK u : u = [w EXCEPT !.pc = p]
  OBVIOUS
<1>2. u = [pc |-> p, op |-> w.op, given |-> w.given, left |-> w.left, todo |-> w.todo]
  BY <1>1
<1>3. [w EXCEPT !.pc = p, !.todo = t] = [u EXCEPT !.todo = t]
  BY <1>1
<1>. QED BY <1>2, <1>3

LEMMA NewLeft ==
  ASSUME NEW w, w = [pc |-> w.pc, op |-> w.op, given |-> w.given, left |-> w.left, todo |-> w.todo], NEW p, NEW n
  PROVE  [w EXCEPT !.pc = p, !.left = n] = [pc |-> p, op |-> w.op, given |-> w.given, left |-> n, todo |-> w.todo]
<1>1. PICK u : u = [w EXCEPT !.pc = p]
  OBVIOUS
<1>2. u = [pc |-> p, op |-> w.op, given |-> w.given, left |-> w.left, todo |-> w.todo]
  BY <1>1
<1>3. [w EXCEPT !.pc = p, !.left = n] = [u EXCEPT !.left = n]
  BY <1>1
<1>. QED BY <1>2, <1>3

LEMMA PresentStep == ASSUME ListsInv, NEW c \in Callers, PresentIds(c) PROVE ListsInv'
<1>1. PICK fresh : fresh = Fresh(edit[c].given, {r.media : r \in entries})
  OBVIOUS
<1>2. fresh \in Seq(Medias)
  BY <1>1, RowOf, FreshIs
<1>3. PICK e : e = [pc |-> "last", op |-> edit[c].op, given |-> fresh, left |-> edit[c].left, todo |-> edit[c].todo]
  OBVIOUS
<1>4. e \in EditRow
  BY <1>2, <1>3, RowOf DEF EditRow, EditLabels
<1>5. Routed(e) /\ Halfway(e)
  BY <1>3, AtWork DEF Routed, Halfway, PresentIds
<1>6. edit' = [edit EXCEPT ![c] = e]
  <2>1. edit' = [edit EXCEPT ![c] = [edit[c] EXCEPT !.pc = "last", !.given = fresh]]
    BY <1>1, RowOf DEF PresentIds
  <2>2. [edit[c] EXCEPT !.pc = "last", !.given = fresh] = e
    <3>1. PICK w : w = edit[c]
      OBVIOUS
    <3>2. w = [pc |-> w.pc, op |-> w.op, given |-> w.given, left |-> w.left, todo |-> w.todo]
      BY <3>1, RowOf
    <3>3. [w EXCEPT !.pc = "last", !.given = fresh]
            = [pc |-> "last", op |-> w.op, given |-> fresh, left |-> w.left, todo |-> w.todo]
      BY <3>2, NewGiven
    <3>. QED BY <1>3, <3>1, <3>3
  <2>. QED BY <2>1, <2>2
<1>. QED BY <1>4, <1>5, <1>6, MovesOn DEF PresentIds

LEMMA LastStep == ASSUME ListsInv, NEW c \in Callers, LastAt(c) PROVE ListsInv'
<1>1. PICK todo : todo = Numbered(edit[c].given, LastPos(entries) + 1)
  OBVIOUS
<1>2. todo \in Seq(Entry)
  BY <1>1, RowOf, LastPosIs, NumberedItems
<1>3. PICK e : e = [pc |-> "insert", op |-> edit[c].op, given |-> edit[c].given, left |-> edit[c].left, todo |-> todo]
  OBVIOUS
<1>4. e \in EditRow
  BY <1>2, <1>3, RowOf DEF EditRow, EditLabels
<1>5. Routed(e) /\ e.op \in {"append", "many"}
  BY <1>3, AtWork DEF Routed, LastAt
<1>6. ASSUME safe PROVE Halfway(e)
  <2>1. entries = Table(meant)
    BY <1>6, AtWork DEF LastAt
  <2>2. After(meant, e) = meant \o edit[c].given
    BY <1>3, <1>5 DEF After
  <2>3. todo = Numbered(edit[c].given, Len(meant))
    BY <1>1, <2>1, RowOf, TableEnd
  <2>4. \E k \in 0 .. Len(After(meant, e)) : entries = Upper(After(meant, e), k) /\ todo = Lower(After(meant, e), k)
    BY <2>1, <2>2, <2>3, RowOf, Appending
  <2>. QED BY <1>3, <2>4 DEF Halfway
<1>7. edit' = [edit EXCEPT ![c] = e]
  <2>1. edit' = [edit EXCEPT ![c] = [edit[c] EXCEPT !.pc = "insert", !.todo = todo]]
    BY <1>1, RowOf DEF LastAt
  <2>2. [edit[c] EXCEPT !.pc = "insert", !.todo = todo] = e
    <3>1. PICK w : w = edit[c]
      OBVIOUS
    <3>2. w = [pc |-> w.pc, op |-> w.op, given |-> w.given, left |-> w.left, todo |-> w.todo]
      BY <3>1, RowOf
    <3>3. [w EXCEPT !.pc = "insert", !.todo = todo]
            = [pc |-> "insert", op |-> w.op, given |-> w.given, left |-> w.left, todo |-> todo]
      BY <3>2, NewTodo
    <3>. QED BY <1>3, <3>1, <3>3
  <2>. QED BY <2>1, <2>2
<1>. QED BY <1>4, <1>5, <1>6, <1>7, MovesOn DEF LastAt

LEMMA PlaylistsStep == ASSUME ListsInv, NEW c \in Callers, Playlists(c) PROVE ListsInv'
<1>1. PICK left : left = Cardinality({r \in entries : r.media = edit[c].given[1]})
  OBVIOUS
<1>2. left \in Nat
  <2>1. {r \in entries : r.media = edit[c].given[1]} \in SUBSET entries /\ IsFiniteSet(entries)
    BY RowOf DEF Placed
  <2>. QED BY <1>1, <2>1, FS_Subset, FS_CardinalityType
<1>3. PICK e : e = [pc |-> "items", op |-> edit[c].op, given |-> edit[c].given, left |-> left, todo |-> edit[c].todo]
  OBVIOUS
<1>4. e \in EditRow
  BY <1>2, <1>3, RowOf DEF EditRow, EditLabels
<1>5. Routed(e) /\ Halfway(e)
  BY <1>3, AtWork DEF Routed, Halfway, Playlists
<1>6. edit' = [edit EXCEPT ![c] = e]
  <2>1. edit' = [edit EXCEPT ![c] = [edit[c] EXCEPT !.pc = "items", !.left = left]]
    BY <1>1, RowOf DEF Playlists
  <2>2. [edit[c] EXCEPT !.pc = "items", !.left = left] = e
    <3>1. PICK w : w = edit[c]
      OBVIOUS
    <3>2. w = [pc |-> w.pc, op |-> w.op, given |-> w.given, left |-> w.left, todo |-> w.todo]
      BY <3>1, RowOf
    <3>3. [w EXCEPT !.pc = "items", !.left = left]
            = [pc |-> "items", op |-> w.op, given |-> w.given, left |-> left, todo |-> w.todo]
      BY <3>2, NewLeft
    <3>. QED BY <1>3, <3>1, <3>3
  <2>. QED BY <2>1, <2>2
<1>. QED BY <1>4, <1>5, <1>6, MovesOn DEF Playlists

LEMMA ItemsStep == ASSUME ListsInv, NEW c \in Callers, Items(c) PROVE ListsInv'
<1>1. PICK ms : ms = Listing(entries)
  OBVIOUS
<1>2. PICK places : places = {i \in DOMAIN ms : ms[i] = edit[c].given[1]}
  OBVIOUS
<1>3. ms \in Seq(Medias)
  BY <1>1, RowOf, ListingOf
<1>4. edit[c].pc = "items" /\ edit[c].op = "rotate" /\ Len(edit[c].given) = 1
  BY AtWork DEF Routed, Items
<1>5. CASE edit[c].left = 0
  <2>1. edit' = [edit EXCEPT ![c] = NoEdit]
    BY <1>5 DEF Items
  <2>2. Halfway(NoEdit)
    BY IdleRow DEF Halfway
  <2>. QED BY <1>4, <2>1, <2>2, IdleRow, MovesOn DEF Items
<1>6. CASE edit[c].left # 0 /\ (places = {} \/ Len(ms) = Min(places))
  <2>1. PICK e : e = [pc |-> "items", op |-> "rotate", given |-> edit[c].given, left |-> edit[c].left - 1, todo |-> edit[c].todo]
    OBVIOUS
  <2>2. edit' = [edit EXCEPT ![c] = e]
    <3>1. edit' = [edit EXCEPT ![c] = [edit[c] EXCEPT !.left = edit[c].left - 1]]
      BY <1>1, <1>2, <1>6 DEF Items
    <3>2. PICK n : n = edit[c].left - 1
      OBVIOUS
    <3>3. [edit[c] EXCEPT !.left = n] = [pc |-> edit[c].pc, op |-> edit[c].op, given |-> edit[c].given, left |-> n, todo |-> edit[c].todo]
      BY RowOf, NewCount
    <3>4. [edit[c] EXCEPT !.left = n] = e
      BY <1>4, <2>1, <3>2, <3>3
    <3>. QED BY <3>1, <3>2, <3>4
  <2>3. e \in EditRow
    <3>1. edit[c].left - 1 \in Nat
      <4>1. edit[c].left \in Nat /\ edit[c].left # 0
        BY <1>6, RowOf
      <4>. QED BY <4>1
    <3>. QED BY <2>1, <3>1, RowOf DEF EditRow, EditLabels, EditOps
  <2>4. Routed(e) /\ Halfway(e)
    BY <1>4, <2>1 DEF Routed, Halfway
  <2>. QED BY <1>4, <2>2, <2>3, <2>4, MovesOn DEF Items
<1>7. CASE edit[c].left # 0 /\ places # {} /\ Len(ms) # Min(places)
  <2>1. PICK todo : todo = Numbered(Sunk(ms, Min(places)), 0)
    OBVIOUS
  <2>2. Min(places) \in DOMAIN ms /\ Sunk(ms, Min(places)) = RemoveFirst(ms, edit[c].given[1]) \o <<edit[c].given[1]>>
    BY <1>2, <1>3, <1>7, Sinking
  <2>3. Sunk(ms, Min(places)) \in Seq(Medias)
    BY <1>3, <2>2, SunkIs
  <2>4. PICK e : e = [pc |-> "wipe", op |-> "rotate", given |-> edit[c].given, left |-> edit[c].left - 1, todo |-> todo]
    OBVIOUS
  <2>5. edit' = [edit EXCEPT ![c] = e]
    <3>1. edit' = [edit EXCEPT ![c] = [edit[c] EXCEPT !.pc = "wipe", !.left = edit[c].left - 1, !.todo = todo]]
      BY <1>1, <1>2, <1>7, <2>1 DEF Items
    <3>2. [edit[c] EXCEPT !.pc = "wipe", !.left = edit[c].left - 1, !.todo = todo] = e
      <4>1. PICK n : n = edit[c].left - 1
        OBVIOUS
      <4>2. [edit[c] EXCEPT !.pc = "wipe", !.left = n, !.todo = todo]
              = [pc |-> "wipe", op |-> edit[c].op, given |-> edit[c].given, left |-> n, todo |-> todo]
        <5>1. PICK w : w = edit[c]
          OBVIOUS
        <5>2. w = [pc |-> w.pc, op |-> w.op, given |-> w.given, left |-> w.left, todo |-> w.todo]
          BY <5>1, RowOf
        <5>3. [w EXCEPT !.pc = "wipe", !.left = n, !.todo = todo]
                = [pc |-> "wipe", op |-> w.op, given |-> w.given, left |-> n, todo |-> todo]
          <6>1. PICK v : v = [w EXCEPT !.pc = "wipe", !.left = n]
            OBVIOUS
          <6>2. v = [pc |-> "wipe", op |-> w.op, given |-> w.given, left |-> n, todo |-> w.todo]
            BY <5>2, <6>1, NewLeft
          <6>3. [w EXCEPT !.pc = "wipe", !.left = n, !.todo = todo] = [v EXCEPT !.todo = todo]
            BY <6>1
          <6>. QED BY <6>2, <6>3
        <5>. QED BY <5>1, <5>3
      <4>. QED BY <1>4, <2>4, <4>1, <4>2
    <3>. QED BY <3>1, <3>2
  <2>6. e \in EditRow
    <3>1. edit[c].left - 1 \in Nat
      <4>1. edit[c].left \in Nat /\ edit[c].left # 0
        BY <1>7, RowOf
      <4>. QED BY <4>1
    <3>2. todo \in Seq(Entry)
      BY <2>1, <2>3, NumberedItems
    <3>. QED BY <2>4, <3>1, <3>2, RowOf DEF EditRow, EditLabels, EditOps
  <2>7. ASSUME safe PROVE Halfway(e)
    <3>1. ms = meant
      BY <1>1, <1>4, <2>7, AtWork, RowOf, TableListed
    <3>2. edit[c].given = <<edit[c].given[1]>>
      <4>1. \A u \in Seq(Medias) : u = [i \in 1 .. Len(u) |-> u[i]]
        OBVIOUS
      <4>2. edit[c].given = [i \in 1 .. 1 |-> edit[c].given[i]]
        BY <1>4, <4>1, RowOf
      <4>. QED BY <4>2
    <3>3. After(meant, e) = Sunk(ms, Min(places))
      BY <2>2, <2>4, <3>1, <3>2 DEF After
    <3>4. todo = Lower(After(meant, e), 0)
      BY <2>1, <2>3, <3>3, Slices
    <3>. QED BY <2>4, <3>4 DEF Halfway
  <2>8. Routed(e)
    BY <1>4, <2>4 DEF Routed
  <2>. QED BY <1>4, <2>5, <2>6, <2>7, <2>8, MovesOn DEF Items
<1>. QED BY <1>5, <1>6, <1>7

LEMMA WipeStep == ASSUME ListsInv, NEW c \in Callers, Wipe(c) PROVE ListsInv'
<1>1. PICK e : e = [pc |-> "insert", op |-> edit[c].op, given |-> edit[c].given, left |-> edit[c].left, todo |-> edit[c].todo]
  OBVIOUS
<1>2. e \in EditRow
  BY <1>1, RowOf DEF EditRow, EditLabels
<1>3. Routed(e)
  BY <1>1, AtWork DEF Routed, Wipe
<1>4. edit' = [edit EXCEPT ![c] = e]
  <2>1. edit' = [edit EXCEPT ![c] = [edit[c] EXCEPT !.pc = "insert"]]
    BY RowOf DEF Wipe
  <2>2. [edit[c] EXCEPT !.pc = "insert"] = e
    BY <1>1, RowOf, NewLabel
  <2>. QED BY <2>1, <2>2
<1>5. ListsShape'
  BY <1>2, <1>3, <1>4, EmptyPlaced, ShapeBy DEF Wipe, ListsInv, ListsShape, Placed
<1>6. ASSUME safe PROVE Undisturbed'
  <2>1. /\ \A d \in Callers \ {c} : edit[d].pc = "idle"
        /\ saved' = Table(meant') /\ Halfway(edit[c])
    BY <1>6, AtWork DEF Wipe
  <2>2. After(meant, e) = After(meant, edit[c])
    BY <1>1 DEF After
  <2>3. After(meant, e) \in Seq(Medias)
    BY <1>2, RowOf, AfterIs
  <2>4. e.todo = Lower(After(meant, e), 0)
    BY <1>1, <2>1, <2>2 DEF Halfway, Wipe
  <2>5. 0 \in 0 .. Len(After(meant, e)) /\ entries' = Upper(After(meant, e), 0)
    BY <2>3, Slices DEF Wipe
  <2>6. meant' = meant
    BY DEF Wipe
  <2>7. Halfway(e)'
    BY <1>1, <2>4, <2>5, <2>6 DEF Halfway
  <2>8. e.pc = "insert"
    BY <1>1
  <2>. QED BY <1>2, <1>4, <2>1, <2>7, <2>8, UndisturbedBy DEF ListsInv
<1>. QED BY <1>5, <1>6 DEF ListsInv, Wipe

LEMMA InsertStep == ASSUME ListsInv, NEW c \in Callers, InsertItem(c) PROVE ListsInv'
<1>. DEFINE was == edit[c]
<1>1. PICK r : r = Head(was.todo)
  OBVIOUS
<1>2. r \in Entry /\ Tail(was.todo) \in Seq(Entry) /\ was.todo # <<>>
  BY <1>1, RowOf, HeadTailProperties DEF InsertItem
<1>3. UNCHANGED <<saved, meant, safe, edits>> /\ was.pc = "insert"
  BY DEF InsertItem
<1>4. CASE \E s \in entries : s.at = r.at
  <2>1. edit' = [edit EXCEPT ![c] = NoEdit] /\ entries' = entries
    BY <1>1, <1>4 DEF InsertItem
  <2>2. ListsShape'
    BY <1>3, <2>1, IdleRow, ShapeBy DEF ListsInv, ListsShape, Placed
  <2>3. ASSUME safe PROVE FALSE
    <3>1. PICK ms : ms = After(meant, was)
      OBVIOUS
    <3>2. ms \in Seq(Medias)
      BY <3>1, AtWork, RowOf, AfterIs
    <3>3. PICK k \in 0 .. Len(ms) : entries = Upper(ms, k) /\ was.todo = Lower(ms, k)
      BY <1>3, <2>3, <3>1, AtWork DEF Halfway
    <3>4. k # Len(ms)
      BY <1>2, <3>2, <3>3, Slices
    <3>5. r.at = k
      <4>1. k \in 0 .. Len(ms) - 1
        BY <3>2, <3>4
      <4>2. r = [at |-> k, media |-> ms[k + 1]]
        BY <1>1, <3>2, <3>3, <4>1, Slices
      <4>. QED BY <4>2
    <3>6. \A s \in entries : s.at # k
      BY <3>3 DEF Upper
    <3>. QED BY <1>4, <3>5, <3>6
  <2>. QED BY <1>3, <2>2, <2>3 DEF ListsInv
<1>5. CASE ~\E s \in entries : s.at = r.at
  <2>1. PICK e : e = [pc |-> "insert", op |-> was.op, given |-> was.given, left |-> was.left, todo |-> Tail(was.todo)]
    OBVIOUS
  <2>2. e \in EditRow
    BY <1>2, <2>1, RowOf DEF EditRow, EditLabels
  <2>3. Routed(e)
    BY <1>3, <2>1, AtWork DEF Routed
  <2>4. edit' = [edit EXCEPT ![c] = e] /\ entries' = entries \cup {r}
    BY <1>1, <1>3, <1>5, <2>1, RowOf DEF InsertItem
  <2>5. Placed(entries \cup {r})
    <3>1. Placed(entries)
      BY RowOf
    <3>2. IsFiniteSet(entries \cup {r})
      BY <3>1, FS_AddElement DEF Placed
    <3>. QED BY <1>2, <1>5, <3>1, <3>2 DEF Placed
  <2>6. Placed(entries)' /\ Placed(saved)'
    BY <1>3, <2>4, <2>5, RowOf DEF Placed
  <2>7. ListsShape'
    BY <1>3, <2>2, <2>3, <2>4, <2>6, ShapeBy DEF ListsInv, ListsShape
  <2>8. ASSUME safe PROVE Undisturbed'
    <3>1. PICK ms : ms = After(meant, was)
      OBVIOUS
    <3>2. ms \in Seq(Medias)
      BY <3>1, AtWork, RowOf, AfterIs
    <3>3. PICK k \in 0 .. Len(ms) : entries = Upper(ms, k) /\ was.todo = Lower(ms, k)
      BY <1>3, <2>8, <3>1, AtWork DEF Halfway
    <3>4. k \in 0 .. Len(ms) - 1 /\ k + 1 \in 0 .. Len(ms)
      <4>1. k # Len(ms)
        BY <1>2, <3>2, <3>3, Slices
      <4>. QED BY <3>2, <4>1
    <3>5. Tail(was.todo) = Lower(ms, k + 1) /\ entries \cup {r} = Upper(ms, k + 1)
      BY <1>1, <3>2, <3>3, <3>4, Slices
    <3>6. After(meant, e) = ms
      BY <2>1, <3>1 DEF After
    <3>7. meant' = meant /\ entries' = Upper(ms, k + 1) /\ e.todo = Lower(ms, k + 1) /\ e.pc = "insert"
      BY <1>3, <2>1, <2>4, <3>5
    <3>8. Halfway(e)'
      BY <3>4, <3>6, <3>7 DEF Halfway
    <3>9. /\ \A d \in Callers \ {c} : edit[d].pc = "idle"
          /\ saved' = Table(meant')
      BY <1>3, <2>8, AtWork
    <3>. QED BY <2>2, <2>4, <3>7, <3>8, <3>9, UndisturbedBy DEF ListsInv
  <2>. QED BY <1>3, <2>7, <2>8 DEF ListsInv
<1>. QED BY <1>4, <1>5

LEMMA CommitStep == ASSUME ListsInv, NEW c \in Callers, Commit(c) PROVE ListsInv'
<1>. DEFINE was == edit[c]
<1>1. PICK e : e = EditDone(was)
  OBVIOUS
<1>2. /\ was.pc = "insert" /\ was.todo = <<>> /\ UNCHANGED <<entries, safe, edits>>
      /\ saved' = entries /\ meant' = After(meant, was) /\ edit' = [edit EXCEPT ![c] = e]
  BY <1>1 DEF Commit
<1>3. e \in EditRow /\ Routed(e) /\ e.pc \in {"idle", "items"}
  <2>1. CASE was.op = "rotate"
    <3>1. e = [pc |-> "items", op |-> was.op, given |-> was.given, left |-> was.left, todo |-> was.todo]
      <4>1. e = [was EXCEPT !.pc = "items"]
        BY <1>1, <2>1 DEF EditDone
      <4>. QED BY <4>1, RowOf, NewLabel
    <3>2. e \in EditRow
      BY <3>1, RowOf DEF EditRow, EditLabels
    <3>. QED BY <2>1, <3>1, <3>2, AtWork DEF Routed
  <2>2. CASE was.op # "rotate"
    BY <1>1, <2>2, IdleRow DEF EditDone
  <2>. QED BY <2>1, <2>2
<1>4. After(meant, was) \in Seq(Medias)
  BY AtWork, RowOf, AfterIs
<1>5. ListsShape'
  BY <1>2, <1>3, <1>4, ShapeBy DEF ListsInv, ListsShape, Placed
<1>6. ASSUME safe PROVE Undisturbed'
  <2>1. PICK ms : ms = After(meant, was)
    OBVIOUS
  <2>2. PICK k \in 0 .. Len(ms) : entries = Upper(ms, k) /\ was.todo = Lower(ms, k)
    BY <1>2, <1>6, <2>1, AtWork DEF Halfway
  <2>3. k = Len(ms)
    BY <1>2, <1>4, <2>1, <2>2, Slices
  <2>4. saved' = Table(meant') /\ entries' = saved'
    BY <1>2, <1>4, <2>1, <2>2, <2>3, Slices
  <2>5. \A d \in Callers \ {c} : edit[d].pc = "idle"
    BY <1>2, <1>6, AtWork
  <2>6. Halfway(e)'
    BY <1>3 DEF Halfway
  <2>. QED BY <1>2, <1>3, <2>4, <2>5, <2>6, UndisturbedBy DEF ListsInv
<1>. QED BY <1>2, <1>5, <1>6 DEF ListsInv

LEMMA ListsStep == ListsInv /\ [PlaylistsNext]_playlistVars => ListsInv'
<1>1. SUFFICES ASSUME ListsInv, [PlaylistsNext]_playlistVars PROVE ListsInv'
  OBVIOUS
<1>2. CASE Stranger
  BY <1>1, <1>2 DEF Stranger, ListsInv, ListsShape, Placed, Routed
<1>3. CASE Restart
  <2>1. /\ entries' = saved /\ edit' = [c \in Callers |-> NoEdit]
        /\ UNCHANGED <<saved, meant, safe, edits>>
    BY <1>3 DEF Restart
  <2>2. \A c \in Callers : edit'[c] = NoEdit /\ edit'[c].pc = "idle" /\ Routed(edit'[c])
    BY <2>1, IdleRow
  <2>3. Placed(entries)' /\ Placed(saved)'
    BY <1>1, <2>1 DEF ListsInv, ListsShape, Placed
  <2>4. ListsShape'
    BY <1>1, <2>1, <2>2, <2>3, IdleRow DEF ListsInv, ListsShape
  <2>5. safe => Undisturbed'
    BY <1>1, <2>1, <2>2 DEF ListsInv, Undisturbed, OneAtWork, Halfway
  <2>. QED BY <2>1, <2>4, <2>5 DEF ListsInv
<1>4. CASE UNCHANGED playlistVars
  BY <1>1, <1>4 DEF playlistVars, ListsInv, ListsShape, Placed, Routed, Undisturbed, OneAtWork, Halfway
<1>. QED BY <1>1, <1>2, <1>3, <1>4, BeginStep, PresentStep, LastStep, PlaylistsStep, ItemsStep, WipeStep,
            InsertStep, CommitStep DEF PlaylistsNext

\* What is on disk is what the completed calls make of the list one after the
\* other, through any crash, as long as they do not overlap; and when nobody
\* is at it, what the application sees is what is on disk.  For any media, any
\* callers, any number of calls and lists of any length.
THEOREM ListsSafeCorrect == PlaylistsSpec => []ListsSafe
<1>1. ListsInv => ListsSafe
  <2>1. SUFFICES ASSUME ListsInv PROVE ListsSafe
    OBVIOUS
  <2>2. PlaylistsType
    <3>1. ListsShape
      BY <2>1 DEF ListsInv
    <3>2. \A t \in {entries, saved} : t \subseteq Entry /\ \A r, s \in t : r.at = s.at => r = s
      BY <3>1 DEF ListsShape, Placed
    <3>3. \A c \in Callers : edit[c].todo \in Seq(Entry) /\ edit[c].pc \in EditLabels
      BY <2>1, RowOf
    <3>. QED BY <3>1, <3>2, <3>3 DEF ListsShape, PlaylistsType, EditLabels
  <2>3. ListMeant
    BY <2>1, TableListed DEF ListsInv, ListsShape, Undisturbed, ListMeant
  <2>4. ListSettled
    BY <2>1 DEF ListsInv, Undisturbed, ListSettled
  <2>. QED BY <2>2, <2>3, <2>4 DEF ListsSafe
<1>. QED BY <1>1, ListsInitially, ListsStep, PTL DEF PlaylistsSpec
-----------------------------------------------------------------------------
(***************************************************************************)
(* The message of the day: that the history, the channel and the backups   *)
(* agree, and that the automation keeps the week, as long as no request    *)
(* falls into the INSERT of another's run (Overlap), which would give two  *)
(* runs at once.                                                           *)
(*                                                                         *)
(* Solo: there is one run at a time, and while it works it is in           *)
(* JobManager._running.                                                    *)
(*                                                                         *)
(* RunTrue: what a run has in hand.  Until it has recorded what it sent    *)
(* the clock stands, so its backup is younger than any cutoff; and a run   *)
(* the automation asked for goes for a week from which the channel is not  *)
(* put back, nor put ahead.                                                *)
(*                                                                         *)
(* WorldTrue: what the history, the channel, the backups and the pruning   *)
(* under way say of each other.                                            *)
(***************************************************************************)
Places == {"free", "start", "build", "resolve", "backup", "send", "record"}
RunFields == {"pc", "by", "ahead", "week", "key", "backup"}
RunShape(x) == DOMAIN x = RunFields /\ x.pc \in Places /\ x.ahead \in {0, 1} /\ x.week \in Nat

MotdShape ==
  /\ now \in 0 .. MaxTime /\ dflt \in Masters /\ enabled \in BOOLEAN /\ running \in BOOLEAN
  /\ DOMAIN tick = {"pc", "key", "at"} /\ tick.pc \in {"idle", "compare"}
  /\ DOMAIN prune = {"pc", "keep", "cutoff"} /\ prune.pc \in {"idle", "rows", "files"}
  /\ run = [r \in Runs |-> run[r]] /\ \A r \in Runs : RunShape(run[r])
  /\ taint \subseteq {"lost", "cut", "turned"} /\ channel.week \in Nat
  /\ IsFiniteSet(pubs) /\ \A p \in pubs : p.n \in Nat /\ p.week \in Nat

Solo ==
  /\ Busy # {} => running
  /\ \A q, r \in Runs : ~At(q, "free") /\ ~At(r, "free") => q = r

RunTrue(x) ==
  /\ x.pc \in {"send", "record"} => x.backup = now /\ now \in backups
  /\ x.pc = "record" => channel = [key |-> x.key, week |-> x.week]
  /\ x.pc \in {"resolve", "backup", "send", "record"} => x.week <= ThisWeek + 1
  /\ taint = {} /\ x.by = Automation =>
       /\ x.pc \in {"start", "build"} => IF x.ahead = 1 THEN channel.week = ThisWeek + 1 ELSE channel.week <= ThisWeek
       /\ x.pc \in {"resolve", "backup", "send"} =>
            channel.week <= x.week /\ (x.week <= ThisWeek \/ x.week = channel.week)
RunsTrue == \A r \in Runs : RunTrue(run[r])

NoneRecords == \A r \in Runs : ~At(r, "record")
FirstShown == taint = {} /\ NoneRecords /\ pubs = {} => channel = [key |-> <<>>, week |-> 0]
Copies == \A p \in Newest : p.backup \in backups
Pruning ==
  prune.pc # "idle" =>
    /\ prune.cutoff = now - Retention
    /\ \A p \in Newest : p \in prune.keep \/ (p.at >= prune.cutoff /\ p.backup >= prune.cutoff)
WorldTrue == FirstShown /\ InSync /\ Copies /\ Pruning /\ channel.week <= ThisWeek + 1

MotdInv == MotdShape /\ Solo /\ RunsTrue /\ WorldTrue
-----------------------------------------------------------------------------
\* Weeks.
LEMMA QuotientIs ==
  ASSUME NEW w \in Nat, NEW q \in Nat, NEW k \in Nat, NEW p \in Nat, NEW j \in Nat,
         k < w, j < w, w * q + k = w * p + j
  PROVE  q = p
<1>1. ASSUME NEW a \in Nat, NEW b \in Nat, NEW i \in Nat, NEW l \in Nat, l < w,
             w * a + i = w * b + l, a < b, i < w
      PROVE  FALSE
  <2>1. PICK d \in Nat : b = a + 1 + d
    <3>1. b - a - 1 \in Nat /\ b = a + 1 + (b - a - 1)
      BY <1>1
    <3>. QED  BY <3>1
  <2>2. PICK x \in Nat : x = w * a
    OBVIOUS
  <2>3. PICK y \in Nat : y = w * d
    OBVIOUS
  <2>4. w * b = x + w + y
    BY <2>1, <2>2, <2>3
  <2>. QED  BY <1>1, <2>2, <2>4
<1>2. ~(q < p) /\ ~(p < q)
  BY <1>1
<1>. QED  BY <1>2

LEMMA Quotient ==
  ASSUME NEW a \in Nat, NEW w \in Nat, w > 0
  PROVE  a \div w \in Nat /\ a % w \in 0 .. w - 1 /\ a = w * (a \div w) + (a % w)
<1>1. a \div w \in Nat
  BY SMTT(30)
<1>. QED  BY <1>1, SMTT(30)

LEMMA NextQuotient ==
  ASSUME NEW a \in Nat, NEW w \in Nat, w > 0
  PROVE  /\ a \div w \in Nat /\ (a + 1) \div w \in Nat /\ a \div w <= (a + 1) \div w
         /\ (a + 1) % w # 0 => (a + 1) \div w = a \div w
<1>1. PICK q \in Nat, k \in 0 .. w - 1 : q = a \div w /\ k = a % w /\ a = w * q + k
  BY Quotient
<1>2. a + 1 \in Nat
  OBVIOUS
<1>3. PICK p \in Nat, j \in 0 .. w - 1 : p = (a + 1) \div w /\ j = (a + 1) % w /\ a + 1 = w * p + j
  BY <1>2, Quotient
<1>4. k \in Nat /\ j \in Nat /\ k < w /\ j < w
  OBVIOUS
<1>5. CASE k + 1 < w
  <2>1. w * q + (k + 1) = w * p + j
    <3>1. PICK x \in Nat : x = w * q
      OBVIOUS
    <3>. QED  BY <1>1, <1>3, <3>1
  <2>2. k + 1 \in Nat
    BY <1>4
  <2>3. q = p
    BY <1>4, <1>5, <2>1, <2>2, QuotientIs
  <2>. QED  BY <1>1, <1>3, <2>3
<1>6. CASE ~(k + 1 < w)
  <2>1. k + 1 = w
    BY <1>4, <1>6
  <2>2. w * (q + 1) + 0 = w * p + j
    <3>1. PICK x \in Nat : x = w * q
      OBVIOUS
    <3>2. w * (q + 1) = x + w
      BY <3>1
    <3>. QED  BY <1>1, <1>3, <1>4, <2>1, <3>1, <3>2
  <2>3. q + 1 \in Nat /\ 0 \in Nat /\ 0 < w
    OBVIOUS
  <2>4. q + 1 = p
    BY <1>4, <2>2, <2>3, QuotientIs
  <2>5. j = 0
    <3>1. PICK x \in Nat : x = w * p
      OBVIOUS
    <3>. QED  BY <1>4, <2>2, <2>4, <3>1
  <2>. QED  BY <1>1, <1>3, <2>4, <2>5
<1>. QED  BY <1>5, <1>6

LEMMA Weeks ==
  ASSUME MotdShape
  PROVE  now \in Nat /\ ThisWeek \in Nat /\ Week \in Nat /\ Week > 0 /\ Retention \in Nat
<1>1. Week \in Nat /\ Week > 0 /\ Retention \in Nat /\ MaxTime \in Nat
  BY MotdAssumption
<1>2. now \in Nat
  BY <1>1 DEF MotdShape
<1>. QED  BY <1>1, <1>2, NextQuotient DEF ThisWeek
-----------------------------------------------------------------------------
\* The newest publication.
LEMMA NewestThere ==
  ASSUME NEW rows, IsFiniteSet(rows), \A p \in rows : p.n \in Nat
  PROVE  rows # {} => \E p \in rows : \A q \in rows : q.n <= p.n
<1>. SUFFICES ASSUME rows # {} PROVE \E p \in rows : \A q \in rows : q.n <= p.n
  OBVIOUS
<1>. DEFINE f == [p \in rows |-> p.n]
            numbers == {f[p] : p \in rows}
<1>1. IsFiniteSet(numbers)
  <2>1. f = [p \in rows |-> f[p]]
    OBVIOUS
  <2>. HIDE DEF f
  <2>. QED  BY <2>1, FiniteImage
<1>2. numbers \subseteq Nat /\ numbers # {}
  OBVIOUS
<1>3. PICK m \in numbers : \A k \in numbers : m >= k
  <2>. HIDE DEF numbers
  <2>. QED  BY <1>1, <1>2, NatMax
<1>4. PICK p \in rows : m = p.n
  BY <1>3
<1>5. \A q \in rows : q.n \in numbers
  OBVIOUS
<1>6. \A q \in rows : q.n <= p.n
  <2>. HIDE DEF numbers
  <2>1. \A q \in rows : m >= q.n /\ q.n \in Nat /\ m \in Nat
    BY <1>2, <1>3, <1>5
  <2>. QED  BY <1>4, <2>1
<1>. QED  BY <1>6

\* The number that comes next.
LEMMA NumberNext ==
  ASSUME NEW rows, IsFiniteSet(rows), \A p \in rows : p.n \in Nat
  PROVE  LET n == Max({p.n : p \in rows} \cup {0}) + 1 IN n \in Nat /\ \A p \in rows : p.n < n
<1>. DEFINE S == {p.n : p \in rows} \cup {0}
<1>1. \E x \in S : \A y \in S : x >= y
  <2>1. CASE rows = {}
    BY <2>1
  <2>2. CASE rows # {}
    <3>1. PICK p \in rows : \A q \in rows : q.n <= p.n
      BY <2>2, NewestThere
    <3>2. p.n \in S /\ p.n \in Nat
      BY <3>1
    <3>3. \A y \in S : p.n >= y
      BY <3>1, <3>2
    <3>. QED  BY <3>2, <3>3
  <2>. QED  BY <2>1, <2>2
<1>2. Max(S) \in S /\ \A y \in S : Max(S) >= y
  BY <1>1 DEF Max
<1>3. S \subseteq Nat
  OBVIOUS
<1>4. \A p \in rows : p.n \in S
  OBVIOUS
<1>. HIDE DEF S
<1>5. Max(S) + 1 \in Nat /\ \A p \in rows : p.n < Max(S) + 1
  <2>1. Max(S) \in Nat
    BY <1>2, <1>3
  <2>2. \A p \in rows : Max(S) >= p.n /\ p.n \in Nat
    BY <1>2, <1>4
  <2>. QED  BY <2>1, <2>2
<1>. QED  BY <1>5 DEF S

LEMMA MaxOfTwo ==
  ASSUME NEW a \in Nat, NEW b \in Nat
  PROVE  a <= Max({a, b}) /\ b <= Max({a, b}) /\ Max({a, b}) \in Nat
<1>1. \E x \in {a, b} : \A y \in {a, b} : x >= y
  <2>1. CASE a >= b
    BY <2>1
  <2>2. CASE b >= a
    BY <2>2
  <2>. QED  BY <2>1, <2>2
<1>2. Max({a, b}) \in {a, b} /\ \A y \in {a, b} : Max({a, b}) >= y
  BY <1>1 DEF Max
<1>. QED  BY <1>2
-----------------------------------------------------------------------------
LEMMA MotdInitially == MotdInit => MotdInv
<1>. SUFFICES ASSUME MotdInit PROVE MotdInv
  OBVIOUS
<1>1. \A r \in Runs : run[r] = Free
  BY DEF MotdInit
<1>2. Free.pc = "free" /\ RunShape(Free)
  BY DEF Free, RunShape, RunFields, Places
<1>3. MotdShape
  <2>1. IsFiniteSet(pubs)
    BY FS_EmptySet DEF MotdInit
  <2>2. channel.week = 0 /\ now \in 0 .. MaxTime
    BY MotdAssumption DEF MotdInit
  <2>. QED  BY <1>1, <1>2, <2>1, <2>2 DEF MotdInit, MotdShape, Idle
<1>4. Solo /\ RunsTrue
  BY <1>1, <1>2 DEF Solo, Busy, At, RunsTrue, RunTrue
<1>5. Newest = {}
  BY DEF MotdInit, Newest
<1>6. WorldTrue
  <2>1. channel.week <= ThisWeek + 1
    <3>1. ThisWeek \in Nat /\ channel.week = 0
      BY <1>3, Weeks DEF MotdInit
    <3>. QED  BY <3>1
  <2>. QED  BY <1>5, <2>1 DEF MotdInit, WorldTrue, FirstShown, InSync, Copies, Pruning
<1>. QED  BY <1>3, <1>4, <1>6 DEF MotdInv
-----------------------------------------------------------------------------
(***************************************************************************)
(* Steps of one run.                                                       *)
(***************************************************************************)
world == <<now, channel, pubs, backups, prune, taint>>
settings == <<dflt, enabled, tick>>

\* The runs after a step of one of them.
LEMMA RunChanged ==
  ASSUME MotdInv, NEW r \in Runs, NEW x, run' = [run EXCEPT ![r] = x], running' \in BOOLEAN, RunShape(x),
         x.pc \notin {"free", "start"} => running',
         (running => running') \/ (x.pc = "free" /\ ~At(r, "free")),
         x.pc = "free" \/ ~At(r, "free") \/ \A q \in Runs : At(q, "free")
  PROVE  /\ run'[r] = x /\ (\A q \in Runs \ {r} : run'[q] = run[q]) /\ run' = [q \in Runs |-> run'[q]]
         /\ \A q \in Runs : RunShape(run[q])'
         /\ Solo'
<1>1. run'[r] = x /\ (\A q \in Runs \ {r} : run'[q] = run[q]) /\ run' = [q \in Runs |-> run'[q]]
  BY DEF MotdInv, MotdShape
<1>2. \A q \in Runs : RunShape(run[q])'
  <2>1. \A q \in Runs : RunShape(run'[q])
    BY <1>1 DEF MotdInv, MotdShape
  <2>. QED  BY <2>1 DEF RunShape
<1>3. Solo'
  <2>1. \A p, q \in Runs : ~At(p, "free")' /\ ~At(q, "free")' => p = q
    BY <1>1 DEF MotdInv, Solo, At
  <2>2. CASE running => running'
    <3>1. ASSUME NEW q \in Busy' PROVE running'
      <4>1. CASE q = r
        BY <1>1, <3>1, <4>1 DEF Busy
      <4>2. CASE q # r
        <5>1. q \in Busy
          BY <1>1, <3>1, <4>2 DEF Busy
        <5>. QED  BY <2>2, <5>1 DEF MotdInv, Solo
      <4>. QED  BY <4>1, <4>2
    <3>. QED  BY <2>1, <3>1 DEF Solo
  <2>3. CASE x.pc = "free" /\ ~At(r, "free")
    <3>1. \A q \in Runs : At(q, "free")'
      BY <1>1, <2>3 DEF MotdInv, Solo, At
    <3>2. Busy' = {}
      BY <3>1 DEF Busy, At
    <3>. QED  BY <2>1, <3>2 DEF Solo
  <2>. QED  BY <2>2, <2>3
<1>. QED  BY <1>1, <1>2, <1>3

\* A run goes on, or is asked for, and the world is as it was.
LEMMA RunGoesOn ==
  ASSUME MotdInv, NEW r \in Runs, NEW x, run' = [run EXCEPT ![r] = x], UNCHANGED world,
         dflt' = dflt, enabled' = enabled, DOMAIN tick' = DOMAIN tick, tick'.pc \in {"idle", "compare"},
         running' \in BOOLEAN, RunShape(x), RunTrue(x)', x.pc = "record" <=> run[r].pc = "record",
         x.pc \notin {"free", "start"} => running',
         (running => running') \/ (x.pc = "free" /\ ~At(r, "free")),
         x.pc = "free" \/ ~At(r, "free") \/ \A q \in Runs : At(q, "free")
  PROVE  MotdInv'
<1>1. /\ run'[r] = x /\ (\A q \in Runs \ {r} : run'[q] = run[q]) /\ run' = [q \in Runs |-> run'[q]]
      /\ \A q \in Runs : RunShape(run[q])'
  BY RunChanged
<1>2. MotdShape'
  BY <1>1 DEF MotdInv, MotdShape, world
<1>3. Solo'
  BY RunChanged
<1>4. RunsTrue'
  <2>1. ASSUME NEW q \in Runs PROVE RunTrue(run[q])'
    <3>1. CASE q = r
      BY <1>1, <3>1 DEF RunTrue
    <3>2. CASE q # r
      BY <1>1, <3>2 DEF MotdInv, RunsTrue, RunTrue, world, ThisWeek
    <3>. QED  BY <3>1, <3>2
  <2>. QED  BY <2>1 DEF RunsTrue
<1>5. WorldTrue'
  <2>1. Newest' = Newest /\ ThisWeek' = ThisWeek
    BY DEF world, Newest, ThisWeek
  <2>2. \A q \in Runs : At(q, "record")' <=> At(q, "record")
    BY <1>1 DEF At
  <2>3. FirstShown' /\ InSync'
    BY <2>1, <2>2 DEF MotdInv, WorldTrue, FirstShown, NoneRecords, InSync, world
  <2>4. Copies' /\ Pruning'
    BY <2>1 DEF MotdInv, WorldTrue, Copies, Pruning, world
  <2>. QED  BY <2>1, <2>3, <2>4 DEF MotdInv, WorldTrue, world
<1>. QED  BY <1>2, <1>3, <1>4, <1>5 DEF MotdInv

\* No run at all changes.
LEMMA RunsRest ==
  ASSUME MotdInv, UNCHANGED <<run, running>>, UNCHANGED world,
         dflt' \in Masters, enabled' \in BOOLEAN, DOMAIN tick' = DOMAIN tick, tick'.pc \in {"idle", "compare"}
  PROVE  MotdInv'
<1>1. MotdShape'
  BY DEF MotdInv, MotdShape, RunShape, world
<1>2. Solo'
  BY DEF MotdInv, Solo, Busy, At
<1>3. RunsTrue'
  BY DEF MotdInv, RunsTrue, RunTrue, world, ThisWeek
<1>4. WorldTrue'
  BY DEF MotdInv, WorldTrue, FirstShown, NoneRecords, InSync, Copies, Pruning, Newest, At, ThisWeek, world
<1>. QED  BY <1>1, <1>2, <1>3, <1>4 DEF MotdInv

LEMMA FreeIs == RunShape(Free) /\ Free.pc = "free"
BY DEF Free, RunShape, RunFields, Places

\* A request is refused, or its run starts beside no other.
LEMMA AskRunStep ==
  ASSUME MotdInv, ~Overlap, NEW r \in Runs, NEW by, NEW ahead \in {0, 1}, Ask(r, by, ahead), UNCHANGED world, running' = running,
         dflt' = dflt, enabled' = enabled, DOMAIN tick' = DOMAIN tick, tick'.pc \in {"idle", "compare"},
         (\A q \in Runs : At(q, "free")) /\ taint = {} /\ by = Automation
           => IF ahead = 1 THEN channel.week = ThisWeek + 1 ELSE channel.week <= ThisWeek
  PROVE  MotdInv'
<1>1. CASE run' = run
  <2>1. dflt' \in Masters /\ enabled' \in BOOLEAN
    BY DEF MotdInv, MotdShape
  <2>. QED  BY <1>1, <2>1, RunsRest
<1>2. CASE run' # run
  <2>. DEFINE x == [Free EXCEPT !.pc = "start", !.by = by, !.ahead = ahead]
  <2>1. ~running /\ At(r, "free") /\ run' = [run EXCEPT ![r] = x] /\ \A q \in Runs : ~At(q, "start")
    BY <1>2 DEF Ask
  <2>2. \A q \in Runs : At(q, "free")
    <3>1. Busy = {}
      BY <2>1 DEF MotdInv, Solo
    <3>. QED  BY <2>1, <3>1 DEF Busy, At
  <2>3. RunShape(x) /\ x.pc = "start" /\ x.by = by /\ x.ahead = ahead
    BY DEF Free, RunShape, RunFields, Places
  <2>. HIDE DEF x
  <2>4. RunTrue(x)'
    BY <2>2, <2>3 DEF RunTrue, world, ThisWeek
  <2>5. running' \in BOOLEAN
    BY DEF MotdInv, MotdShape
  <2>. QED  BY <2>1, <2>2, <2>3, <2>4, <2>5, RunGoesOn DEF At
<1>. QED  BY <1>1, <1>2

LEMMA TickCompareStep == MotdInv /\ ~Overlap /\ TickCompare => MotdInv'
<1>. SUFFICES ASSUME MotdInv, ~Overlap, TickCompare PROVE MotdInv'
  OBVIOUS
<1>1. tick' = Idle /\ UNCHANGED world /\ UNCHANGED <<dflt, enabled, running>>
  BY DEF TickCompare, content, shown, history, world
<1>2. DOMAIN tick' = DOMAIN tick /\ tick'.pc \in {"idle", "compare"}
  BY <1>1 DEF MotdInv, MotdShape, Idle
<1>3. CASE UNCHANGED run
  <2>1. dflt' \in Masters /\ enabled' \in BOOLEAN
    BY <1>1 DEF MotdInv, MotdShape
  <2>. QED  BY <1>1, <1>2, <1>3, <2>1, RunsRest
<1>4. ASSUME NEW r \in Runs, Ask(r, Automation, Ahead) PROVE MotdInv'
  <2>1. Ahead \in {0, 1}
    BY DEF Ahead
  <2>2. ASSUME \A q \in Runs : At(q, "free"), taint = {}
        PROVE  IF Ahead = 1 THEN channel.week = ThisWeek + 1 ELSE channel.week <= ThisWeek
    <3>1. NoneRecords
      BY <2>2 DEF NoneRecords, At
    <3>2. InSync /\ FirstShown /\ channel.week <= ThisWeek + 1 /\ channel.week \in Nat /\ ThisWeek \in Nat
      BY Weeks DEF MotdInv, WorldTrue, MotdShape
    <3>3. \A p \in Newest : channel.week = p.week
      BY <2>2, <3>1, <3>2 DEF InSync, NoneRecords
    <3>4. CASE pubs = {}
      <4>1. Newest = {} /\ channel.week = 0
        BY <2>2, <3>1, <3>2, <3>4 DEF Newest, FirstShown
      <4>. QED  BY <3>2, <4>1 DEF Ahead
    <3>5. CASE pubs # {}
      <4>1. PICK p \in Newest : TRUE
        <5>1. IsFiniteSet(pubs) /\ \A p \in pubs : p.n \in Nat
          BY DEF MotdInv, MotdShape
        <5>. QED  BY <3>5, <5>1, NewestThere DEF Newest
      <4>2. CASE \E q \in Newest : q.week = ThisWeek + 1
        BY <3>3, <4>2 DEF Ahead
      <4>3. CASE \A q \in Newest : q.week # ThisWeek + 1
        <5>1. Ahead = 0 /\ channel.week # ThisWeek + 1
          BY <3>3, <4>1, <4>3 DEF Ahead
        <5>. QED  BY <3>2, <5>1
      <4>. QED  BY <4>2, <4>3
    <3>. QED  BY <3>4, <3>5
  <2>3. running' = running /\ dflt' = dflt /\ enabled' = enabled
    BY <1>1
  <2>4. \A q : q = Ahead /\ q \in {0, 1} => MotdInv'
    <3>. SUFFICES ASSUME NEW q, q = Ahead, q \in {0, 1} PROVE MotdInv'
      OBVIOUS
    <3>1. Ask(r, Automation, q)
      BY <1>4
    <3>2. (\A p \in Runs : At(p, "free")) /\ taint = {} /\ Automation = Automation
            => IF q = 1 THEN channel.week = ThisWeek + 1 ELSE channel.week <= ThisWeek
      BY <2>2
    <3>. QED  BY <1>1, <1>2, <2>3, <3>1, <3>2, AskRunStep
  <2>. QED  BY <2>1, <2>4
<1>. QED  BY <1>3, <1>4 DEF TickCompare

LEMMA PublishStep == MotdInv /\ ~Overlap /\ Publish => MotdInv'
<1>. SUFFICES ASSUME MotdInv, ~Overlap, NEW r \in Runs, NEW ahead \in {0, 1}, Ask(r, Admin, ahead), Publish PROVE MotdInv'
  BY DEF Publish
<1>1. UNCHANGED world /\ running' = running /\ dflt' = dflt /\ enabled' = enabled /\ tick' = tick
  BY DEF Publish, content, shown, history, world
<1>2. tick'.pc \in {"idle", "compare"} /\ Admin # Automation
  BY <1>1, MotdAssumption DEF MotdInv, MotdShape
<1>. QED  BY <1>1, <1>2, AskRunStep

LEMMA RestSteps == MotdInv /\ (TickRead \/ Edit \/ UNCHANGED motdVars) => MotdInv'
<1>. SUFFICES ASSUME MotdInv, TickRead \/ Edit \/ UNCHANGED motdVars PROVE MotdInv'
  OBVIOUS
<1>1. UNCHANGED <<run, running>> /\ UNCHANGED world
  BY DEF TickRead, Edit, motdVars, content, shown, history, motdWork, world
<1>2. dflt' \in Masters /\ enabled' \in BOOLEAN
  BY DEF TickRead, Edit, motdVars, content, shown, history, motdWork, MotdInv, MotdShape
<1>3. DOMAIN tick' = DOMAIN tick /\ tick'.pc \in {"idle", "compare"}
  BY DEF TickRead, Edit, motdVars, content, shown, history, motdWork, MotdInv, MotdShape
<1>. QED  BY <1>1, <1>2, <1>3, RunsRest

LEMMA QuietSteps == MotdInv /\ (\E r \in Runs : Start(r) \/ Build(r) \/ Resolve(r) \/ Fail(r)) => MotdInv'
<1>. SUFFICES ASSUME MotdInv, NEW r \in Runs, Start(r) \/ Build(r) \/ Resolve(r) \/ Fail(r) PROVE MotdInv'
  OBVIOUS
<1>0. UNCHANGED world /\ dflt' = dflt /\ enabled' = enabled /\ tick' = tick
  BY DEF Start, Build, Resolve, Fail, content, shown, history, motdWork, world
<1>1. RunShape(run[r]) /\ RunTrue(run[r]) /\ tick'.pc \in {"idle", "compare"} /\ DOMAIN tick' = DOMAIN tick
      /\ running \in BOOLEAN /\ channel.week \in Nat /\ channel.week <= ThisWeek + 1
  BY <1>0 DEF MotdInv, MotdShape, RunsTrue, WorldTrue
<1>2. ThisWeek \in Nat /\ ThisWeek' = ThisWeek
  BY <1>0, Weeks DEF MotdInv, ThisWeek, world
<1>3. CASE Start(r)
  <2>. SUFFICES ASSUME NEW x, x = [run[r] EXCEPT !.pc = "build"] PROVE MotdInv'
    OBVIOUS
  <2>1. run' = [run EXCEPT ![r] = x] /\ running' = TRUE /\ run[r].pc = "start"
    BY <1>3 DEF Start, Goto, At
  <2>2. RunShape(x) /\ x.pc = "build" /\ x.by = run[r].by /\ x.ahead = run[r].ahead
    BY <1>1 DEF RunShape, RunFields, Places
  <2>3. RunTrue(x)'
    BY <1>0, <1>1, <1>2, <2>1, <2>2 DEF RunTrue, world
  <2>. QED  BY <1>0, <1>1, <2>1, <2>2, <2>3, RunGoesOn DEF At
<1>4. CASE Build(r)
  <2>. SUFFICES ASSUME NEW x, x = [run[r] EXCEPT !.pc = "resolve", !.week = ThisWeek + run[r].ahead] PROVE MotdInv'
    OBVIOUS
  <2>1. run' = [run EXCEPT ![r] = x] /\ running' = running /\ run[r].pc = "build"
    BY <1>4 DEF Build, At
  <2>2. RunShape(x) /\ x.pc = "resolve" /\ x.by = run[r].by /\ x.week = ThisWeek + run[r].ahead /\ run[r].ahead \in {0, 1}
    BY <1>1, <1>2 DEF RunShape, RunFields, Places
  <2>3. RunTrue(x)'
    <3>1. x.week <= ThisWeek + 1
      BY <1>2, <2>2
    <3>2. ASSUME taint = {}, run[r].by = Automation
          PROVE  channel.week <= x.week /\ (x.week <= ThisWeek \/ x.week = channel.week)
      BY <1>1, <1>2, <2>1, <2>2, <3>2 DEF RunTrue
    <3>. QED  BY <1>0, <1>2, <2>2, <3>1, <3>2 DEF RunTrue, world
  <2>4. running
    <3>1. r \in Busy
      BY <2>1 DEF Busy
    <3>. QED  BY <3>1 DEF MotdInv, Solo
  <2>. QED  BY <1>0, <1>1, <2>1, <2>2, <2>3, <2>4, RunGoesOn DEF At
<1>5. CASE Resolve(r)
  <2>. SUFFICES ASSUME NEW x, x = [run[r] EXCEPT !.pc = "backup", !.key = DueKey] PROVE MotdInv'
    OBVIOUS
  <2>1. run' = [run EXCEPT ![r] = x] /\ running' = running /\ run[r].pc = "resolve"
    BY <1>5 DEF Resolve, At
  <2>2. RunShape(x) /\ x.pc = "backup" /\ x.by = run[r].by /\ x.week = run[r].week
    BY <1>1 DEF RunShape, RunFields, Places
  <2>3. RunTrue(x)'
    BY <1>0, <1>1, <1>2, <2>1, <2>2 DEF RunTrue, world
  <2>4. running
    <3>1. r \in Busy
      BY <2>1 DEF Busy
    <3>. QED  BY <3>1 DEF MotdInv, Solo
  <2>. QED  BY <1>0, <1>1, <2>1, <2>2, <2>3, <2>4, RunGoesOn DEF At
<1>6. CASE Fail(r)
  <2>1. run' = [run EXCEPT ![r] = Free] /\ running' = FALSE /\ run[r].pc \in {"build", "resolve", "backup", "send"}
    BY <1>6 DEF Fail
  <2>2. RunTrue(Free)'
    BY FreeIs DEF RunTrue
  <2>. QED  BY <1>0, <1>1, <2>1, <2>2, FreeIs, RunGoesOn DEF At
<1>. QED  BY <1>3, <1>4, <1>5, <1>6

-----------------------------------------------------------------------------
(***************************************************************************)
(* Steps that change what the history, the channel and the backups say.    *)
(***************************************************************************)
\* Beside a run that is not free there is none.
LEMMA OthersFree ==
  ASSUME MotdInv, NEW r \in Runs, run[r].pc # "free"
  PROVE  \A q \in Runs \ {r} : run[q].pc = "free"
BY DEF MotdInv, Solo, At

LEMMA BackupStep ==
  ASSUME MotdInv, NEW r \in Runs, Backup(r)
  PROVE  MotdInv'
<1>. SUFFICES ASSUME NEW x, x = [run[r] EXCEPT !.pc = "send", !.backup = now] PROVE MotdInv'
  OBVIOUS
<1>1. /\ run[r].pc = "backup" /\ run' = [run EXCEPT ![r] = x] /\ backups' = backups \cup {now}
      /\ UNCHANGED <<now, dflt, enabled, channel, pubs, running, tick, prune, taint>>
  BY DEF Backup, At, content, history
<1>2. RunShape(run[r]) /\ RunTrue(run[r])
  BY DEF MotdInv, MotdShape, RunsTrue
<1>3. /\ RunShape(x) /\ x.pc = "send" /\ x.by = run[r].by /\ x.week = run[r].week /\ x.backup = now
  BY <1>2 DEF RunShape, RunFields, Places
<1>4. running
  <2>1. r \in Busy
    BY <1>1 DEF Busy
  <2>. QED  BY <2>1 DEF MotdInv, Solo
<1>5. /\ run'[r] = x /\ (\A q \in Runs \ {r} : run'[q] = run[q]) /\ run' = [q \in Runs |-> run'[q]]
      /\ (\A q \in Runs : RunShape(run[q])') /\ Solo'
  BY <1>1, <1>3, <1>4, RunChanged DEF At
<1>6. MotdShape'
  BY <1>1, <1>5 DEF MotdInv, MotdShape
<1>7. ThisWeek' = ThisWeek /\ Newest' = Newest
  BY <1>1 DEF ThisWeek, Newest
<1>8. RunsTrue'
  <2>1. RunTrue(x)'
    BY <1>1, <1>2, <1>3, <1>7 DEF RunTrue
  <2>2. \A q \in Runs \ {r} : RunTrue(run[q])'
    BY <1>1, <1>5, OthersFree DEF RunTrue
  <2>. QED  BY <1>5, <2>1, <2>2 DEF RunsTrue, RunTrue
<1>9. WorldTrue'
  <2>1. \A q \in Runs : At(q, "record")' <=> At(q, "record")
    BY <1>1, <1>3, <1>5 DEF At
  <2>2. FirstShown' /\ InSync'
    BY <1>1, <1>7, <2>1 DEF MotdInv, WorldTrue, FirstShown, NoneRecords, InSync
  <2>3. Copies' /\ Pruning'
    BY <1>1, <1>7 DEF MotdInv, WorldTrue, Copies, Pruning
  <2>. QED  BY <1>1, <1>7, <2>2, <2>3 DEF MotdInv, WorldTrue
<1>. QED  BY <1>5, <1>6, <1>8, <1>9 DEF MotdInv

LEMMA SendMotdStep ==
  ASSUME MotdInv, NEW r \in Runs, Send(r)
  PROVE  MotdInv'
<1>1. /\ run[r].pc = "send" /\ channel' = [key |-> run[r].key, week |-> run[r].week]
      /\ UNCHANGED <<now, dflt, enabled, pubs, backups, tick, prune>>
  BY DEF Send, At, content, history
<1>2. RunShape(run[r]) /\ RunTrue(run[r]) /\ running \in BOOLEAN
  BY DEF MotdInv, MotdShape, RunsTrue
<1>3. ThisWeek' = ThisWeek /\ Newest' = Newest /\ ThisWeek \in Nat
  BY <1>1, Weeks DEF ThisWeek, Newest, MotdInv
<1>4. channel'.week = run[r].week /\ channel'.week \in Nat /\ channel'.week <= ThisWeek + 1
  BY <1>1, <1>2 DEF RunTrue, RunShape
<1>5. Copies' /\ Pruning'
  BY <1>1, <1>3 DEF MotdInv, WorldTrue, Copies, Pruning
<1>6. running
  <2>1. r \in Busy
    BY <1>1 DEF Busy
  <2>. QED  BY <2>1 DEF MotdInv, Solo
<1>7. CASE Goto(r, "record") /\ UNCHANGED <<running, taint>>
  <2>. SUFFICES ASSUME NEW x, x = [run[r] EXCEPT !.pc = "record"] PROVE MotdInv'
    OBVIOUS
  <2>1. run' = [run EXCEPT ![r] = x]
    BY <1>7 DEF Goto
  <2>2. RunShape(x) /\ x.pc = "record" /\ x.by = run[r].by /\ x.week = run[r].week /\ x.key = run[r].key /\ x.backup = run[r].backup
    BY <1>2 DEF RunShape, RunFields, Places
  <2>3. /\ run'[r] = x /\ (\A q \in Runs \ {r} : run'[q] = run[q]) /\ run' = [q \in Runs |-> run'[q]]
        /\ (\A q \in Runs : RunShape(run[q])') /\ Solo'
    BY <1>1, <1>2, <1>6, <1>7, <2>1, <2>2, RunChanged DEF At
  <2>4. MotdShape'
    BY <1>1, <1>4, <1>7, <2>3 DEF MotdInv, MotdShape
  <2>5. RunsTrue'
    <3>1. RunTrue(x)'
      BY <1>1, <1>2, <1>3, <2>2 DEF RunTrue
    <3>2. \A q \in Runs \ {r} : RunTrue(run[q])'
      BY <1>1, <2>3, OthersFree DEF RunTrue
    <3>. QED  BY <2>3, <3>1, <3>2 DEF RunsTrue, RunTrue
  <2>6. WorldTrue'
    <3>1. At(r, "record")'
      BY <2>2, <2>3 DEF At
    <3>. QED  BY <1>3, <1>4, <1>5, <3>1 DEF WorldTrue, FirstShown, NoneRecords, InSync
  <2>. QED  BY <2>3, <2>4, <2>5, <2>6 DEF MotdInv
<1>8. CASE taint' = taint \cup {"lost"} /\ run' = [run EXCEPT ![r] = Free] /\ running' = FALSE
  <2>1. /\ run'[r] = Free /\ (\A q \in Runs \ {r} : run'[q] = run[q]) /\ run' = [q \in Runs |-> run'[q]]
        /\ (\A q \in Runs : RunShape(run[q])') /\ Solo'
    BY <1>1, <1>8, FreeIs, RunChanged DEF At
  <2>2. MotdShape'
    BY <1>1, <1>4, <1>8, <2>1 DEF MotdInv, MotdShape
  <2>3. RunsTrue'
    BY <1>1, <2>1, FreeIs, OthersFree DEF RunsTrue, RunTrue
  <2>4. WorldTrue'
    BY <1>3, <1>4, <1>5, <1>8 DEF WorldTrue, FirstShown, InSync
  <2>. QED  BY <2>1, <2>2, <2>3, <2>4 DEF MotdInv
<1>. QED  BY <1>7, <1>8 DEF Send

LEMMA RecordStep ==
  ASSUME MotdInv, NEW r \in Runs, Record(r)
  PROVE  MotdInv'
<1>. DEFINE number == Max({p.n : p \in pubs} \cup {0}) + 1
<1>. SUFFICES ASSUME NEW new, new = [n |-> number, key |-> run[r].key, week |-> run[r].week, at |-> now, backup |-> run[r].backup]
              PROVE  MotdInv'
  OBVIOUS
<1>1. /\ run[r].pc = "record" /\ run' = [run EXCEPT ![r] = Free] /\ running' = FALSE /\ pubs' = pubs \cup {new}
      /\ UNCHANGED <<now, dflt, enabled, channel, backups, tick, prune, taint>>
  BY DEF Record, At, content, history
<1>2. RunShape(run[r]) /\ RunTrue(run[r]) /\ IsFiniteSet(pubs) /\ \A p \in pubs : p.n \in Nat /\ p.week \in Nat
  BY DEF MotdInv, MotdShape, RunsTrue
<1>3. number \in Nat /\ \A p \in pubs : p.n < number
  BY <1>2, NumberNext
<1>. HIDE DEF number
<1>4. new.n = number /\ new.key = run[r].key /\ new.week = run[r].week /\ new.at = now /\ new.backup = now /\ new.week \in Nat
  BY <1>1, <1>2 DEF RunTrue, RunShape
<1>5. Newest' = {new}
  BY <1>1, <1>2, <1>3, <1>4 DEF Newest
<1>6. /\ run'[r] = Free /\ (\A q \in Runs \ {r} : run'[q] = run[q]) /\ run' = [q \in Runs |-> run'[q]]
      /\ (\A q \in Runs : RunShape(run[q])') /\ Solo'
  BY <1>1, FreeIs, RunChanged DEF At
<1>7. MotdShape'
  <2>1. IsFiniteSet(pubs')
    BY <1>1, <1>2, FS_AddElement
  <2>. QED  BY <1>1, <1>2, <1>3, <1>4, <1>6, <2>1, ZenonT(30) DEF MotdInv, MotdShape
<1>8. RunsTrue'
  BY <1>1, <1>6, FreeIs, OthersFree DEF RunsTrue, RunTrue
<1>9. WorldTrue'
  <2>1. FirstShown' /\ InSync'
    BY <1>1, <1>2, <1>4, <1>5 DEF FirstShown, InSync, RunTrue
  <2>2. Copies'
    BY <1>1, <1>2, <1>4, <1>5 DEF Copies, RunTrue
  <2>3. Pruning'
    <3>1. now - Retention <= now
      BY Weeks DEF MotdInv
    <3>. QED  BY <1>1, <1>4, <1>5, <3>1 DEF MotdInv, WorldTrue, Pruning
  <2>4. channel'.week <= ThisWeek' + 1
    BY <1>1 DEF MotdInv, WorldTrue, ThisWeek
  <2>. QED  BY <2>1, <2>2, <2>3, <2>4 DEF WorldTrue
<1>. QED  BY <1>6, <1>7, <1>8, <1>9 DEF MotdInv

\* Pruning leaves the newest where it is.
LEMMA PruneSteps == MotdInv /\ (PruneAsk \/ PruneRows \/ PruneFiles) => MotdInv'
<1>. SUFFICES ASSUME MotdInv, PruneAsk \/ PruneRows \/ PruneFiles PROVE MotdInv'
  OBVIOUS
<1>1. /\ UNCHANGED <<now, dflt, enabled, channel, running, run, tick, taint>> /\ ThisWeek' = ThisWeek
      /\ \A r \in Runs : At(r, "record")' <=> At(r, "record")
  BY DEF PruneAsk, PruneRows, PruneFiles, content, shown, motdWork, ThisWeek, At
<1>2. IsFiniteSet(pubs) /\ (\A p \in pubs : p.n \in Nat) /\ DOMAIN prune = {"pc", "keep", "cutoff"} /\ now \in Nat
      /\ Retention \in Nat
  BY Weeks DEF MotdInv, MotdShape
<1>3. Solo'
  BY <1>1 DEF MotdInv, Solo, Busy, At
<1>4. pubs' \subseteq pubs /\ (pubs' = {} => pubs = {}) /\ Newest' \subseteq Newest
  <2>1. CASE pubs' = pubs
    BY <2>1 DEF Newest
  <2>2. CASE PruneRows
    <3>1. pubs' = {p \in pubs : p.at >= prune.cutoff \/ p \in prune.keep} /\ prune.pc = "rows"
      BY <2>2 DEF PruneRows
    <3>2. Newest \subseteq pubs'
      BY <3>1 DEF MotdInv, WorldTrue, Pruning, Newest
    <3>3. pubs # {} => \E p \in Newest : TRUE
      BY <1>2, NewestThere DEF Newest
    <3>4. ASSUME NEW q \in Newest' PROVE q \in Newest
      <4>1. q \in pubs' /\ q \in pubs /\ \A p \in pubs' : p.n <= q.n
        BY <3>1, <3>4 DEF Newest
      <4>2. PICK p \in Newest : TRUE
        BY <3>3, <4>1
      <4>3. p.n <= q.n /\ \A o \in pubs : o.n <= p.n
        BY <3>2, <4>1 DEF Newest
      <4>4. \A o \in pubs : o.n <= q.n
        <5>1. p \in pubs
          BY DEF Newest
        <5>. QED  BY <1>2, <4>1, <4>3, <5>1
      <4>. QED  BY <4>1, <4>4 DEF Newest
    <3>. QED  BY <3>1, <3>2, <3>3, <3>4
  <2>. QED  BY <2>1, <2>2 DEF PruneAsk, PruneFiles, shown
<1>5. DOMAIN prune' = {"pc", "keep", "cutoff"} /\ prune'.pc \in {"idle", "rows", "files"}
  <2>1. CASE PruneAsk
    <3>1. prune' = [pc |-> "rows", keep |-> Newest, cutoff |-> now - Retention]
      BY <2>1 DEF PruneAsk
    <3>. QED  BY <3>1
  <2>2. CASE PruneRows
    BY <1>2, <2>2 DEF PruneRows
  <2>3. CASE PruneFiles
    BY <1>2, <2>3 DEF PruneFiles
  <2>. QED  BY <2>1, <2>2, <2>3
<1>6. MotdShape'
  <2>1. IsFiniteSet(pubs')
    BY <1>2, <1>4, FS_Subset
  <2>. QED  BY <1>1, <1>4, <1>5, <2>1 DEF MotdInv, MotdShape, RunShape
<1>7. RunsTrue'
  <2>1. now \in backups => now \in backups'
    <3>1. CASE PruneFiles
      <4>1. prune.cutoff = now - Retention /\ backups' = {b \in backups : b >= prune.cutoff \/ \E p \in prune.keep : p.backup = b}
        BY <3>1 DEF PruneFiles, MotdInv, WorldTrue, Pruning
      <4>2. now >= now - Retention
        BY <1>2
      <4>. QED  BY <4>1, <4>2
    <3>2. CASE ~PruneFiles
      BY <3>2 DEF PruneAsk, PruneRows, shown
    <3>. QED  BY <3>1, <3>2
  <2>. QED  BY <1>1, <2>1 DEF MotdInv, RunsTrue, RunTrue
<1>8. FirstShown' /\ InSync'
  BY <1>1, <1>4 DEF MotdInv, WorldTrue, FirstShown, NoneRecords, InSync
<1>9. Copies'
  <2>1. CASE PruneFiles
    <3>1. /\ backups' = {b \in backups : b >= prune.cutoff \/ \E p \in prune.keep : p.backup = b} /\ prune.pc = "files"
      BY <2>1 DEF PruneFiles
    <3>. QED  BY <1>4, <3>1 DEF MotdInv, WorldTrue, Copies, Pruning
  <2>2. CASE ~PruneFiles
    BY <1>4, <2>2 DEF MotdInv, WorldTrue, Copies, PruneAsk, PruneRows, shown
  <2>. QED  BY <2>1, <2>2
<1>10. Pruning'
  <2>1. CASE PruneAsk
    <3>1. prune' = [pc |-> "rows", keep |-> Newest, cutoff |-> now - Retention]
      BY <2>1 DEF PruneAsk
    <3>. QED  BY <1>1, <1>4, <3>1 DEF Pruning
  <2>2. CASE PruneRows
    <3>1. prune.pc = "rows" /\ prune' = [prune EXCEPT !.pc = "files"]
      BY <2>2 DEF PruneRows
    <3>2. prune'.keep = prune.keep /\ prune'.cutoff = prune.cutoff
      BY <1>2, <3>1
    <3>. QED  BY <1>1, <1>4, <3>1, <3>2 DEF MotdInv, WorldTrue, Pruning
  <2>3. CASE PruneFiles
    <3>1. prune'.pc = "idle"
      BY <1>2, <2>3 DEF PruneFiles
    <3>. QED  BY <3>1 DEF Pruning
  <2>. QED  BY <2>1, <2>2, <2>3
<1>11. channel'.week <= ThisWeek' + 1
  BY <1>1 DEF MotdInv, WorldTrue
<1>. QED  BY <1>3, <1>6, <1>7, <1>8, <1>9, <1>10, <1>11 DEF MotdInv, WorldTrue

\* Time passes while nobody is between a backup and its row.
LEMMA ClockStep == MotdInv /\ Clock => MotdInv'
<1>. SUFFICES ASSUME MotdInv, Clock PROVE MotdInv'
  OBVIOUS
<1>1. /\ now' = now + 1 /\ now < MaxTime /\ prune.pc = "idle" /\ \A r \in Runs : run[r].pc \notin {"start", "send", "record"}
      /\ UNCHANGED <<dflt, enabled, channel, pubs, backups, running, run, tick, prune>>
  BY DEF Clock, content, shown, motdWork, history
<1>2. taint' = taint \/ taint' = taint \cup {"turned"}
  BY DEF Clock
<1>3. /\ now \in Nat /\ ThisWeek \in Nat /\ ThisWeek' \in Nat /\ ThisWeek <= ThisWeek'
      /\ (now + 1) % Week # 0 => ThisWeek' = ThisWeek
  BY <1>1, Weeks, NextQuotient DEF ThisWeek, MotdInv
<1>4. MotdShape'
  <2>1. now' \in 0 .. MaxTime
    BY <1>1, <1>3, MotdAssumption
  <2>. QED  BY <1>1, <1>2, <2>1 DEF MotdInv, MotdShape, RunShape
<1>5. Solo'
  BY <1>1 DEF MotdInv, Solo, Busy, At
<1>6. RunsTrue'
  <2>. SUFFICES ASSUME NEW r \in Runs PROVE RunTrue(run[r])'
    BY DEF RunsTrue
  <2>1. RunTrue(run[r]) /\ RunShape(run[r]) /\ channel.week \in Nat /\ channel.week <= ThisWeek + 1
    BY DEF MotdInv, RunsTrue, MotdShape, WorldTrue
  <2>2. run[r].pc = "build" /\ run[r].by = Automation /\ run[r].ahead = 1 /\ taint' = {} => ThisWeek' = ThisWeek
    BY <1>1, <1>3 DEF Clock, At
  <2>3. taint' = {} => taint = {}
    BY <1>2
  <2>4. run[r].week \in Nat
    BY <2>1 DEF RunShape
  <2>5. run[r].pc \in {"resolve", "backup", "send", "record"} => run[r].week <= ThisWeek' + 1
    BY <1>3, <2>1, <2>4 DEF RunTrue
  <2>6. ASSUME taint' = {}, run[r].by = Automation, run[r].pc = "build"
        PROVE  IF run[r].ahead = 1 THEN channel.week = ThisWeek' + 1 ELSE channel.week <= ThisWeek'
    BY <1>3, <2>1, <2>2, <2>3, <2>6 DEF RunTrue
  <2>7. ASSUME taint' = {}, run[r].by = Automation, run[r].pc \in {"resolve", "backup"}
        PROVE  channel.week <= run[r].week /\ (run[r].week <= ThisWeek' \/ run[r].week = channel.week)
    BY <1>3, <2>1, <2>3, <2>4, <2>7 DEF RunTrue
  <2>. QED  BY <1>1, <2>5, <2>6, <2>7 DEF RunTrue
<1>7. Newest' = Newest /\ \A r \in Runs : At(r, "record")' <=> At(r, "record")
  BY <1>1 DEF Newest, At
<1>8. FirstShown' /\ InSync'
  BY <1>1, <1>2, <1>7 DEF MotdInv, WorldTrue, FirstShown, NoneRecords, InSync
<1>9. Copies' /\ Pruning'
  BY <1>1, <1>7 DEF MotdInv, WorldTrue, Copies, Pruning
<1>10. channel'.week <= ThisWeek' + 1
  BY <1>1, <1>3 DEF MotdInv, MotdShape, WorldTrue
<1>. QED  BY <1>4, <1>5, <1>6, <1>8, <1>9, <1>10 DEF MotdInv, WorldTrue

LEMMA CrashMotdStep == MotdInv /\ Crash => MotdInv'
<1>. SUFFICES ASSUME MotdInv, Crash PROVE MotdInv'
  OBVIOUS
<1>1. /\ taint' = IF \E r \in Runs : At(r, "record") THEN taint \cup {"cut"} ELSE taint
      /\ run' = [r \in Runs |-> Free] /\ running' = FALSE /\ tick' = Idle
      /\ prune' = [prune EXCEPT !.pc = "idle", !.keep = {}]
      /\ UNCHANGED <<now, dflt, enabled, channel, pubs, backups>>
  BY DEF Crash, content, shown
<1>2. DOMAIN prune' = {"pc", "keep", "cutoff"} /\ prune'.pc = "idle"
  BY <1>1 DEF MotdInv, MotdShape
<1>3. \A r \in Runs : run'[r] = Free
  BY <1>1
<1>4. \A r \in Runs : RunShape(run[r])' /\ RunTrue(run[r])'
  BY <1>3, FreeIs DEF RunShape, RunTrue
<1>5. MotdShape'
  <2>1. DOMAIN tick' = {"pc", "key", "at"} /\ tick'.pc \in {"idle", "compare"}
    BY <1>1 DEF Idle
  <2>2. run' = [r \in Runs |-> run'[r]]
    BY <1>1
  <2>. QED  BY <1>1, <1>2, <1>4, <2>1, <2>2 DEF MotdInv, MotdShape
<1>6. Solo'
  BY <1>3, FreeIs DEF Solo, Busy, At
<1>7. Newest' = Newest /\ ThisWeek' = ThisWeek
  BY <1>1 DEF Newest, ThisWeek
<1>8. FirstShown' /\ InSync'
  <2>1. CASE \E r \in Runs : At(r, "record")
    BY <1>1, <2>1 DEF FirstShown, InSync
  <2>2. CASE ~\E r \in Runs : At(r, "record")
    BY <1>1, <1>7, <2>2 DEF MotdInv, WorldTrue, FirstShown, NoneRecords, InSync
  <2>. QED  BY <2>1, <2>2
<1>9. Copies' /\ Pruning'
  BY <1>1, <1>2, <1>7 DEF MotdInv, WorldTrue, Copies, Pruning
<1>10. channel'.week <= ThisWeek' + 1
  BY <1>1, <1>7 DEF MotdInv, WorldTrue
<1>. QED  BY <1>4, <1>5, <1>6, <1>8, <1>9, <1>10 DEF MotdInv, WorldTrue, RunsTrue

LEMMA MotdInductive ==
  ASSUME ~Overlap
  PROVE  MotdInv /\ [MotdNext]_motdVars => MotdInv'
<1>. SUFFICES ASSUME MotdInv, [MotdNext]_motdVars PROVE MotdInv'
  OBVIOUS
<1>. QED  BY RestSteps, TickCompareStep, PublishStep, QuietSteps, BackupStep, SendMotdStep, RecordStep, PruneSteps, ClockStep, CrashMotdStep
          DEF MotdNext, Ticks, Job
-----------------------------------------------------------------------------
\* Whatever is edited, published, pruned, lost or cut short: the newest
\* publication is what the channel shows, unless an answer was lost or a crash
\* fell between the channel and the row, and it and the copy of what it
\* replaced are never pruned (motd_publish.py, the retention job).
THEOREM MotdSafeCorrect ==
  ASSUME ~Overlap
  PROVE  MotdSpec => []MotdSafe
<1>1. MotdInv => MotdSafe
  <2>. SUFFICES ASSUME MotdInv PROVE MotdSafe
    OBVIOUS
  <2>1. MotdType
    BY DEF MotdInv, MotdShape, RunShape, Places, Solo, MotdType
  <2>2. BaselineKept
    BY DEF MotdInv, WorldTrue, FirstShown, NoneRecords, Copies, BaselineKept
  <2>. QED  BY <2>1, <2>2 DEF MotdInv, WorldTrue, MotdSafe
<1>. QED  BY <1>1, MotdInitially, MotdInductive, PTL DEF MotdSpec

\* A run the automation asked for puts the channel neither back a week nor
\* ahead of the week that is on, unless the week turned between the decision
\* and the job (automation.py's week_offset).
THEOREM WeekKeptCorrect ==
  ASSUME ~Overlap
  PROVE  MotdSpec => WeekKept
<1>. DEFINE MotdMoves == \A r \in Runs : At(r, "send") /\ run[r].by = Automation /\ channel' # channel /\ taint = {}
                      => channel.week <= channel'.week /\ channel'.week <= Max({channel.week, ThisWeek})
<1>1. MotdInv /\ [MotdNext]_motdVars => [MotdMoves]_motdVars
  <2>. SUFFICES ASSUME MotdInv, MotdNext, NEW r \in Runs,
                       At(r, "send"), run[r].by = Automation, channel' # channel, taint = {}
                PROVE  channel.week <= channel'.week /\ channel'.week <= Max({channel.week, ThisWeek})
    OBVIOUS
  <2>1. PICK q \in Runs : Send(q)
    BY DEF MotdNext, Ticks, TickRead, TickCompare, Publish, Edit, Clock, Crash, Job, Start, Build, Resolve, Backup, Record, Fail,
           PruneAsk, PruneRows, PruneFiles, shown
  <2>2. q = r
    BY <2>1 DEF MotdInv, Solo, Send, At
  <2>3. channel' = [key |-> run[r].key, week |-> run[r].week]
    BY <2>1, <2>2 DEF Send
  <2>4. channel.week <= run[r].week /\ (run[r].week <= ThisWeek \/ run[r].week = channel.week)
    BY DEF MotdInv, RunsTrue, RunTrue, At
  <2>5. channel.week \in Nat /\ run[r].week \in Nat /\ ThisWeek \in Nat
    BY Weeks DEF MotdInv, MotdShape, RunShape
  <2>6. channel.week <= Max({channel.week, ThisWeek}) /\ ThisWeek <= Max({channel.week, ThisWeek})
        /\ Max({channel.week, ThisWeek}) \in Nat
    BY <2>5, MaxOfTwo
  <2>. QED  BY <2>3, <2>4, <2>5, <2>6
<1>. QED  BY <1>1, MotdInitially, MotdInductive, PTL DEF MotdSpec, WeekKept
=============================================================================
