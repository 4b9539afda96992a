------------------------------ MODULE Sockets ------------------------------
(***************************************************************************)
(* The live queue page: ws/manager.py keeps one socket per user and sends  *)
(* the queue to all, ws/handler.py runs one coroutine per socket, and two  *)
(* loops broadcast, the poller's and the presence monitor's.  The state of *)
(* the queue is a version number.  A send to a client that is gone fails.  *)
(***************************************************************************)
EXTENDS Integers

CONSTANTS
  Users, Socks, Owner,   \* who opens which socket; a user's in the order of their numbers
  Poller, Presence,      \* who broadcasts
  NoSock, NoCaster,
  MaxVersion     \* bound: changes of the queue

ASSUME SocketsAssumption ==
  /\ Socks \subseteq Nat /\ Owner \in [Socks -> Users] /\ MaxVersion \in Nat /\ NoSock \notin Socks
  /\ Poller # Presence /\ NoCaster \notin {Poller, Presence}

VARIABLES
  conn,      \* _connections
  sock,      \* the handler of each socket: its place, the client's version
  alive,     \* the sockets whose client is there
  wslock,    \* who holds _lock
  version,   \* of the shadow queue
  cast,      \* each broadcaster: place, what it sends, to whom still, the stale
  again      \* users who connected while a handler of theirs was still there

socketVars == <<conn, sock, alive, wslock, version, cast, again>>

Casters == {Poller, Presence}
Resting == [pc |-> "rest", data |-> 0, left |-> {}, stale |-> {}]

SocketsType ==
  /\ conn \in [Users -> Socks \cup {NoSock}]
  /\ sock \in [Socks -> [pc : {"new", "wait", "initial", "loop", "leave", "closed"}, seen : 0 .. MaxVersion]]
  /\ alive \subseteq Socks /\ wslock \in Casters \cup {NoCaster} /\ version \in 0 .. MaxVersion
  /\ \A b \in Casters : cast[b].pc \in {"rest", "wait", "send"} /\ (cast[b].pc = "send" <=> wslock = b)
  /\ \A u \in Users : conn[u] # NoSock => Owner[conn[u]] = u

SocketsInit ==
  /\ conn = [u \in Users |-> NoSock] /\ sock = [s \in Socks |-> [pc |-> "new", seen |-> 0]]
  /\ alive = {} /\ wslock = NoCaster /\ version = 0
  /\ cast = [b \in Casters |-> Resting] /\ again = {}

SockGoto(s, pc) == sock' = [sock EXCEPT ![s].pc = pc]
-----------------------------------------------------------------------------
\* A logged-in browser opens a socket.
Accept(s) ==
  /\ sock[s].pc = "new" /\ \A r \in Socks : Owner[r] = Owner[s] /\ r < s => sock[r].pc # "new"
  /\ SockGoto(s, "wait") /\ alive' = alive \cup {s}
  /\ again' = IF \E r \in Socks : Owner[r] = Owner[s] /\ sock[r].pc \notin {"new", "closed"} THEN again \cup {Owner[s]} ELSE again
  /\ UNCHANGED <<conn, wslock, version, cast>>

\* connect: the user's old socket is closed and replaced.
Connect(s) ==
  /\ sock[s].pc = "wait" /\ wslock = NoCaster /\ SockGoto(s, "initial")
  /\ conn' = [conn EXCEPT ![Owner[s]] = s] /\ alive' = alive \ {conn[Owner[s]]}
  /\ UNCHANGED <<wslock, version, cast, again>>

\* The queue as it is now, sent without the lock.
Initial(s) ==
  /\ sock[s].pc = "initial"
  /\ sock' = [sock EXCEPT ![s] = IF s \in alive THEN [pc |-> "loop", seen |-> version] ELSE [pc |-> "leave", seen |-> 0]]
  /\ UNCHANGED <<conn, alive, wslock, version, cast, again>>

\* receive_text raises: the browser is gone, or the manager closed the socket.
Leave(s) ==
  /\ sock[s].pc = "loop" /\ s \notin alive /\ sock' = [sock EXCEPT ![s] = [pc |-> "leave", seen |-> 0]]
  /\ UNCHANGED <<conn, alive, wslock, version, cast, again>>

\* disconnect takes out whatever socket the user has.
Disconnect(s) ==
  /\ sock[s].pc = "leave" /\ wslock = NoCaster /\ SockGoto(s, "closed")
  /\ conn' = [conn EXCEPT ![Owner[s]] = NoSock]
  /\ UNCHANGED <<alive, wslock, version, cast, again>>

Vanish(s) ==
  /\ s \in alive /\ alive' = alive \ {s}
  /\ UNCHANGED <<conn, sock, wslock, version, cast, again>>
-----------------------------------------------------------------------------
Change ==
  /\ version < MaxVersion /\ version' = version + 1
  /\ UNCHANGED <<conn, sock, alive, wslock, cast, again>>

\* The state is read, enriched from the catalogue, then broadcast.
Snapshot(b) ==
  /\ cast[b].pc = "rest" /\ cast' = [cast EXCEPT ![b] = [Resting EXCEPT !.pc = "wait", !.data = version]]
  /\ UNCHANGED <<conn, sock, alive, wslock, version, again>>

\* Mutant: without the lock.
Broadcast_Unlocked(b) ==
  /\ cast[b].pc = "wait"
  /\ cast' = [cast EXCEPT ![b].pc = "send", ![b].left = {u \in Users : conn[u] # NoSock}]
  /\ UNCHANGED <<conn, sock, alive, wslock, version, again>>

Broadcast(b) ==
  /\ cast[b].pc = "wait" /\ wslock = NoCaster /\ wslock' = b
  /\ cast' = [cast EXCEPT ![b].pc = "send", ![b].left = {u \in Users : conn[u] # NoSock}]
  /\ UNCHANGED <<conn, sock, alive, version, again>>

\* Mutant: one failed send ends the broadcast for the rest.
SendText_Stops(b, u) ==
  LET s == conn[u] IN
  /\ cast[b].pc = "send" /\ u \in cast[b].left
  /\ cast' = [cast EXCEPT ![b].left = IF s \in alive THEN @ \ {u} ELSE {},
                          ![b].stale = IF s \in alive THEN @ ELSE cast[b].left]
  /\ sock' = IF s \in alive THEN [sock EXCEPT ![s].seen = cast[b].data] ELSE sock
  /\ UNCHANGED <<conn, alive, wslock, version, again>>

SendText(b, u) ==
  LET s == conn[u] IN
  /\ cast[b].pc = "send" /\ u \in cast[b].left
  /\ cast' = [cast EXCEPT ![b].left = @ \ {u}, ![b].stale = IF s \in alive THEN @ ELSE @ \cup {u}]
  /\ sock' = IF s \in alive THEN [sock EXCEPT ![s].seen = cast[b].data] ELSE sock
  /\ UNCHANGED <<conn, alive, wslock, version, again>>

Swept(b) ==
  /\ cast[b].pc = "send" /\ cast[b].left = {} /\ wslock' = NoCaster
  /\ conn' = [u \in Users |-> IF u \in cast[b].stale THEN NoSock ELSE conn[u]]
  /\ cast' = [cast EXCEPT ![b] = Resting]
  /\ UNCHANGED <<sock, alive, version, again>>

Handler(s) == Accept(s) \/ Connect(s) \/ Initial(s) \/ Leave(s) \/ Disconnect(s) \/ Vanish(s)
Caster(b) == Snapshot(b) \/ Broadcast(b) \/ (\E u \in Users : SendText(b, u)) \/ Swept(b)
SocketsNext == (\E s \in Socks : Handler(s)) \/ (\E b \in Casters : Caster(b)) \/ Change

-----------------------------------------------------------------------------
\* Who is listening is in the map, so that the next broadcast reaches him: a
\* page that is open and has had its first state is the one registered for
\* its user, unless the user opened it before the handler of an older one was
\* done: that one's clean-up takes the new page out (manager.py:30).
Registered ==
  \A s \in Socks : sock[s].pc = "loop" /\ s \in alive /\ Owner[s] \notin again => conn[Owner[s]] = s

\* Every page that stays open shows the queue as it is in the end, whatever
\* was sent out of order before and whoever else went away.
CaughtUp ==
  <>[](\A s \in Socks : s \in alive /\ sock[s].pc = "loop" /\ Owner[s] \notin again => sock[s].seen = version)
=============================================================================
