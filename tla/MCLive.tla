------------------------------- MODULE MCLive -------------------------------
(***************************************************************************)
(* Five components that share nothing, checked side by side: a behaviour   *)
(* is one of theirs, chosen at the start, the others stand still.          *)
(***************************************************************************)
EXTENDS Sockets, RaceView, Devices, Limits, EnrichmentClaims

CONSTANT Modes        \* which of them

VARIABLE mode

liveVars == <<mode, socketVars, raceVars, deviceVars, limitVars, enrichVars>>

SockOwner == [s \in 1 .. 3 |-> IF s = 3 THEN "v" ELSE "u"]
TwoTiers == {[most |-> 2, window |-> 2], [most |-> 3, window |-> 4]}
OneUnknown == 1 :> "tt1" @@ 2 :> "none"

LiveInit ==
  /\ mode \in Modes
  /\ SocketsInit /\ RaceInit /\ DevicesInit /\ LimitsInit /\ EnrichmentInit

\* A step of one of them.
InSockets(A) == mode = "sockets" /\ A /\ UNCHANGED <<mode, raceVars, deviceVars, limitVars, enrichVars>>
InRace(A) == mode = "race" /\ A /\ UNCHANGED <<mode, socketVars, deviceVars, limitVars, enrichVars>>
InDevices(A) == mode = "devices" /\ A /\ UNCHANGED <<mode, socketVars, raceVars, limitVars, enrichVars>>
InLimits(A) == mode = "limits" /\ A /\ UNCHANGED <<mode, socketVars, raceVars, deviceVars, enrichVars>>
InEnrichment(A) == mode = "enrichment" /\ A /\ UNCHANGED <<mode, socketVars, raceVars, deviceVars, limitVars>>

LiveNext ==
  InSockets(SocketsNext) \/ InRace(RaceNext) \/ InDevices(DevicesNext) \/ InLimits(LimitsNext)
  \/ InEnrichment(EnrichmentNext)

-----------------------------------------------------------------------------
\* The lock of the sockets is handed on in turn, so the poller does not wait for
\* it for ever, and the list of bans can be had again and again; pollers poll, a
\* broadcast goes on, the reconcile job runs, an enrichment run goes on, and
\* admins start the next.  The modes exclude each other, so an obligation of one
\* can stand in a disjunction with another's.
LiveFairness ==
  /\ SF_liveVars(InSockets(Broadcast(Poller)) \/ InDevices(BanList))
  /\ WF_liveVars(InSockets(Snapshot(Poller)) \/ InDevices(Holders \/ RevokeAll) \/ InRace(Clear) \/ InEnrichment(WorkStep))
  /\ \A b \in Casters :
       WF_liveVars(\/ InSockets((\E u \in Users : SendText(b, u)) \/ Swept(b))
                   \/ InRace(Sent \/ \E p \in Spectators : Deliver(p)) \/ InEnrichment(StartAll))

LiveSpec == LiveInit /\ [][LiveNext]_liveVars /\ LiveFairness
-----------------------------------------------------------------------------
\* A page that listens is reached, and knows what it shows.
PagesSafe == SocketsType /\ RaceType /\ Registered /\ TimelineKnown

\* And shows the queue and the race as they are in the end.
PagesSettle == CaughtUp /\ Cleared
=============================================================================
