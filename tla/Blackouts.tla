------------------------------ MODULE Blackouts ------------------------------
(***************************************************************************)
(* The weekend blackouts: the job catalog_blackout reads the workbook's    *)
(* weekend sheets (cmsutils/blackout_scan.py) and hides their titles until *)
(* the weekend after is over (catalog/db/_blackouts.py), while the sheets  *)
(* are edited, days go by and the job dies.  A day is a number, 0 a Monday.*)
(***************************************************************************)
EXTENDS Integers, FiniteSets, FiniteSetsExt

CONSTANTS
  Airing,       \* titles
  Fridays,      \* days of the sheets
  BlackoutDays, \* _BLACKOUT_DAYS
  LastDay,      \* bound
  MaxScans      \* bound: jobs

ASSUME BlackoutsAssumption ==
  IsFiniteSet(Fridays) /\ Fridays \subseteq Nat /\ {BlackoutDays, LastDay, MaxScans} \subseteq Nat

VARIABLES
  day,
  listed,       \* the workbook: the titles of each sheet
  until,        \* table catalog_blackouts: expires_at of each title, 0: no row
  scan,         \* the running job: what it has found and not yet written
  scans,
  promised      \* the latest end of blackout that a job has written for each title

blackoutVars == <<day, listed, until, scan, scans, promised>>

NoScan == [on |-> FALSE, found |-> [t \in Airing |-> 0], todo |-> {}]

BlackoutsType ==
  /\ day \in 0 .. LastDay /\ listed \in [Fridays -> SUBSET Airing]
  /\ {until[t] : t \in Airing} \subseteq {0} \cup {f + BlackoutDays : f \in Fridays}
  /\ scan.on \in BOOLEAN /\ scan.todo \subseteq Airing /\ scans \in 0 .. MaxScans

BlackoutsInit ==
  /\ day = 0 /\ listed \in [Fridays -> SUBSET Airing]
  /\ until = [t \in Airing |-> 0] /\ promised = [t \in Airing |-> 0] /\ scan = NoScan /\ scans = 0
-----------------------------------------------------------------------------
\* _sheet_weekend_dates and the test on it: not over yet.
Upcoming == {f \in Fridays : f + 2 >= day}

\* scan_workbook_blackouts: the latest expiry of the sheets that have the title.
Found == [t \in Airing |-> Max({0} \cup {f + BlackoutDays : f \in {f \in Upcoming : t \in listed[f]}})]

\* Mutant: a job begins by emptying the table.
ScanBook_Afresh ==
  /\ ~scan.on /\ scans < MaxScans /\ scans' = scans + 1
  /\ scan' = [on |-> TRUE, found |-> Found, todo |-> {t \in Airing : Found[t] # 0}]
  /\ until' = [t \in Airing |-> 0]
  /\ UNCHANGED <<day, listed, promised>>

ScanBook ==
  /\ ~scan.on /\ scans < MaxScans /\ scans' = scans + 1
  /\ scan' = [on |-> TRUE, found |-> Found, todo |-> {t \in Airing : Found[t] # 0}]
  /\ UNCHANGED <<day, listed, until, promised>>

\* upsert_blackout: the later one is kept.
Upsert(t) == until' = [until EXCEPT ![t] = IF scan.found[t] > @ THEN scan.found[t] ELSE @]
Hide ==
  /\ scan.on /\ \E t \in scan.todo :
       /\ Upsert(t) /\ scan' = [scan EXCEPT !.todo = @ \ {t}]
       /\ promised' = [promised EXCEPT ![t] = IF scan.found[t] > @ THEN scan.found[t] ELSE @]
  /\ UNCHANGED <<day, listed, scans>>

\* prune_expired_blackouts; the job is done.
Pruned == {t \in Airing : until[t] <= day}
Prune ==
  /\ scan.on /\ scan.todo = {} /\ scan' = NoScan
  /\ until' = [t \in Airing |-> IF t \in Pruned THEN 0 ELSE until[t]]
  /\ UNCHANGED <<day, listed, scans, promised>>

\* A failed write ends the job, and so does a crash.
ScanDies == scan.on /\ scan' = NoScan /\ UNCHANGED <<day, listed, until, scans, promised>>
-----------------------------------------------------------------------------
Pencil ==
  /\ \E f \in Fridays, t \in Airing :
       listed' = [listed EXCEPT ![f] = IF t \in @ THEN @ \ {t} ELSE @ \cup {t}]
  /\ UNCHANGED <<day, until, scan, scans, promised>>

Midnight == day < LastDay /\ day' = day + 1 /\ UNCHANGED <<listed, until, scan, scans, promised>>

BlackoutsNext == ScanBook \/ Hide \/ Prune \/ ScanDies \/ Pencil \/ Midnight
BlackoutsSpec == BlackoutsInit /\ [][BlackoutsNext]_blackoutVars
-----------------------------------------------------------------------------
\* A title stays hidden until the weekend after is over, for the latest
\* weekend a job wrote it down for, and is shown again from then on: whatever
\* becomes of the sheets, the later scans, the prunes and a job cut short.
HeldOver == \A t \in Airing : until[t] > day <=> promised[t] > day

BlackoutsSafe == BlackoutsType /\ HeldOver
=============================================================================
