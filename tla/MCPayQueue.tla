------------------------------ MODULE MCPayQueue ------------------------------
EXTENDS PayQueueClaims, TLC

CONSTANTS a, b, c, d,         \* calls
          ann, bob,           \* users
          m1, m2, m3, m4      \* media

OwnerDef == [p \in Procs |-> IF p = b THEN bob ELSE ann]
MediaDef == [p \in Procs |-> IF p = a THEN m3 ELSE m4]
TwoItems == <<m1, m2>>
OneItem == <<m1>>

\* The handlers each run exercises.
QueueQueue == a :> "queue" @@ b :> "queue"
QueueOverride == a :> "queue" @@ b :> "override"
QueueNext == a :> "queue" @@ b :> "playnext"
QueuePresenceRemoveClear ==
  a :> "queue" @@ b :> "presence" @@ c :> "remove" @@ d :> "clear"
=============================================================================
