------------------------------ MODULE Devices ------------------------------
(***************************************************************************)
(* Linking a television: a signed-in user asks for a short code            *)
(* (routes/devices.py), the device exchanges it for a key                  *)
(* (routes/public_api.py), and a ban takes the keys away, at once when it  *)
(* is made here (admin_moderation.py), by the reconcile job when it is     *)
(* made elsewhere or under another spelling of the name (jobs/tasks.py).   *)
(***************************************************************************)
EXTENDS Integers, FiniteSets

CONSTANTS
  Viewers,      \* users, each with two spellings
  Codes,        \* the codes there are
  Televisions,  \* requests that exchange a code
  MaxDevices,   \* _MAX_DEVICES_PER_USER
  MaxKeys, MaxCrashes      \* bounds: keys ever made, crashes

ASSUME DevicesAssumption == MaxDevices \in Nat /\ MaxKeys \in Nat /\ MaxCrashes \in Nat

VARIABLES
  codes,        \* device_link_codes: [code, user, stale]
  keys,         \* device_api_keys: [id, user, from]
  asking,       \* each user's request for a code
  exchange,     \* each television's request
  bans,         \* the moderator's list: users, and whether spelt as here
  ban,          \* the ban being made here
  reconcile,    \* the reconcile job
  grants,       \* grants made of codes, in order: one per pad issued
  crashes,
  shared        \* pads that two exchanges read, or that a crash cut short

deviceVars == <<codes, keys, asking, exchange, bans, ban, reconcile, grants, crashes, shared>>

NoAsk == [pc |-> "idle", code |-> 0]
NoExchange == [pc |-> "idle", pad |-> 0]
NoBan == [pc |-> "idle"]
NoJob == [pc |-> "idle", users |-> {}]

DevicesType ==
  /\ \A c, d \in codes : c.code = d.code => c = d
  /\ \A k \in keys : k.user \in Viewers /\ k.id <= MaxKeys
  /\ \A k, l \in keys : k.id = l.id => k = l
  /\ asking \in [Viewers -> [pc : {"idle", "purge", "pick", "store"}, code : Codes \cup {0}]]
  /\ \A t \in Televisions : exchange[t].pc \in {"idle", "valid", "key", "drop"}
  /\ reconcile.pc \in {"idle", "list", "revoke"} /\ reconcile.users \subseteq Viewers

DevicesInit ==
  /\ codes = {} /\ keys = {} /\ bans = {} /\ grants = 0 /\ crashes = 0 /\ shared = {}
  /\ asking = [u \in Viewers |-> NoAsk] /\ exchange = [t \in Televisions |-> NoExchange]
  /\ ban = NoBan /\ reconcile = NoJob

KeysOf(u) == {k \in keys : k.user = u}
AskGoto(u, pc) == asking' = [asking EXCEPT ![u].pc = pc]
-----------------------------------------------------------------------------
\* create_link_code: under the limit of devices
AskCode(u) ==
  /\ asking[u].pc = "idle" /\ grants < MaxKeys /\ Cardinality(KeysOf(u)) < MaxDevices /\ AskGoto(u, "purge")
  /\ UNCHANGED <<codes, keys, exchange, bans, ban, reconcile, grants, crashes, shared>>

Purge(u) ==
  /\ asking[u].pc = "purge" /\ AskGoto(u, "pick") /\ codes' = {c \in codes : ~c.stale}
  /\ UNCHANGED <<keys, exchange, bans, ban, reconcile, grants, crashes, shared>>

\* A code that is not allocated; after eight that are, the request gives up.
PickCode(u) ==
  /\ asking[u].pc = "pick"
  /\ \E c \in Codes :
       asking' = [asking EXCEPT ![u] = IF \E d \in codes : d.code = c THEN NoAsk ELSE [pc |-> "store", code |-> c]]
  /\ UNCHANGED <<codes, keys, exchange, bans, ban, reconcile, grants, crashes, shared>>

\* Inserted, unless another request took the code since.
StoreCode(u) ==
  LET c == asking[u].code IN
  /\ asking[u].pc = "store" /\ grants < MaxKeys /\ asking' = [asking EXCEPT ![u] = NoAsk]
  /\ IF \E d \in codes : d.code = c THEN codes' = codes /\ grants' = grants
     ELSE codes' = codes \cup {[code |-> c, user |-> u, stale |-> FALSE, pad |-> grants + 1]} /\ grants' = grants + 1
  /\ UNCHANGED <<keys, exchange, bans, ban, reconcile, crashes, shared>>

\* Ten minutes pass.
Age ==
  /\ \E c \in codes : ~c.stale /\ codes' = (codes \ {c}) \cup {[c EXCEPT !.stale = TRUE]}
  /\ UNCHANGED <<keys, asking, exchange, bans, ban, reconcile, grants, crashes, shared>>
-----------------------------------------------------------------------------
\* exchange_link_code: the stale are purged, then the pad is read.
Exchange(t) ==
  /\ exchange[t].pc = "idle" /\ exchange' = [exchange EXCEPT ![t].pc = "valid"] /\ codes' = {c \in codes : ~c.stale}
  /\ UNCHANGED <<keys, asking, bans, ban, reconcile, grants, crashes, shared>>

Valid(t) ==
  /\ exchange[t].pc = "valid"
  /\ \/ \E c \in codes :
          /\ ~c.stale /\ exchange' = [exchange EXCEPT ![t] = [pc |-> "key", pad |-> c]]
          /\ shared' = IF \E s \in Televisions : exchange[s].pc \in {"key", "drop"} /\ exchange[s].pad = c
                       THEN shared \cup {c.pad} ELSE shared
     \/ exchange' = [exchange EXCEPT ![t] = NoExchange] /\ shared' = shared
  /\ UNCHANGED <<codes, keys, asking, bans, ban, reconcile, grants, crashes>>

\* create_device_key
MakeKey(t) ==
  LET c == exchange[t].pad free == {i \in 1 .. MaxKeys : \A k \in keys : k.id # i} IN
  /\ exchange[t].pc = "key" /\ free # {}
  /\ keys' = keys \cup {[id |-> CHOOSE i \in free : \A j \in free : i <= j, user |-> c.user, from |-> c.pad]}
  /\ exchange' = [exchange EXCEPT ![t].pc = "drop"]
  /\ UNCHANGED <<codes, asking, bans, ban, reconcile, grants, crashes, shared>>

\* Mutant: only a stale pad is consumed.
DropCode_Stale(t) ==
  /\ exchange[t].pc = "drop" /\ exchange' = [exchange EXCEPT ![t] = NoExchange]
  /\ codes' = {c \in codes : c.code # exchange[t].pad.code \/ ~c.stale}
  /\ UNCHANGED <<keys, asking, bans, ban, reconcile, grants, crashes, shared>>

\* delete_link_code: whosever that code is by now
DropCode(t) ==
  /\ exchange[t].pc = "drop" /\ exchange' = [exchange EXCEPT ![t] = NoExchange]
  /\ codes' = {c \in codes : c.code # exchange[t].pad.code}
  /\ UNCHANGED <<keys, asking, bans, ban, reconcile, grants, crashes, shared>>

Revoke == \E k \in keys :
  /\ keys' = keys \ {k} /\ UNCHANGED <<codes, asking, exchange, bans, ban, reconcile, grants, crashes, shared>>
-----------------------------------------------------------------------------
\* A ban made elsewhere, or here: then the keys go in a later step, which may
\* fail.  Here the name is spelt as the moderator typed it.
Banned(u) == \E b \in bans : b.user = u
BanElsewhere(u) ==
  /\ ~Banned(u) /\ \E exact \in BOOLEAN : bans' = bans \cup {[user |-> u, exact |-> exact]}
  /\ UNCHANGED <<codes, keys, asking, exchange, ban, reconcile, grants, crashes, shared>>

BanHere(u) ==
  /\ ban = NoBan /\ ~Banned(u)
  /\ \E exact \in BOOLEAN : LET b == [user |-> u, exact |-> exact] IN
       bans' = bans \cup {b} /\ ban' = [pc |-> "revoke", user |-> u, exact |-> exact]
  /\ UNCHANGED <<codes, keys, asking, exchange, reconcile, grants, crashes, shared>>

BanRevokes ==
  /\ ban # NoBan /\ ban' = NoBan
  /\ keys' \in {keys, IF ban.exact THEN keys \ KeysOf(ban.user) ELSE keys}
  /\ UNCHANGED <<codes, asking, exchange, bans, reconcile, grants, crashes, shared>>

Pardon(u) ==
  /\ Banned(u) /\ bans' = {b \in bans : b.user # u}
  /\ UNCHANGED <<codes, keys, asking, exchange, ban, reconcile, grants, crashes, shared>>
-----------------------------------------------------------------------------
\* device_key_ban_reconcile_job: who holds keys, who of them is on the list,
\* whatever the spelling, and each of those loses his.
Holders ==
  /\ reconcile.pc = "idle" /\ keys # {} /\ reconcile' = [pc |-> "list", users |-> {k.user : k \in keys}]
  /\ UNCHANGED <<codes, keys, asking, exchange, bans, ban, grants, crashes, shared>>

\* Mutant: names are compared as they are spelt.
BanList_Exact ==
  /\ reconcile.pc = "list"
  /\ reconcile' = [pc |-> "revoke", users |-> {u \in reconcile.users : \E b \in bans : b.user = u /\ b.exact}]
  /\ UNCHANGED <<codes, keys, asking, exchange, bans, ban, grants, crashes, shared>>

BanList ==
  /\ reconcile.pc = "list"
  /\ reconcile' = [pc |-> "revoke", users |-> {u \in reconcile.users : Banned(u)}]
  /\ UNCHANGED <<codes, keys, asking, exchange, bans, ban, grants, crashes, shared>>

\* The list cannot be had: the run fails, the next one asks again.
NoList ==
  /\ reconcile.pc = "list" /\ reconcile' = NoJob
  /\ UNCHANGED <<codes, keys, asking, exchange, bans, ban, grants, crashes, shared>>

RevokeAll ==
  /\ reconcile.pc = "revoke"
  /\ IF reconcile.users = {} THEN reconcile' = NoJob /\ keys' = keys
     ELSE \E u \in reconcile.users : keys' = keys \ KeysOf(u) /\ reconcile' = [reconcile EXCEPT !.users = @ \ {u}]
  /\ UNCHANGED <<codes, asking, exchange, bans, ban, grants, crashes, shared>>

\* The process dies: requests are gone, tables stay.
DevicesCrash ==
  /\ crashes < MaxCrashes /\ crashes' = crashes + 1
  /\ asking' = [u \in Viewers |-> NoAsk] /\ exchange' = [t \in Televisions |-> NoExchange]
  /\ ban' = NoBan /\ reconcile' = NoJob
  /\ shared' = shared \cup {exchange[t].pad.pad : t \in {s \in Televisions : exchange[s].pc \in {"key", "drop"}}}
  /\ UNCHANGED <<codes, keys, bans, grants>>

DevicesNext ==
  \/ \E u \in Viewers : AskCode(u) \/ Purge(u) \/ PickCode(u) \/ StoreCode(u) \/ BanElsewhere(u) \/ BanHere(u) \/ Pardon(u)
  \/ \E t \in Televisions : Exchange(t) \/ Valid(t) \/ MakeKey(t) \/ DropCode(t)
  \/ Age \/ Revoke \/ BanRevokes \/ Holders \/ BanList \/ NoList \/ RevokeAll \/ DevicesCrash
DevicesSpec == DevicesInit /\ [][DevicesNext]_deviceVars
-----------------------------------------------------------------------------
\* A pad yields one key, unless two exchanges of it overlap or a crash falls
\* between making the key and consuming the pad.
OneKeyPerPad == \A k, l \in keys : k.from = l.from /\ k.from \notin shared => k = l

\* Who stays banned is left without keys again and again, however the ban was
\* made and whatever he links meanwhile.
CutOff == \A u \in Viewers : (<>[]Banned(u)) => []<>(KeysOf(u) = {})

DevicesSafe == DevicesType /\ OneKeyPerPad
=============================================================================
