----------------------------- MODULE ApiKeyAuth -----------------------------
(***************************************************************************)
(* Authentication by API key: the key service with its Redis cache, the    *)
(* requests that authenticate with a key (UniversalAuth), and the owner's  *)
(* and the admin's requests that change or delete keys and accounts. Each  *)
(* request is a process of its own and makes its calls to Redis and to     *)
(* PostgreSQL one at a time, between those of the others.                  *)
(*                                                                         *)
(* Time passes in ticks. TTL is apiKeyCacheTTL. Nothing in the code limits *)
(* a request's duration, so MaxLatency is an assumption about the          *)
(* environment: no request takes longer.                                   *)
(*                                                                         *)
(* Definitions named X_Y are definition X with the slip Y, which some      *)
(* property must detect.                                                   *)
(***************************************************************************)
EXTENDS Naturals

CONSTANTS
  Keys,       \* API keys; a key and its hash are one value
  Accounts,
  KeyOwner,   \* the account of each key
  Procs,      \* requests in progress at one time
  TTL,        \* life of a cache entry, in ticks
  MaxLatency, \* the longest request, in ticks
  RedisFails  \* may a call to Redis fail?

ASSUME KeyAuthAssumption ==
  /\ KeyOwner \in [Keys -> Accounts]
  /\ TTL \in Nat \ {0}
  /\ MaxLatency \in Nat
  /\ RedisFails \in BOOLEAN

VARIABLES
  keyRow,      \* api_keys: "none" before Generate, then the row or "deleted"
  accountRow,  \* accounts: "active", "inactive" or "deleted"
  entry,       \* Redis: the cached Active flag, or "none"
  ttl,         \* Redis: the ticks an entry has left
  pc,          \* what each request does next
  key,         \* the key of each request
  val,         \* the row a request has read, or is going to write
  age,         \* the ticks since each request began
  since        \* history: per key and flag, the ticks since its row had that flag

database == <<keyRow, accountRow>>
redis == <<entry, ttl>>
request == <<pc, key, val, age>>
vars == <<database, redis, request, since>>

Done == {"idle", "accepted", "refused"}
Flags == {"active", "inactive"}
(* The bound on how long a key that is not active may still be accepted. *)
Staleness == TTL + 2 * MaxLatency

(* Type correctness of the state. *)
TypeOK ==
  /\ keyRow \in [Keys -> {"none", "active", "inactive", "deleted"}]
  /\ accountRow \in [Accounts -> {"active", "inactive", "deleted"}]
  /\ entry \in [Keys -> Flags \cup {"none"}]
  /\ ttl \in [Keys -> 0..TTL]
  /\ pc \in [Procs -> Done \cup {"lookup", "fill", "role", "account", "write", "invalidate"}]
  /\ key \in [Procs -> Keys]
  /\ val \in [Procs -> {"active", "inactive", "deleted"}]
  /\ age \in [Procs -> 0..MaxLatency]
  /\ since \in [Keys -> [Flags -> 0..Staleness]]

Init ==
  /\ keyRow = [k \in Keys |-> "none"]
  /\ accountRow = [a \in Accounts |-> "active"]
  /\ entry = [k \in Keys |-> "none"]
  /\ ttl = [k \in Keys |-> 0]
  /\ pc = [p \in Procs |-> "idle"]
  /\ key \in [Procs -> Keys]
  /\ val = [p \in Procs |-> "deleted"]
  /\ age = [p \in Procs |-> 0]
  /\ since = [k \in Keys |-> [f \in Flags |-> Staleness]]

Goto(p, step) == pc' = [pc EXCEPT ![p] = step]

SetEntry(k, active) ==
  /\ entry' = [entry EXCEPT ![k] = active]
  /\ ttl' = [ttl EXCEPT ![k] = TTL]

DeleteEntry(k) ==
  /\ entry' = [entry EXCEPT ![k] = "none"]
  /\ ttl' = [ttl EXCEPT ![k] = 0]

-----------------------------------------------------------------------------
(* A request with header X-API-Key *)

Begin(p, k, step) ==
  /\ pc[p] \in Done
  /\ keyRow[k] # "none"
  /\ Goto(p, step)
  /\ key' = [key EXCEPT ![p] = k]
  /\ age' = [age EXCEPT ![p] = 0]

CacheHit_Renews(p, k) ==
  /\ entry[k] # "none"
  /\ Begin(p, k, IF entry[k] = "active" THEN "role" ELSE "refused")
  /\ ttl' = [ttl EXCEPT ![k] = TTL]
  /\ UNCHANGED <<database, entry, val, since>>

(* ValidateAPIKey asks the cache; an entry decides alone. *)
CacheHit(p, k) ==
  /\ entry[k] # "none"
  /\ Begin(p, k, IF entry[k] = "active" THEN "role" ELSE "refused")
  /\ UNCHANGED <<database, redis, val, since>>

CacheMiss(p, k) ==
  /\ entry[k] = "none" \/ RedisFails
  /\ Begin(p, k, "lookup")
  /\ UNCHANGED <<database, redis, val, since>>

LookupKey_NotFoundIgnored(p) ==
  /\ pc[p] = "lookup"
  /\ val' = [val EXCEPT ![p] = keyRow[key[p]]]
  /\ Goto(p, "fill")
  /\ UNCHANGED <<database, redis, key, age, since>>

(* GetByKeyHash finds the row. *)
LookupKey(p) ==
  /\ pc[p] = "lookup"
  /\ keyRow[key[p]] \in {"active", "inactive"}
  /\ val' = [val EXCEPT ![p] = keyRow[key[p]]]
  /\ Goto(p, "fill")
  /\ UNCHANGED <<database, redis, key, age, since>>

(* GetByKeyHash finds no row, or fails; nothing is cached. *)
LookupFails(p) ==
  /\ pc[p] = "lookup"
  /\ Goto(p, "refused")
  /\ UNCHANGED <<database, redis, key, val, age, since>>

AfterFill(p) == Goto(p, IF val[p] = "active" THEN "role" ELSE "refused")

(* The row's flag goes into the cache, also when it is inactive. *)
FillCache(p) ==
  /\ pc[p] = "fill"
  /\ SetEntry(key[p], val[p])
  /\ AfterFill(p)
  /\ UNCHANGED <<database, key, val, age, since>>

FillFails(p) ==
  /\ pc[p] = "fill"
  /\ RedisFails
  /\ AfterFill(p)
  /\ UNCHANGED <<database, redis, key, val, age, since>>

(* APIKeyValidatorFunc reads the account for its role, then UniversalAuth   *)
(* reads it again; both refuse a missing, unreadable or inactive account.   *)
ReadAccount(p) ==
  /\ pc[p] \in {"role", "account"}
  /\ accountRow[KeyOwner[key[p]]] = "active"
  /\ Goto(p, IF pc[p] = "role" THEN "account" ELSE "accepted")
  /\ UNCHANGED <<database, redis, key, val, age, since>>

AccountRefused(p) ==
  /\ pc[p] \in {"role", "account"}
  /\ Goto(p, "refused")
  /\ UNCHANGED <<database, redis, key, val, age, since>>

-----------------------------------------------------------------------------
(* A request that changes a key *)

(* The clock of a row's new flag. *)
Restart(k, v) == since' = IF v \in Flags THEN [since EXCEPT ![k][v] = 0] ELSE since

(* Generate inserts a fresh, active key of an existing account. *)
Generate(k) ==
  /\ keyRow[k] = "none"
  /\ accountRow[KeyOwner[k]] # "deleted"
  /\ keyRow' = [keyRow EXCEPT ![k] = "active"]
  /\ Restart(k, "active")
  /\ UNCHANGED <<accountRow, redis, request>>

(* UpdateActive or Delete has read the key, after its handler's check that  *)
(* it belongs to the account, which never changes.                          *)
BeginWrite(p, k, v) ==
  /\ keyRow[k] # "deleted"
  /\ Begin(p, k, "write")
  /\ val' = [val EXCEPT ![p] = v]
  /\ UNCHANGED <<database, redis, since>>

WriteKey_Upsert(p) ==
  /\ pc[p] = "write"
  /\ keyRow' = [keyRow EXCEPT ![key[p]] = val[p]]
  /\ Restart(key[p], val[p])
  /\ Goto(p, "invalidate")
  /\ UNCHANGED <<accountRow, redis, key, val, age>>

WriteKey(p) ==
  /\ pc[p] = "write"
  /\ keyRow[key[p]] # "deleted"
  /\ keyRow' = [keyRow EXCEPT ![key[p]] = val[p]]
  /\ Restart(key[p], val[p])
  /\ Goto(p, "invalidate")
  /\ UNCHANGED <<accountRow, redis, key, val, age>>

(* ErrNoRowsAffected, or another error of the database: the cache is left   *)
(* alone.                                                                   *)
WriteFails(p) ==
  /\ pc[p] = "write"
  /\ Goto(p, "idle")
  /\ UNCHANGED <<database, redis, key, val, age, since>>

Invalidate(p) ==
  /\ pc[p] = "invalidate"
  /\ DeleteEntry(key[p])
  /\ Goto(p, "idle")
  /\ UNCHANGED <<database, key, val, age, since>>

(* The error is logged and the request succeeds. *)
InvalidateFails(p) ==
  /\ pc[p] = "invalidate"
  /\ RedisFails
  /\ Goto(p, "idle")
  /\ UNCHANGED <<database, redis, key, val, age, since>>

-----------------------------------------------------------------------------
(* Accounts: one statement each *)

SetAccountActive(a, active) ==
  /\ accountRow[a] # "deleted"
  /\ accountRow' = [accountRow EXCEPT ![a] = active]
  /\ UNCHANGED <<keyRow, redis, request, since>>

(* The account's keys go with it (ON DELETE CASCADE), their entries stay. *)
DeleteAccount(a) ==
  /\ accountRow[a] # "deleted"
  /\ accountRow' = [accountRow EXCEPT ![a] = "deleted"]
  /\ keyRow' = [k \in Keys |-> IF KeyOwner[k] = a /\ keyRow[k] # "none"
                              THEN "deleted" ELSE keyRow[k]]
  /\ UNCHANGED <<redis, request, since>>

-----------------------------------------------------------------------------
(* Time, and Redis *)

TickRedis_NoExpiry == UNCHANGED redis

TickRedis ==
  /\ ttl' = [k \in Keys |-> IF ttl[k] = 0 THEN 0 ELSE ttl[k] - 1]
  /\ entry' = [k \in Keys |-> IF ttl[k] <= 1 THEN "none" ELSE entry[k]]

TickSince(k, f) ==
  IF keyRow[k] = f THEN 0 ELSE IF since[k][f] = Staleness THEN Staleness ELSE since[k][f] + 1

Tick ==
  /\ \A p \in Procs : pc[p] \notin Done => age[p] < MaxLatency
  /\ TickRedis
  /\ age' = [p \in Procs |-> IF pc[p] \in Done THEN age[p] ELSE age[p] + 1]
  /\ since' = [k \in Keys |-> [f \in Flags |-> TickSince(k, f)]]
  /\ UNCHANGED <<database, pc, key, val>>

(* Redis loses an entry early, as when it restarts. *)
Evict(k) ==
  /\ entry[k] # "none"
  /\ DeleteEntry(k)
  /\ UNCHANGED <<database, request, since>>

-----------------------------------------------------------------------------
Step(p) ==
  \/ LookupKey(p) \/ LookupFails(p)
  \/ FillCache(p) \/ FillFails(p)
  \/ ReadAccount(p) \/ AccountRefused(p)
  \/ WriteKey(p) \/ WriteFails(p)
  \/ Invalidate(p) \/ InvalidateFails(p)

Next ==
  \/ \E p \in Procs, k \in Keys : CacheHit(p, k) \/ CacheMiss(p, k)
  \/ \E p \in Procs, k \in Keys, v \in {"active", "inactive", "deleted"} : BeginWrite(p, k, v)
  \/ \E p \in Procs : Step(p)
  \/ \E k \in Keys : Generate(k) \/ Evict(k)
  \/ \E a \in Accounts, v \in {"active", "inactive"} : SetAccountActive(a, v)
  \/ \E a \in Accounts : DeleteAccount(a)
  \/ Tick

Spec == Init /\ [][Next]_vars

(* Requests go on until they are answered, and time passes. *)
FairSpec == Spec /\ WF_vars(Tick) /\ \A p \in Procs : WF_vars(Step(p))

-----------------------------------------------------------------------------
Accepts(p) == pc[p] = "account" /\ pc'[p] = "accepted"

(* A key that was deactivated or deleted, directly or with its account,     *)
(* authenticates nobody any more once the life of a cache entry and the     *)
(* duration of two requests have passed: the one that filled the cache with *)
(* what it had read before, and the one that hit that entry. Failed and     *)
(* overtaken invalidations do not change that.                              *)
RevocationBounded ==
  [][\A p \in Procs : Accepts(p) => since[key[p]]["active"] < Staleness]_vars

RefusesFlag(p, k) ==
  \/ CacheHit(p, k) /\ pc'[p] = "refused"
  \/ key[p] = k /\ pc[p] = "fill" /\ pc'[p] = "refused"

(* A key that was activated is refused as inactive for less time than the   *)
(* life of a cache entry and the duration of the request that filled the    *)
(* cache with what it had read before, also when the invalidation failed.   *)
HealingBounded ==
  [][\A p \in Procs, k \in Keys :
       RefusesFlag(p, k) => since[k]["inactive"] < TTL + MaxLatency]_vars

(* The cache keeps the promise of Leases: its entries are copies of flags.  *)
Cache == INSTANCE Leases WITH
  Facts <- Keys \X Flags,
  Life <- TTL, Delay <- MaxLatency, Horizon <- Staleness,
  holds <- {f \in Keys \X Flags : keyRow[f[1]] = f[2]},
  since <- [f \in Keys \X Flags |-> since[f[1]][f[2]]],
  left <- [f \in Keys \X Flags |-> IF entry[f[1]] = f[2] THEN ttl[f[1]] ELSE 0]

ImplementsLeases == Cache!Spec

(* No request can use the key any more, and none can make the cache say so. *)
Revoked(k) ==
  /\ keyRow[k] = "deleted"
  /\ entry[k] # "active"
  /\ \A p \in Procs : key[p] = k =>
       pc[p] \notin {"role", "account"} /\ ~(pc[p] = "fill" /\ val[p] = "active")

(* Deletion is final: whatever updates of the same key are still under way, *)
(* a deleted key that no request or cache entry still takes for active      *)
(* never gets active again.                                                 *)
DeletionIsFinal == [][\A k \in Keys : Revoked(k) => Revoked(k)']_vars

(* A reactivated key is not refused for good: the cached "inactive" (stored *)
(* "to prevent repeated DB lookups") goes away even when its invalidation   *)
(* failed or an older read overtook it.                                     *)
ReactivationHeals ==
  \A k \in Keys : <>[](keyRow[k] = "active") => <>[](entry[k] # "inactive")

(* Between the requests the cache agrees with the table ("cache should be   *)
(* empty after update"): an entry that is left behind has the row's flag.   *)
CoherentWhenQuiet ==
  (\A p \in Procs : pc[p] \in Done) =>
    \A k \in Keys : entry[k] = "none" \/ entry[k] = keyRow[k] \/ keyRow[k] = "deleted"
=============================================================================
