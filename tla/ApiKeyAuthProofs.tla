-------------------------- MODULE ApiKeyAuthProofs --------------------------
(***************************************************************************)
(* Proofs about ApiKeyAuth. The bounds on stale answers rest on an         *)
(* inductive invariant that follows one reading of a row's flag from the   *)
(* request that made it, into the cache entry that request wrote, and on   *)
(* to the request that hit that entry.                                     *)
(***************************************************************************)
EXTENDS ApiKeyAuth, TLAPS

(* The clock of the flag a row has stands at zero.                          *)
ClockInv == \A k \in Keys : keyRow[k] \in Flags => since[k][keyRow[k]] = 0

(* A request only caches a row it found.                                    *)
FoundInv == \A p \in Procs : pc[p] = "fill" => val[p] # "deleted"

(* What a request read and has not cached yet is as old as the request.     *)
FillInv == \A p \in Procs :
  pc[p] = "fill" => since[key[p]][val[p]] <= age[p]

(* The life an entry has left shrinks as the clock of its flag runs.        *)
EntryInv == \A k \in Keys :
  entry[k] # "none" => ttl[k] > 0 /\ since[k][entry[k]] + ttl[k] <= TTL + MaxLatency

(* A request the cache let through began before its entry ran out.          *)
HitInv == \A p \in Procs :
  pc[p] \in {"role", "account"} => since[key[p]]["active"] < TTL + MaxLatency + age[p]

IInv == TypeOK /\ FoundInv /\ ClockInv /\ FillInv /\ EntryInv /\ HitInv

(* A clock that runs down, and one that stops at its end, stay in range.    *)
LEMMA ClockRanges ==
  ASSUME NEW n \in Nat, NEW x \in 0..n
  PROVE  /\ (IF x = 0 THEN 0 ELSE x - 1) \in 0..n
         /\ (IF x = n THEN n ELSE x + 1) \in 0..n
         /\ 0 \in 0..n
  OBVIOUS

USE DEF vars, database, redis, request, Goto, SetEntry, DeleteEntry, Done, Flags

-----------------------------------------------------------------------------
(* What a new flag does to the clocks: one goes back to zero, the others    *)
(* stay.                                                                    *)
LEMMA RestartOne ==
  ASSUME TypeOK, NEW k \in Keys, NEW v, Restart(k, v)
  PROVE  /\ since' \in [Keys -> [Flags -> 0..Staleness]]
         /\ \A j \in Keys, f \in Flags :
              since'[j][f] = IF j = k /\ f = v THEN 0 ELSE since[j][f]
<1>1. Staleness \in Nat
  BY KeyAuthAssumption DEF Staleness
<1>2. CASE v \in Flags
  <2>1. since' = [since EXCEPT ![k] = [since[k] EXCEPT ![v] = 0]]
    BY <1>2 DEF Restart
  <2>2. since[k] \in [Flags -> 0..Staleness]
    BY DEF TypeOK
  <2> DEFINE new == [since[k] EXCEPT ![v] = 0]
  <2>3. /\ new \in [Flags -> 0..Staleness]
        /\ \A f \in Flags : new[f] = IF f = v THEN 0 ELSE since[k][f]
    BY <1>1, <1>2, <2>2
  <2> HIDE DEF new
  <2>4. since' = [since EXCEPT ![k] = new]
    BY <2>1 DEF new
  <2> QED
    BY <2>3, <2>4 DEF TypeOK
<1>3. CASE v \notin Flags
  BY <1>3 DEF Restart, TypeOK
<1> QED
  BY <1>2, <1>3

(* Every step keeps the types: the part of IInv the other parts need to     *)
(* read an updated function.                                                *)
LEMMA TypeStep == TypeOK /\ FoundInv /\ [Next]_vars => TypeOK'
<1> SUFFICES ASSUME TypeOK, FoundInv, [Next]_vars PROVE TypeOK'
  OBVIOUS
<1> USE KeyAuthAssumption DEF TypeOK
<1>1. ASSUME NEW p \in Procs, NEW k \in Keys, CacheHit(p, k) PROVE TypeOK'
  BY <1>1 DEF CacheHit, Begin
<1>2. ASSUME NEW p \in Procs, NEW k \in Keys, CacheMiss(p, k) PROVE TypeOK'
  BY <1>2 DEF CacheMiss, Begin
<1>3. ASSUME NEW p \in Procs, NEW k \in Keys, NEW v \in {"active", "inactive", "deleted"},
             BeginWrite(p, k, v)
      PROVE  TypeOK'
  BY <1>3 DEF BeginWrite, Begin
<1>4. ASSUME NEW p \in Procs, Step(p) PROVE TypeOK'
  <2>1. CASE LookupKey(p)  BY <2>1 DEF LookupKey
  <2>2. CASE LookupFails(p)  BY <2>2 DEF LookupFails
  <2>3. CASE FillCache(p)
    <3>1. val[p] # "deleted"
      BY <2>3 DEF FillCache, FoundInv
    <3> QED  BY <2>3, <3>1 DEF FillCache, AfterFill
  <2>4. CASE FillFails(p)  BY <2>4 DEF FillFails, AfterFill
  <2>5. CASE ReadAccount(p)  BY <2>5 DEF ReadAccount
  <2>6. CASE AccountRefused(p)  BY <2>6 DEF AccountRefused
  <2>7. CASE WriteKey(p)
    <3>1. since' \in [Keys -> [Flags -> 0..Staleness]]
      BY <2>7, RestartOne DEF WriteKey
    <3> QED  BY <2>7, <3>1 DEF WriteKey
  <2>8. CASE WriteFails(p)  BY <2>8 DEF WriteFails
  <2>9. CASE Invalidate(p)  BY <2>9 DEF Invalidate
  <2>10. CASE InvalidateFails(p)  BY <2>10 DEF InvalidateFails
  <2> QED
    BY <1>4, <2>1, <2>2, <2>3, <2>4, <2>5, <2>6, <2>7, <2>8, <2>9, <2>10 DEF Step
<1>5. ASSUME NEW k \in Keys, Generate(k) \/ Evict(k) PROVE TypeOK'
  <2>1. CASE Generate(k)
    <3>1. since' \in [Keys -> [Flags -> 0..Staleness]]
      BY <2>1, RestartOne DEF Generate
    <3> QED  BY <2>1, <3>1 DEF Generate
  <2>2. CASE Evict(k)  BY <2>2 DEF Evict
  <2> QED
    BY <1>5, <2>1, <2>2
<1>6. ASSUME NEW a \in Accounts, NEW v \in {"active", "inactive"}, SetAccountActive(a, v)
      PROVE  TypeOK'
  BY <1>6 DEF SetAccountActive
<1>7. ASSUME NEW a \in Accounts, DeleteAccount(a) PROVE TypeOK'
  BY <1>7 DEF DeleteAccount
<1>8. CASE Tick
  <2> USE <1>8
  <2>1. Staleness \in Nat
    BY DEF Staleness
  <2>2. ttl' \in [Keys -> 0..TTL]
    <3>1. ASSUME NEW k \in Keys
          PROVE  (IF ttl[k] = 0 THEN 0 ELSE ttl[k] - 1) \in 0..TTL
      <4>1. ttl[k] \in 0..TTL
        OBVIOUS
      <4> QED
        BY <4>1, ClockRanges, KeyAuthAssumption
    <3> QED
      BY <3>1 DEF Tick, TickRedis
  <2>3. entry' \in [Keys -> {"none", "active", "inactive"}]
    BY DEF Tick, TickRedis
  <2>4. age' \in [Procs -> 0..MaxLatency]
    <3>1. ASSUME NEW p \in Procs
          PROVE  (IF pc[p] \in Done THEN age[p] ELSE age[p] + 1) \in 0..MaxLatency
      <4>1. age[p] \in 0..MaxLatency
        OBVIOUS
      <4>2. pc[p] \notin Done => age[p] < MaxLatency
        BY DEF Tick
      <4> QED
        BY <4>1, <4>2, KeyAuthAssumption
    <3> QED
      BY <3>1 DEF Tick
  <2>5. since' \in [Keys -> [Flags -> 0..Staleness]]
    <3>1. ASSUME NEW k \in Keys, NEW f \in Flags PROVE TickSince(k, f) \in 0..Staleness
      <4>1. since[k][f] \in 0..Staleness
        OBVIOUS
      <4>2. /\ (IF since[k][f] = Staleness THEN Staleness ELSE since[k][f] + 1) \in 0..Staleness
            /\ 0 \in 0..Staleness
        BY <2>1, <4>1, ClockRanges
      <4> QED
        BY <4>2, Zenon DEF TickSince
    <3> QED
      BY <3>1 DEF Tick
  <2> QED
    BY <2>2, <2>3, <2>4, <2>5 DEF Tick
<1>9. CASE UNCHANGED vars
  BY <1>9
<1> QED
  BY <1>1, <1>2, <1>3, <1>4, <1>5, <1>6, <1>7, <1>8, <1>9 DEF Next

(* Every step keeps the rest of IInv. *)
LEMMA FoundStep == TypeOK /\ FoundInv /\ [Next]_vars => FoundInv'
<1> SUFFICES ASSUME TypeOK, FoundInv, [Next]_vars PROVE FoundInv'
  OBVIOUS
<1> USE DEF TypeOK, FoundInv
<1>1. ASSUME NEW p \in Procs, NEW k \in Keys, CacheHit(p, k) \/ CacheMiss(p, k)
      PROVE  FoundInv'
  BY <1>1 DEF CacheHit, CacheMiss, Begin
<1>2. ASSUME NEW p \in Procs, NEW k \in Keys, NEW v \in {"active", "inactive", "deleted"},
             BeginWrite(p, k, v)
      PROVE  FoundInv'
  BY <1>2 DEF BeginWrite, Begin
<1>3. ASSUME NEW p \in Procs, Step(p) PROVE FoundInv'
  BY <1>3 DEF Step, LookupKey, LookupFails, FillCache, FillFails, AfterFill, ReadAccount,
       AccountRefused, WriteKey, WriteFails, Invalidate, InvalidateFails
<1>4. CASE UNCHANGED <<pc, val>>
  BY <1>4
<1> QED
  BY <1>1, <1>2, <1>3, <1>4 DEF Next, Generate, Evict, SetAccountActive, DeleteAccount, Tick

LEMMA ClockStep == TypeOK /\ ClockInv /\ [Next]_vars => ClockInv'
<1> SUFFICES ASSUME TypeOK, ClockInv, [Next]_vars PROVE ClockInv'
  OBVIOUS
<1> USE DEF TypeOK, ClockInv
<1>1. ASSUME NEW p \in Procs, WriteKey(p) PROVE ClockInv'
  BY <1>1, RestartOne DEF WriteKey
<1>2. ASSUME NEW k \in Keys, Generate(k) PROVE ClockInv'
  BY <1>2, RestartOne DEF Generate
<1>3. ASSUME NEW a \in Accounts, DeleteAccount(a) PROVE ClockInv'
  BY <1>3 DEF DeleteAccount
<1>4. CASE Tick
  BY <1>4 DEF Tick, TickSince
<1>5. CASE UNCHANGED <<keyRow, since>>
  BY <1>5
<1> QED
  BY <1>1, <1>2, <1>3, <1>4, <1>5 DEF Next, CacheHit, CacheMiss, BeginWrite, Step, LookupKey,
       LookupFails, FillCache, FillFails, ReadAccount, AccountRefused, WriteFails,
       Invalidate, InvalidateFails, Evict, SetAccountActive

(* The numbers the arithmetic below is about. *)
LEMMA Numbers ==
  ASSUME TypeOK
  PROVE  /\ TTL \in Nat \ {0} /\ MaxLatency \in Nat /\ Staleness \in Nat
         /\ \A k \in Keys, f \in Flags : since[k][f] \in Nat
         /\ \A k \in Keys : ttl[k] \in Nat /\ ttl[k] <= TTL
         /\ \A p \in Procs : age[p] \in Nat /\ age[p] <= MaxLatency /\ key[p] \in Keys
<1>1. Staleness \in Nat
  BY KeyAuthAssumption DEF Staleness
<1> QED
  BY <1>1, KeyAuthAssumption DEF TypeOK

(* No clock goes faster than time. *)
LEMMA TickBound ==
  ASSUME TypeOK, Tick
  PROVE  /\ \A k \in Keys, f \in Flags : since'[k][f] \in Nat /\ since'[k][f] <= since[k][f] + 1
         /\ \A p \in Procs : age'[p] = IF pc[p] \in Done THEN age[p] ELSE age[p] + 1
  BY Numbers DEF TypeOK, Tick, TickSince

(* A new flag leaves a clock where it is or sets it back.                   *)
LEMMA RestartBound ==
  ASSUME TypeOK, NEW k \in Keys, NEW v, Restart(k, v)
  PROVE  \A j \in Keys, f \in Flags : since'[j][f] \in Nat /\ since'[j][f] <= since[j][f]
  BY Numbers, RestartOne

LEMMA FillStep == TypeOK /\ FoundInv /\ ClockInv /\ FillInv /\ [Next]_vars => FillInv'
<1> SUFFICES ASSUME TypeOK, FoundInv, ClockInv, FillInv, [Next]_vars PROVE FillInv'
  OBVIOUS
<1>n. /\ \A k \in Keys, f \in Flags : since[k][f] \in Nat
      /\ \A p \in Procs : age[p] \in Nat /\ key[p] \in Keys
      /\ \A p \in Procs : pc[p] = "fill" => val[p] \in Flags
  BY Numbers DEF TypeOK, FoundInv
<1> USE DEF TypeOK, FillInv
<1>1. ASSUME NEW p \in Procs, NEW k \in Keys, CacheHit(p, k) \/ CacheMiss(p, k)
      PROVE  FillInv'
  BY <1>1 DEF CacheHit, CacheMiss, Begin
<1>2. ASSUME NEW p \in Procs, NEW k \in Keys, NEW v \in {"active", "inactive", "deleted"},
             BeginWrite(p, k, v)
      PROVE  FillInv'
  BY <1>2 DEF BeginWrite, Begin
<1>3. ASSUME NEW p \in Procs, LookupKey(p) PROVE FillInv'
  <2>1. since[key[p]][val'[p]] <= age[p]
    BY <1>3, <1>n DEF LookupKey, ClockInv
  <2> QED
    BY <1>3, <2>1 DEF LookupKey
<1>4. ASSUME NEW k \in Keys, NEW v, Restart(k, v),
             \A q \in Procs : pc'[q] = "fill" => pc[q] = "fill",
             UNCHANGED <<key, val, age>>
      PROVE  FillInv'
  BY <1>4, <1>n, RestartBound
<1>5. CASE Tick
  <2> SUFFICES ASSUME NEW p \in Procs, pc'[p] = "fill"
               PROVE  since'[key'[p]][val'[p]] <= age'[p]
    OBVIOUS
  <2>1. pc[p] = "fill" /\ key'[p] = key[p] /\ val'[p] = val[p]
    BY <1>5 DEF Tick
  <2>2. /\ since'[key[p]][val[p]] \in Nat
        /\ since'[key[p]][val[p]] <= since[key[p]][val[p]] + 1
        /\ age'[p] = age[p] + 1
    BY <1>5, <1>n, <2>1, TickBound
  <2>3. since[key[p]][val[p]] \in Nat /\ since[key[p]][val[p]] <= age[p]
    BY <1>n, <2>1
  <2> QED
    BY <1>n, <2>1, <2>2, <2>3
<1>6. ASSUME NEW p \in Procs,
             \/ LookupFails(p) \/ FillCache(p) \/ FillFails(p) \/ ReadAccount(p)
             \/ AccountRefused(p) \/ WriteFails(p) \/ Invalidate(p) \/ InvalidateFails(p)
      PROVE  FillInv'
  BY <1>6 DEF LookupFails, FillCache, FillFails, AfterFill, ReadAccount, AccountRefused,
       WriteFails, Invalidate, InvalidateFails
<1>7. CASE UNCHANGED <<request, since>>
  BY <1>7
<1>8. ASSUME NEW p \in Procs, WriteKey(p) PROVE FillInv'
  <2>1. \A q \in Procs : pc'[q] = "fill" => pc[q] = "fill"
    BY <1>8 DEF WriteKey
  <2> QED
    BY <1>4, <1>8, <1>n, <2>1 DEF WriteKey
<1>9. ASSUME NEW k \in Keys, Generate(k) PROVE FillInv'
  BY <1>4, <1>9 DEF Generate
<1> QED
  BY <1>1, <1>2, <1>3, <1>5, <1>6, <1>7, <1>8, <1>9
     DEF Next, Step, Evict, SetAccountActive, DeleteAccount

LEMMA EntryStep == IInv /\ [Next]_vars => EntryInv'
<1> SUFFICES ASSUME IInv, [Next]_vars PROVE EntryInv'
  OBVIOUS
<1> USE DEF IInv, TypeOK, EntryInv
<1>n. /\ TTL \in Nat \ {0} /\ MaxLatency \in Nat
      /\ \A k \in Keys, f \in Flags : since[k][f] \in Nat
      /\ \A k \in Keys : ttl[k] \in Nat
      /\ \A p \in Procs : age[p] \in Nat /\ age[p] <= MaxLatency /\ key[p] \in Keys
      /\ \A p \in Procs : pc[p] = "fill" => val[p] \in Flags
  BY Numbers DEF FoundInv
<1>1. ASSUME NEW p \in Procs, FillCache(p) PROVE EntryInv'
  <2>1. val[p] \in Flags /\ since[key[p]][val[p]] <= age[p]
    BY <1>1, <1>n DEF FillCache, FillInv
  <2>2. since[key[p]][val[p]] + TTL <= TTL + MaxLatency
    BY <1>n, <2>1
  <2> QED
    BY <1>1, <1>n, <2>2 DEF FillCache
<1>2. ASSUME NEW k \in Keys, DeleteEntry(k), UNCHANGED since PROVE EntryInv'
  BY <1>2
<1>3. ASSUME NEW k \in Keys, NEW v, Restart(k, v), UNCHANGED redis PROVE EntryInv'
  <2>1. \A j \in Keys, f \in Flags : since'[j][f] \in Nat /\ since'[j][f] <= since[j][f]
    BY <1>3, RestartBound
  <2> QED
    BY <1>3, <1>n, <2>1
<1>4. CASE Tick
  <2> SUFFICES ASSUME NEW k \in Keys, entry'[k] # "none"
               PROVE  ttl'[k] > 0 /\ since'[k][entry'[k]] + ttl'[k] <= TTL + MaxLatency
    OBVIOUS
  <2>1. /\ entry'[k] = entry[k] /\ entry[k] \in Flags
        /\ ttl[k] > 1 /\ ttl'[k] = ttl[k] - 1
    BY <1>4, <1>n DEF Tick, TickRedis
  <2>2. since'[k][entry[k]] \in Nat /\ since'[k][entry[k]] <= since[k][entry[k]] + 1
    BY <1>4, <2>1, TickBound
  <2>3. since[k][entry[k]] \in Nat /\ since[k][entry[k]] + ttl[k] <= TTL + MaxLatency
    BY <1>n, <2>1
  <2> QED
    BY <1>n, <2>1, <2>2, <2>3
<1>5. CASE UNCHANGED <<redis, since>>
  BY <1>5
<1>6. ASSUME NEW p \in Procs, Step(p) PROVE EntryInv'
  BY <1>1, <1>2, <1>3, <1>5, <1>6, <1>n DEF Step, LookupKey, LookupFails, FillFails, ReadAccount,
     AccountRefused, WriteKey, WriteFails, Invalidate, InvalidateFails
<1> QED
  BY <1>2, <1>3, <1>4, <1>5, <1>6
     DEF Next, CacheHit, CacheMiss, BeginWrite, Evict, SetAccountActive, Generate, DeleteAccount

LEMMA HitStep == IInv /\ [Next]_vars => HitInv'
<1> SUFFICES ASSUME IInv, [Next]_vars PROVE HitInv'
  OBVIOUS
<1> USE DEF IInv, TypeOK, HitInv
<1>n. /\ TTL \in Nat \ {0} /\ MaxLatency \in Nat
      /\ \A k \in Keys, f \in Flags : since[k][f] \in Nat
      /\ \A k \in Keys : ttl[k] \in Nat
      /\ \A p \in Procs : age[p] \in Nat /\ age[p] <= MaxLatency /\ key[p] \in Keys
      /\ \A p \in Procs : pc[p] = "fill" => val[p] \in Flags
  BY Numbers DEF FoundInv
<1>1. ASSUME NEW p \in Procs, NEW k \in Keys, CacheHit(p, k) PROVE HitInv'
  <2>1. entry[k] = "active" => since[k]["active"] < TTL + MaxLatency
    BY <1>n DEF EntryInv
  <2> QED
    BY <1>1, <1>n, <2>1 DEF CacheHit, Begin
<1>2. ASSUME NEW p \in Procs, NEW k \in Keys, CacheMiss(p, k) PROVE HitInv'
  BY <1>2 DEF CacheMiss, Begin
<1>3. ASSUME NEW p \in Procs, NEW k \in Keys, NEW v \in {"active", "inactive", "deleted"},
             BeginWrite(p, k, v)
      PROVE  HitInv'
  BY <1>3 DEF BeginWrite, Begin
<1>4. ASSUME NEW p \in Procs, FillCache(p) \/ FillFails(p) PROVE HitInv'
  <2>1. val[p] = "active" => since[key[p]]["active"] < TTL + MaxLatency + age[p]
    BY <1>4, <1>n DEF FillCache, FillFails, FillInv
  <2> QED
    BY <1>4, <2>1 DEF FillCache, FillFails, AfterFill
<1>5. ASSUME NEW k \in Keys, NEW v, Restart(k, v), UNCHANGED <<key, age>>,
             \A q \in Procs : pc'[q] \in {"role", "account"} => pc[q] \in {"role", "account"}
      PROVE  HitInv'
  BY <1>5, <1>n, RestartBound
<1>6. CASE Tick
  <2> SUFFICES ASSUME NEW p \in Procs, pc'[p] \in {"role", "account"}
               PROVE  since'[key'[p]]["active"] < TTL + MaxLatency + age'[p]
    OBVIOUS
  <2>1. pc[p] \in {"role", "account"} /\ key'[p] = key[p]
    BY <1>6 DEF Tick
  <2>2. /\ since'[key[p]]["active"] \in Nat
        /\ since'[key[p]]["active"] <= since[key[p]]["active"] + 1
        /\ age'[p] = age[p] + 1
    BY <1>6, <1>n, <2>1, TickBound
  <2> QED
    BY <1>n, <2>1, <2>2
<1>7. ASSUME NEW p \in Procs,
             \/ LookupKey(p) \/ LookupFails(p) \/ ReadAccount(p) \/ AccountRefused(p)
             \/ WriteFails(p) \/ Invalidate(p) \/ InvalidateFails(p)
      PROVE  HitInv'
  BY <1>7 DEF LookupKey, LookupFails, ReadAccount, AccountRefused, WriteFails, Invalidate,
       InvalidateFails
<1>8. CASE UNCHANGED <<request, since>>
  BY <1>8
<1>9. ASSUME NEW p \in Procs, WriteKey(p) PROVE HitInv'
  <2>1. \A q \in Procs : pc'[q] \in {"role", "account"} => pc[q] \in {"role", "account"}
    BY <1>9 DEF WriteKey
  <2> QED
    BY <1>5, <1>9, <1>n, <2>1 DEF WriteKey
<1>10. ASSUME NEW k \in Keys, Generate(k) PROVE HitInv'
  BY <1>5, <1>10 DEF Generate
<1> QED
  BY <1>1, <1>2, <1>3, <1>4, <1>6, <1>7, <1>8, <1>9, <1>10
     DEF Next, Step, Evict, SetAccountActive, DeleteAccount

-----------------------------------------------------------------------------
(* The parts of IInv hold initially and are kept by every step.             *)
THEOREM Invariance == Spec => []IInv
<1>1. Init => IInv
  BY KeyAuthAssumption DEF Init, IInv, TypeOK, FoundInv, ClockInv, FillInv, EntryInv, HitInv,
     Staleness
<1>2. IInv /\ [Next]_vars => IInv'
  BY TypeStep, FoundStep, ClockStep, FillStep, EntryStep, HitStep DEF IInv
<1> QED
  BY <1>1, <1>2, PTL DEF Spec

(* Type correctness, for every set of keys, accounts and requests.          *)
THEOREM TypeCorrectness == Spec => []TypeOK
<1>1. IInv => TypeOK
  BY DEF IInv
<1> QED
  BY <1>1, Invariance, PTL

(* A revoked key is accepted for less than the life of a cache entry and the *)
(* duration of two requests, whatever Redis fails at and however many       *)
(* requests overtake each other.                                            *)
THEOREM StaleAcceptanceBounded == Spec => RevocationBounded
<1>1. ASSUME IInv, [Next]_vars, NEW p \in Procs, Accepts(p)
      PROVE  since[key[p]]["active"] < Staleness
  <2>1. since[key[p]]["active"] < TTL + MaxLatency + age[p]
    BY <1>1 DEF IInv, HitInv, Accepts
  <2> QED
    BY <1>1, <2>1, Numbers DEF IInv, Staleness
<1>2. IInv /\ [Next]_vars =>
        [\A p \in Procs : Accepts(p) => since[key[p]]["active"] < Staleness]_vars
  BY <1>1
<1> QED
  BY <1>2, Invariance, PTL DEF Spec, RevocationBounded

(* A key that was activated is refused as inactive for less than the life   *)
(* of a cache entry and the duration of one request.                        *)
THEOREM StaleRefusalBounded == Spec => HealingBounded
<1> DEFINE A == \A p \in Procs, k \in Keys :
                  RefusesFlag(p, k) => since[k]["inactive"] < TTL + MaxLatency
<1>1. ASSUME IInv, [Next]_vars PROVE A
  <2> SUFFICES ASSUME NEW p \in Procs, NEW k \in Keys, RefusesFlag(p, k)
               PROVE  since[k]["inactive"] < TTL + MaxLatency
    OBVIOUS
  <2>n. /\ TTL \in Nat \ {0} /\ MaxLatency \in Nat
        /\ since[k]["inactive"] \in Nat /\ ttl[k] \in Nat
        /\ age[p] \in Nat /\ age[p] <= MaxLatency
    BY <1>1, Numbers DEF IInv
  <2>1. CASE CacheHit(p, k) /\ pc'[p] = "refused"
    <3>1. entry[k] = "inactive"
      BY <1>1, <2>1 DEF CacheHit, Begin, IInv, TypeOK
    <3>2. ttl[k] > 0 /\ since[k]["inactive"] + ttl[k] <= TTL + MaxLatency
      BY <1>1, <3>1 DEF IInv, EntryInv
    <3> QED
      BY <2>n, <3>2
  <2>2. CASE key[p] = k /\ pc[p] = "fill" /\ pc'[p] = "refused"
    <3>1. val[p] # "active"
      BY <1>1, <2>2 DEF Next, CacheHit, CacheMiss, BeginWrite, Begin, Step, LookupKey, LookupFails,
         FillCache, FillFails, AfterFill, ReadAccount, AccountRefused, WriteKey, WriteFails,
         Invalidate, InvalidateFails, Generate, Evict, SetAccountActive, DeleteAccount, Tick,
         IInv, TypeOK
    <3>2. val[p] = "inactive"
      BY <1>1, <2>2, <3>1 DEF IInv, TypeOK, FoundInv
    <3>3. since[k]["inactive"] <= age[p]
      BY <1>1, <2>2, <3>2 DEF IInv, FillInv
    <3> QED
      BY <2>n, <3>3
  <2> QED
    BY <2>1, <2>2 DEF RefusesFlag
<1>2. IInv /\ [Next]_vars => [A]_vars
  BY <1>1
<1> QED
  BY <1>2, Invariance, PTL DEF Spec, HealingBounded

-----------------------------------------------------------------------------
(* The cache keeps the promise of Leases. A request that fills it copies    *)
(* the flag it read, within MaxLatency; deletion and eviction drop copies;  *)
(* whatever writes a row changes the facts; no other step is visible.       *)
Holding == {f \in Keys \X Flags : keyRow[f[1]] = f[2]}
Clocks == [f \in Keys \X Flags |-> since[f[1]][f[2]]]
Left == [f \in Keys \X Flags |-> IF entry[f[1]] = f[2] THEN ttl[f[1]] ELSE 0]

LEMMA ChangeFacts ==
  ASSUME TypeOK, ClockInv', UNCHANGED redis,
         since' \in [Keys -> [Flags -> 0..Staleness]],
         \A k \in Keys, f \in Flags : since'[k][f] = since[k][f] \/ keyRow'[k] = f
  PROVE  Cache!Change
<1>1. Holding' \in SUBSET (Keys \X Flags)
  BY DEF Holding
<1>2. \A f \in Keys \X Flags :
        since'[f[1]][f[2]] = IF f \in Holding' THEN 0 ELSE since[f[1]][f[2]]
  <2> SUFFICES ASSUME NEW k \in Keys, NEW v \in Flags
               PROVE  since'[k][v] = IF keyRow'[k] = v THEN 0 ELSE since[k][v]
    BY DEF Holding
  <2> QED
    BY DEF ClockInv
<1>3. Clocks' = [f \in Keys \X Flags |-> IF f \in Holding' THEN 0 ELSE Clocks[f]]
  BY <1>2 DEF Clocks
<1>4. UNCHANGED Left
  BY DEF Left
<1> QED
  BY <1>1, <1>3, <1>4 DEF Cache!Change, Holding, Clocks, Left

LEMMA DropEntry ==
  ASSUME TypeOK, NEW k \in Keys, DeleteEntry(k), UNCHANGED <<keyRow, since>>
  PROVE  Cache!Drop({k} \X Flags)
<1>1. \A f \in Keys \X Flags :
        (IF entry'[f[1]] = f[2] THEN ttl'[f[1]] ELSE 0) =
        IF f \in {k} \X Flags THEN 0 ELSE IF entry[f[1]] = f[2] THEN ttl[f[1]] ELSE 0
  BY DEF TypeOK
<1>2. Left' = [f \in Keys \X Flags |-> IF f \in {k} \X Flags THEN 0 ELSE Left[f]]
  BY <1>1 DEF Left
<1>3. UNCHANGED <<Holding, Clocks>>
  BY DEF Holding, Clocks
<1> QED
  BY <1>2, <1>3 DEF Cache!Drop, Holding, Clocks, Left

LEMMA CopyFlag ==
  ASSUME TypeOK, NEW k \in Keys, NEW v \in Flags, SetEntry(k, v), UNCHANGED <<keyRow, since>>,
         since[k][v] <= MaxLatency
  PROVE  Cache!Next
<1>1. \A f \in Keys \X Flags :
        (IF entry'[f[1]] = f[2] THEN ttl'[f[1]] ELSE 0) =
        IF f = <<k, v>> THEN TTL
        ELSE IF f \in {k} \X Flags THEN 0 ELSE IF entry[f[1]] = f[2] THEN ttl[f[1]] ELSE 0
  BY DEF TypeOK
<1>2. Left' = [f \in Keys \X Flags |-> IF f = <<k, v>> THEN TTL
                                       ELSE IF f \in {k} \X Flags THEN 0 ELSE Left[f]]
  BY <1>1 DEF Left
<1>3. UNCHANGED <<Holding, Clocks>> /\ Clocks[<<k, v>>] <= MaxLatency
  BY DEF Holding, Clocks
<1>4. Cache!Copy(<<k, v>>, {k} \X Flags)
  BY <1>2, <1>3 DEF Cache!Copy, Holding, Clocks, Left
<1>5. <<k, v>> \in Keys \X Flags /\ {k} \X Flags \in SUBSET (Keys \X Flags)
  OBVIOUS
<1> QED
  BY <1>4, <1>5, Zenon DEF Cache!Next

LEMMA TickCopies ==
  ASSUME IInv, Tick
  PROVE  Cache!Tick
<1>0. \A n, x \in Nat : x <= n => (x >= n <=> x = n)
  OBVIOUS
<1> USE DEF IInv, TypeOK
<1>n. /\ Staleness \in Nat
      /\ \A k \in Keys, f \in Flags : since[k][f] \in Nat /\ since[k][f] <= Staleness
      /\ \A k \in Keys : ttl[k] \in Nat
  BY KeyAuthAssumption DEF Staleness
<1>1. UNCHANGED Holding
  BY DEF Tick, Holding
<1>2. Clocks' = [f \in Keys \X Flags |->
                  IF f \in Holding THEN 0
                  ELSE IF Clocks[f] >= Staleness THEN Clocks[f] ELSE Clocks[f] + 1]
  <2>1. ASSUME NEW f \in Keys \X Flags
        PROVE  since'[f[1]][f[2]] =
                 IF f \in Holding THEN 0
                 ELSE IF Clocks[f] >= Staleness THEN Clocks[f] ELSE Clocks[f] + 1
    <3>1. since'[f[1]][f[2]] = TickSince(f[1], f[2])
      BY DEF Tick
    <3>2. f \in Holding <=> keyRow[f[1]] = f[2]
      BY DEF Holding
    <3>3. Clocks[f] = since[f[1]][f[2]] /\ Clocks[f] \in Nat /\ Clocks[f] <= Staleness
      BY <1>n DEF Clocks
    <3>4. Clocks[f] >= Staleness <=> Clocks[f] = Staleness
      BY <1>0, <1>n, <3>3, Zenon
    <3> QED
      BY <3>1, <3>2, <3>3, <3>4 DEF TickSince
  <2> QED
    BY <2>1 DEF Clocks
<1>3. Left' = [f \in Keys \X Flags |-> IF Left[f] = 0 THEN 0 ELSE Left[f] - 1]
  <2>1. ASSUME NEW k \in Keys, NEW v \in Flags, entry[k] = v
        PROVE  (IF entry'[k] = v THEN ttl'[k] ELSE 0) = IF ttl[k] = 0 THEN 0 ELSE ttl[k] - 1
    <3>1. ttl[k] \in Nat /\ ttl[k] > 0
      BY <1>n, <2>1 DEF EntryInv
    <3>2. /\ entry'[k] = IF ttl[k] <= 1 THEN "none" ELSE v
          /\ ttl'[k] = ttl[k] - 1
      BY <2>1, <3>1 DEF Tick, TickRedis
    <3>3. CASE ttl[k] = 1
      BY <3>2, <3>3
    <3>4. CASE ttl[k] > 1
      BY <3>1, <3>2, <3>4
    <3> QED
      BY <3>1, <3>3, <3>4
  <2>2. ASSUME NEW k \in Keys, NEW v \in Flags, entry[k] # v
        PROVE  entry'[k] # v
    BY <2>2 DEF Tick, TickRedis
  <2>3. ASSUME NEW f \in Keys \X Flags
        PROVE  (IF entry'[f[1]] = f[2] THEN ttl'[f[1]] ELSE 0) =
               IF Left[f] = 0 THEN 0 ELSE Left[f] - 1
    <3>1. CASE entry[f[1]] = f[2]
      BY <2>1, <3>1 DEF Left
    <3>2. CASE entry[f[1]] # f[2]
      BY <2>2, <3>2 DEF Left
    <3> QED
      BY <3>1, <3>2
  <2> QED
    BY <2>3 DEF Left
<1> QED
  BY <1>1, <1>2, <1>3 DEF Cache!Tick, Holding, Clocks, Left

(* Every step of the requests, writers and Redis is a step of Leases or     *)
(* invisible to it: only FillCache makes or prolongs an entry.              *)
THEOREM CacheRefinement == Spec => ImplementsLeases
<1>1. Init => Cache!Init
  <2> SUFFICES ASSUME Init PROVE Cache!Init
    OBVIOUS
  <2>1. Holding = {}
    BY DEF Init, Holding
  <2>2. Clocks = [f \in Keys \X Flags |-> Staleness]
    BY DEF Init, Clocks
  <2>3. Left = [f \in Keys \X Flags |-> 0]
    BY DEF Init, Left
  <2> QED
    BY <2>1, <2>2, <2>3 DEF Cache!Init, Holding, Clocks, Left
<1>2. ASSUME IInv, IInv', [Next]_vars PROVE [Cache!Next]_(Cache!vars)
  <2> USE <1>2
  <2>1. ASSUME UNCHANGED <<keyRow, redis, since>> PROVE UNCHANGED Cache!vars
    BY <2>1 DEF Cache!vars
  <2>2. ASSUME NEW p \in Procs, FillCache(p) PROVE Cache!Next
    <3>1. /\ key[p] \in Keys /\ val[p] \in Flags
          /\ since[key[p]][val[p]] <= MaxLatency
      <4>1. /\ key[p] \in Keys /\ val[p] \in Flags
            /\ since[key[p]][val[p]] <= age[p]
        BY <2>2 DEF FillCache, IInv, TypeOK, FoundInv, FillInv
      <4> QED
        BY <4>1, Numbers DEF IInv
    <3>2. SetEntry(key[p], val[p]) /\ UNCHANGED <<keyRow, since>> /\ TypeOK
      BY <2>2 DEF FillCache, IInv
    <3> QED
      BY <3>1, <3>2, CopyFlag
  <2>3. ASSUME NEW k \in Keys, DeleteEntry(k), UNCHANGED <<keyRow, since>> PROVE Cache!Next
    BY <2>3, DropEntry DEF Cache!Next, IInv
  <2>4. ASSUME NEW k \in Keys, NEW v, Restart(k, v), keyRow' = [keyRow EXCEPT ![k] = v],
               UNCHANGED redis
        PROVE  Cache!Next
    <3>1. \A j \in Keys, f \in Flags : since'[j][f] = since[j][f] \/ keyRow'[j] = f
      BY <2>4, RestartOne DEF IInv, TypeOK
    <3>2. Cache!Change
      BY <2>4, <3>1, ChangeFacts DEF IInv, TypeOK
    <3> QED
      BY <3>2 DEF Cache!Next
  <2>5. ASSUME NEW p \in Procs, WriteKey(p) PROVE Cache!Next
    BY <2>4, <2>5 DEF WriteKey, IInv, TypeOK
  <2>6. ASSUME NEW k \in Keys, Generate(k) PROVE Cache!Next
    BY <2>4, <2>6 DEF Generate
  <2>7. ASSUME NEW a \in Accounts, DeleteAccount(a) PROVE Cache!Next
    <3>1. Cache!Change
      BY <2>7, ChangeFacts DEF DeleteAccount, IInv, TypeOK
    <3> QED
      BY <3>1 DEF Cache!Next
  <2>8. CASE Tick
    BY <2>8, TickCopies DEF Cache!Next
  <2>9. ASSUME NEW p \in Procs, Step(p) PROVE [Cache!Next]_(Cache!vars)
    <3>1. CASE Invalidate(p)
      BY <2>3, <3>1 DEF Invalidate, IInv, TypeOK
    <3> QED
      BY <2>1, <2>2, <2>5, <2>9, <3>1 DEF Step, LookupKey, LookupFails, FillFails, ReadAccount,
         AccountRefused, WriteFails, InvalidateFails
  <2> QED
    BY <2>1, <2>3, <2>6, <2>7, <2>8, <2>9
       DEF Next, CacheHit, CacheMiss, BeginWrite, Evict, SetAccountActive
<1> QED
  BY <1>1, <1>2, Invariance, PTL DEF Spec, ImplementsLeases, Cache!Spec

(* What Leases promises holds of the cache by that refinement alone: an     *)
(* entry that has x ticks left says what the row said at most               *)
(* TTL + MaxLatency - x ticks ago.                                          *)
Promise == INSTANCE LeasesProofs WITH
  Facts <- Keys \X Flags,
  Life <- TTL, Delay <- MaxLatency, Horizon <- Staleness,
  holds <- Holding, since <- Clocks, left <- Left

(* An entry with x ticks left shows a flag that the row had at most TTL +   *)
(* MaxLatency - x ticks ago.                                                *)
THEOREM CachedFlagsAreRecent == Spec => []Promise!Recent
<1>1. Promise!Durations
  BY KeyAuthAssumption DEF Promise!Durations, Staleness
<1>2. Promise!Spec => []Promise!Recent
  BY <1>1, Promise!CopiesAreRecent, PTL
<1>3. Cache!Init => Promise!Init
  BY DEF Cache!Init, Promise!Init, Holding, Clocks, Left
<1>4. [Cache!Next]_(Cache!vars) => [Promise!Next]_(Promise!vars)
  BY DEF Cache!Next, Promise!Next, Cache!vars, Promise!vars, Cache!Change, Promise!Change,
     Cache!Copy, Promise!Copy, Cache!Drop, Promise!Drop, Cache!Tick, Promise!Tick,
     Holding, Clocks, Left
<1> QED
  BY <1>2, <1>3, <1>4, CacheRefinement, PTL DEF ImplementsLeases, Cache!Spec, Promise!Spec

-----------------------------------------------------------------------------
(* A deleted key that no request and no entry takes for active stays so.    *)
THEOREM DeletedForGood == Spec => DeletionIsFinal
<1>1. ASSUME TypeOK, [Next]_vars, NEW k \in Keys, Revoked(k) PROVE Revoked(k)'
  <2> USE <1>1 DEF TypeOK, Revoked
  <2>1. ASSUME NEW p \in Procs, NEW j \in Keys, CacheHit(p, j) \/ CacheMiss(p, j)
        PROVE  Revoked(k)'
    BY <2>1 DEF CacheHit, CacheMiss, Begin
  <2>2. ASSUME NEW p \in Procs, NEW j \in Keys, NEW v \in {"active", "inactive", "deleted"},
               BeginWrite(p, j, v)
        PROVE  Revoked(k)'
    BY <2>2 DEF BeginWrite, Begin
  <2>3. ASSUME NEW p \in Procs, LookupKey(p) \/ LookupFails(p) PROVE Revoked(k)'
    BY <2>3 DEF LookupKey, LookupFails
  <2>4. ASSUME NEW p \in Procs, FillCache(p) \/ FillFails(p) PROVE Revoked(k)'
    BY <2>4 DEF FillCache, FillFails, AfterFill
  <2>5. ASSUME NEW p \in Procs, ReadAccount(p) \/ AccountRefused(p) PROVE Revoked(k)'
    BY <2>5 DEF ReadAccount, AccountRefused
  <2>6. ASSUME NEW p \in Procs, WriteKey(p) \/ WriteFails(p) PROVE Revoked(k)'
    BY <2>6 DEF WriteKey, WriteFails
  <2>7. ASSUME NEW p \in Procs, Invalidate(p) \/ InvalidateFails(p) PROVE Revoked(k)'
    BY <2>7 DEF Invalidate, InvalidateFails
  <2>8. ASSUME NEW j \in Keys, Generate(j) \/ Evict(j) PROVE Revoked(k)'
    BY <2>8 DEF Generate, Evict
  <2>9. ASSUME NEW a \in Accounts, NEW v \in {"active", "inactive"}, SetAccountActive(a, v)
        PROVE  Revoked(k)'
    BY <2>9 DEF SetAccountActive
  <2>10. ASSUME NEW a \in Accounts, DeleteAccount(a) PROVE Revoked(k)'
    BY <2>10 DEF DeleteAccount
  <2>11. CASE Tick
    BY <2>11 DEF Tick, TickRedis
  <2>12. CASE UNCHANGED vars
    BY <2>12
  <2> QED
    BY <2>1, <2>2, <2>3, <2>4, <2>5, <2>6, <2>7, <2>8, <2>9, <2>10, <2>11, <2>12 DEF Next, Step
<1>2. TypeOK /\ [Next]_vars => [\A k \in Keys : Revoked(k) => Revoked(k)']_vars
  BY <1>1
<1> QED
  BY <1>2, TypeCorrectness, PTL DEF Spec, DeletionIsFinal
=============================================================================
