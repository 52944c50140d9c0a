---------------------------- MODULE RateLimiter ----------------------------
(***************************************************************************)
(* The two rate limiters in front of the API: every request passes the     *)
(* global one, a login then the stricter one. A limiter of N requests per  *)
(* period is GCRA with rate and burst N (redis_rate): one atomic script in *)
(* Redis per request and client, whichever replica of the API runs it. The *)
(* buckets of different clients are different Redis keys, so one client is *)
(* enough.                                                                 *)
(*                                                                         *)
(* Definitions named X_Y are definition X with the slip Y, which some      *)
(* property must detect.                                                   *)
(***************************************************************************)
EXTENDS Integers

CONSTANTS
  Limit,     \* per limiter, the requests per period, and the burst
  Interval,  \* per limiter, the ticks between two refills: period / limit
  Requests,  \* the client's requests in progress at one time
  Logins,    \* those of them that are POST /login
  MaxRetries,\* REDIS_MAX_RETRIES: how often go-redis repeats a failed call
  RedisFails,\* may a call to Redis fail?
  MaxLosses  \* bound on how often Redis loses charges in one window

Limiters == {"global", "login"}

ASSUME LimitsAssumption ==
  /\ Limit \in [Limiters -> Nat \ {0}]
  /\ Interval \in [Limiters -> Nat \ {0}]
  /\ Logins \subseteq Requests
  /\ MaxRetries \in Nat
  /\ RedisFails \in BOOLEAN
  /\ MaxLosses \in Nat

Period(l) == Limit[l] * Interval[l]

VARIABLES
  debt,    \* Redis, per limiter: the ticks until the bucket is full again
  pc,      \* the limiter each request asks, or its result
  tries,   \* go-redis, per request: the lost replies of the call in progress
  elapsed, \* history: the age of the observed window, Period + 1 for none
  count,   \* history: the requests the limiter allowed in that window
  lost,    \* history: the charges in that window whose reply was lost
  losses   \* history: how often Redis lost charges of the bucket in it

window == <<elapsed, count, lost, losses>>
vars == <<debt, pc, tries, window>>

Observed(l) == elapsed[l] <= Period(l)

(* Type correctness of the state. *)
TypeOK ==
  /\ debt \in [Limiters -> Nat]
  /\ \A l \in Limiters : debt[l] <= Period(l)
  /\ pc \in [Requests -> Limiters \cup {"passed", "refused"}]
  /\ tries \in [Requests -> 0..MaxRetries]
  /\ elapsed \in [Limiters -> Nat]
  /\ \A l \in Limiters : elapsed[l] <= Period(l) + 1
  /\ count \in [Limiters -> Nat]
  /\ lost \in [Limiters -> Nat]
  /\ losses \in [Limiters -> 0..MaxLosses]

Init ==
  /\ debt = [l \in Limiters |-> 0]
  /\ pc = [r \in Requests |-> "passed"]
  /\ tries = [r \in Requests |-> 0]
  /\ elapsed = [l \in Limiters |-> Period(l) + 1]
  /\ count = [l \in Limiters |-> 0]
  /\ lost = [l \in Limiters |-> 0]
  /\ losses = [l \in Limiters |-> 0]

-----------------------------------------------------------------------------
Arrive(r) ==
  /\ pc[r] \in {"passed", "refused"}
  /\ pc' = [pc EXCEPT ![r] = "global"]
  /\ UNCHANGED <<debt, tries, window>>

(* The call returns, and the next handler is the login limiter of a login,  *)
(* or the request's own.                                                    *)
Continue(r) ==
  /\ pc' = [pc EXCEPT ![r] = IF @ = "global" /\ r \in Logins THEN "login" ELSE "passed"]
  /\ tries' = [tries EXCEPT ![r] = 0]

Room_OffByOne(l) == debt[l] + Interval[l] < Period(l)

(* The script's condition: one more interval fits into the burst. *)
Room(l) == debt[l] + Interval[l] <= Period(l)

Charge_Unchecked(l) == debt' = [debt EXCEPT ![l] = @ + Interval[l]]

Charge(l) == Room(l) /\ debt' = [debt EXCEPT ![l] = @ + Interval[l]]

Counted(history, l) == [history EXCEPT ![l] = IF Observed(l) THEN @ + 1 ELSE @]

Allow(r) ==
  LET l == pc[r]
  IN  /\ l \in Limiters
      /\ Charge(l)
      /\ count' = Counted(count, l)
      /\ Continue(r)
      /\ UNCHANGED <<elapsed, lost, losses>>

RefuseIt(r) ==
  /\ pc' = [pc EXCEPT ![r] = "refused"]
  /\ tries' = [tries EXCEPT ![r] = 0]
  /\ UNCHANGED window

Refuse_Charged(r) ==
  LET l == pc[r]
  IN  /\ l \in Limiters
      /\ ~Room(l)
      /\ debt' = [debt EXCEPT ![l] = Period(l)]
      /\ RefuseIt(r)

(* 429; a refused request costs nothing. *)
Refuse(r) ==
  LET l == pc[r]
  IN  /\ l \in Limiters
      /\ ~Room(l)
      /\ RefuseIt(r)
      /\ UNCHANGED debt

(* The script ran, and charged the bucket if there was room, but its reply  *)
(* is lost.                                                                 *)
ReplyLost(l) ==
  /\ RedisFails
  /\ \/ Charge(l) /\ lost' = Counted(lost, l)
     \/ ~Room(l) /\ UNCHANGED <<debt, lost>>

(* go-redis runs the script again for the same request. *)
Retry(r) ==
  LET l == pc[r]
  IN  /\ l \in Limiters
      /\ tries[r] < MaxRetries
      /\ ReplyLost(l)
      /\ tries' = [tries EXCEPT ![r] = @ + 1]
      /\ UNCHANGED <<pc, elapsed, count, losses>>

(* The call fails in the end, and the request passes. Its last run may have *)
(* reached Redis or not.                                                    *)
FailOpen(r) ==
  LET l == pc[r]
  IN  /\ l \in Limiters
      /\ RedisFails
      /\ ReplyLost(l) \/ UNCHANGED <<debt, lost>>
      /\ Continue(r)
      /\ UNCHANGED <<elapsed, count, losses>>

(* The observed window gets older, and is forgotten when it is over. *)
Age ==
  LET kept(history) ==
        [l \in Limiters |-> IF elapsed[l] < Period(l) THEN history[l] ELSE 0]
  IN  /\ elapsed' = [l \in Limiters |-> IF Observed(l) THEN elapsed[l] + 1 ELSE elapsed[l]]
      /\ count' = kept(count)
      /\ lost' = kept(lost)
      /\ losses' = kept(losses)

Tick_RefillsAtOnce ==
  /\ debt' = [l \in Limiters |-> IF debt[l] < Interval[l] THEN 0 ELSE debt[l] - Interval[l]]
  /\ Age
  /\ UNCHANGED <<pc, tries>>

(* One tick refills one tick's worth. *)
Tick ==
  /\ debt' = [l \in Limiters |-> IF debt[l] = 0 THEN 0 ELSE debt[l] - 1]
  /\ Age
  /\ UNCHANGED <<pc, tries>>

(* Redis restarts without the bucket's last charges, or without the bucket. *)
LoseCharges(l) ==
  /\ losses[l] < MaxLosses
  /\ \E d \in 0..debt[l] : debt' = [debt EXCEPT ![l] = d]
  /\ losses' = Counted(losses, l)
  /\ UNCHANGED <<pc, tries, elapsed, count, lost>>

(* History only: some window of one period begins to be observed. *)
Observe(l) ==
  /\ \A k \in Limiters : ~Observed(k)
  /\ elapsed' = [elapsed EXCEPT ![l] = 0]
  /\ UNCHANGED <<debt, pc, tries, count, lost, losses>>

Next ==
  \/ \E r \in Requests : Arrive(r) \/ Allow(r) \/ Refuse(r) \/ Retry(r) \/ FailOpen(r)
  \/ Tick
  \/ \E l \in Limiters : LoseCharges(l) \/ Observe(l)

Spec == Init /\ [][Next]_vars

(* Time passes; the client need not ask, and Redis need not fail. *)
FairSpec == Spec /\ WF_vars(Tick)

-----------------------------------------------------------------------------
(* In no window of one period, wherever it begins, is a bucket that Redis   *)
(* keeps charged twice its limit: a full bucket and what is refilled in the *)
(* window are the most a client can get from a limiter that answers.        *)
LessThanTwice == \A l \in Limiters :
  losses[l] = 0 /\ elapsed[l] < Period(l) => count[l] + lost[l] < 2 * Limit[l]

(* A client that keeps to the limit is not refused unless replies of Redis  *)
(* were lost, each of which costs it one request: whoever is refused was    *)
(* allowed what is left of the limit since the window that is one period    *)
(* old began. Failed calls that did not reach Redis, refused requests and   *)
(* the other limiter don't count against it.                                *)
RefusedAtLimitOnly ==
  [][\A r \in Requests : \A l \in Limiters :
       pc[r] = l /\ pc'[r] = "refused" /\ elapsed[l] = Period(l)
         => count[l] + lost[l] >= Limit[l]]_vars

(* However persistently a refused client asks again, it is not shut out.    *)
AdmitsAgain == \A l \in Limiters : []<>Room(l)
=============================================================================
