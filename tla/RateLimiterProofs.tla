-------------------------- MODULE RateLimiterProofs --------------------------
(***************************************************************************)
(* Proofs about RateLimiter. A bucket's debt is what was charged less what *)
(* time refilled or Redis lost, and refilling stops at zero: the two       *)
(* halves of WindowInv bound the number of charges in a window from above  *)
(* and from below.                                                         *)
(***************************************************************************)
EXTENDS RateLimiter, TLAPS

(* The charges in the observed window, whether or not their replies came    *)
(* back, and the ticks it takes to refill them.                             *)
Charges(l) == count[l] + lost[l]
Charged(l) == Charges(l) * Interval[l]

WindowInv == \A l \in Limiters : Observed(l) =>
  /\ losses[l] = 0 => Charged(l) <= debt[l] + elapsed[l]
  /\ debt[l] + elapsed[l] <= Period(l) + Charged(l)

(* Where no window is observed, nothing is counted yet.                     *)
Idle == \A l \in Limiters : ~Observed(l) => count[l] = 0 /\ lost[l] = 0 /\ losses[l] = 0

IInv == TypeOK /\ WindowInv /\ Idle

USE DEF vars, window

-----------------------------------------------------------------------------
LEMMA Distributes == \A c, i \in Nat : (c + 1) * i = c * i + i
  OBVIOUS

LEMMA Cancels ==
  ASSUME NEW c \in Nat, NEW d \in Nat, NEW i \in Nat \ {0}, c * i < d * i
  PROVE  c < d
<1> SUFFICES ASSUME d <= c PROVE FALSE
  OBVIOUS
<1>1. PICK k \in Nat : c = d + k
  <2>1. c - d \in Nat /\ c = d + (c - d)
    OBVIOUS
  <2> QED
    BY <2>1
<1>2. c * i = d * i + k * i /\ k * i \in Nat /\ d * i \in Nat
  BY <1>1
<1> QED
  BY <1>2

LEMMA PeriodType ==
  \A l \in Limiters : Limit[l] \in Nat \ {0} /\ Interval[l] \in Nat \ {0} /\ Period(l) \in Nat
<1> SUFFICES ASSUME NEW l \in Limiters
             PROVE  Limit[l] \in Nat \ {0} /\ Interval[l] \in Nat \ {0} /\ Period(l) \in Nat
  OBVIOUS
<1>1. Limit[l] \in Nat \ {0} /\ Interval[l] \in Nat \ {0}
  BY LimitsAssumption
<1> QED
  BY <1>1 DEF Period

(* What a charge changes, whether or not its reply arrives. *)
LEMMA ChargeStep ==
  ASSUME TypeOK, WindowInv, NEW l \in Limiters, Charge(l), UNCHANGED <<elapsed, losses>>,
         \/ count' = Counted(count, l) /\ lost' = lost
         \/ lost' = Counted(lost, l) /\ count' = count
  PROVE  /\ debt' \in [Limiters -> Nat]
         /\ count' \in [Limiters -> Nat] /\ lost' \in [Limiters -> Nat]
         /\ \A k \in Limiters : debt'[k] <= Period(k)
         /\ WindowInv'
<1> USE DEF TypeOK, Charge, Room
<1>1. /\ debt[l] \in Nat /\ count[l] \in Nat /\ lost[l] \in Nat /\ elapsed[l] \in Nat
      /\ Interval[l] \in Nat /\ Period(l) \in Nat
  BY PeriodType
<1>2. /\ debt' = [debt EXCEPT ![l] = debt[l] + Interval[l]]
      /\ debt[l] + Interval[l] \in Nat /\ debt[l] + Interval[l] <= Period(l)
  BY <1>1
<1>3. /\ count' \in [Limiters -> Nat] /\ lost' \in [Limiters -> Nat]
      /\ Observed(l) => Charges(l)' = Charges(l) + 1
      /\ \A k \in Limiters \ {l} : Charges(k)' = Charges(k) /\ debt'[k] = debt[k]
  BY <1>1, <1>2 DEF Counted, Charges
<1>4. ASSUME NEW k \in Limiters \ {l}, Observed(k)
      PROVE  /\ losses'[k] = 0 => Charged(k)' <= debt'[k] + elapsed[k]
             /\ debt'[k] + elapsed[k] <= Period(k) + Charged(k)'
  BY <1>3, <1>4 DEF WindowInv, Charged
<1>5. ASSUME Observed(l)
      PROVE  /\ losses'[l] = 0 => Charged(l)' <= debt'[l] + elapsed[l]
             /\ debt'[l] + elapsed[l] <= Period(l) + Charged(l)'
  <2>1. Charged(l)' = Charged(l) + Interval[l] /\ Charged(l) \in Nat
    BY <1>1, <1>3, <1>5, Distributes DEF Charged, Charges
  <2>2. /\ losses[l] = 0 => Charged(l) <= debt[l] + elapsed[l]
        /\ debt[l] + elapsed[l] <= Period(l) + Charged(l)
    BY <1>5 DEF WindowInv
  <2>3. debt'[l] = debt[l] + Interval[l]
    BY <1>2
  <2> QED
    BY <1>1, <2>1, <2>2, <2>3
<1>6. WindowInv'
  <2>1. \A k \in Limiters : Observed(k)' = Observed(k) /\ Period(k)' = Period(k)
    BY DEF Observed, Period
  <2> QED
    BY <1>4, <1>5, <2>1 DEF WindowInv, Charged, Period
<1> QED
  BY <1>2, <1>3, <1>6

LEMMA IdleStep == TypeOK /\ Idle /\ [Next]_vars => Idle'
<1> SUFFICES ASSUME TypeOK, Idle, [Next]_vars PROVE Idle'
  OBVIOUS
<1> USE DEF TypeOK, Idle, Observed
<1>p. \A l \in Limiters : Period(l) \in Nat /\ Period(l)' = Period(l)
  BY PeriodType DEF Period
<1>0. ASSUME NEW l \in Limiters, UNCHANGED elapsed,
             count' \in {count, Counted(count, l)}, lost' \in {lost, Counted(lost, l)},
             losses' \in {losses, Counted(losses, l)}
      PROVE  Idle'
  BY <1>p, <1>0 DEF Counted
<1>1. ASSUME NEW r \in Requests, Arrive(r) \/ Refuse(r) PROVE Idle'
  BY <1>p, <1>1 DEF Arrive, Refuse, RefuseIt
<1>2. ASSUME NEW r \in Requests, Allow(r) \/ Retry(r) \/ FailOpen(r) PROVE Idle'
  BY <1>0, <1>2 DEF Allow, Retry, FailOpen, ReplyLost
<1>3. CASE Tick
  BY <1>p, <1>3 DEF Tick, Age
<1>4. ASSUME NEW l \in Limiters, LoseCharges(l) PROVE Idle'
  BY <1>0, <1>4 DEF LoseCharges
<1>5. ASSUME NEW l \in Limiters, Observe(l) PROVE Idle'
  BY <1>p, <1>5 DEF Observe
<1>6. CASE UNCHANGED vars
  BY <1>p, <1>6
<1> QED
  BY <1>1, <1>2, <1>3, <1>4, <1>5, <1>6 DEF Next

(* Every step keeps both halves. *)
LEMMA Inductive == IInv /\ [Next]_vars => IInv'
<1> SUFFICES ASSUME IInv, [Next]_vars PROVE IInv'
  OBVIOUS
<1> USE DEF IInv, TypeOK
<1>p. \A l \in Limiters :
        /\ Interval[l] \in Nat \ {0} /\ Period(l) \in Nat
        /\ Charges(l) \in Nat /\ Charged(l) \in Nat
  BY PeriodType DEF Charged, Charges
<1>w. ASSUME UNCHANGED <<debt, window>> PROVE WindowInv'
  BY <1>w DEF WindowInv, Charged, Charges, Observed, Period
<1>1. ASSUME NEW r \in Requests, Arrive(r) PROVE TypeOK' /\ WindowInv'
  BY <1>1, <1>w DEF Arrive, Limiters, Period
<1>2. ASSUME NEW r \in Requests, Refuse(r) PROVE TypeOK' /\ WindowInv'
  BY <1>2, <1>w, LimitsAssumption DEF Refuse, RefuseIt, Period
<1>c. ASSUME NEW r \in Requests, Continue(r)
      PROVE  /\ pc' \in [Requests -> Limiters \cup {"passed", "refused"}]
             /\ tries' \in [Requests -> 0..MaxRetries]
  BY <1>c, LimitsAssumption DEF Continue, Limiters
<1>3. ASSUME NEW l \in Limiters, ReplyLost(l), UNCHANGED <<count, elapsed, losses>>
      PROVE  /\ debt' \in [Limiters -> Nat]
             /\ count' \in [Limiters -> Nat] /\ lost' \in [Limiters -> Nat]
             /\ \A k \in Limiters : debt'[k] <= Period(k)
             /\ WindowInv'
  <2>1. CASE Charge(l) /\ lost' = Counted(lost, l)
    BY <1>3, <2>1, ChargeStep
  <2>2. CASE UNCHANGED <<debt, lost>>
    BY <1>3, <2>2, <1>w
  <2> QED
    BY <1>3, <2>1, <2>2 DEF ReplyLost
<1>4. ASSUME NEW r \in Requests, Allow(r) PROVE TypeOK' /\ WindowInv'
  BY <1>4, <1>c, ChargeStep DEF Allow, Period
<1>5. ASSUME NEW r \in Requests, Retry(r) PROVE TypeOK' /\ WindowInv'
  <2>1. tries' \in [Requests -> 0..MaxRetries]
    BY <1>5, LimitsAssumption DEF Retry
  <2> QED
    BY <1>3, <1>5, <2>1 DEF Retry, Period
<1>9. ASSUME NEW r \in Requests, FailOpen(r) PROVE TypeOK' /\ WindowInv'
  <2>1. CASE ReplyLost(pc[r])
    BY <1>3, <1>9, <1>c, <2>1 DEF FailOpen, Period
  <2>2. CASE UNCHANGED <<debt, lost>>
    BY <1>9, <1>c, <1>w, <2>2 DEF FailOpen, Period
  <2> QED
    BY <1>9, <2>1, <2>2 DEF FailOpen
<1>6. ASSUME Tick PROVE TypeOK' /\ WindowInv'
  <2> USE <1>6 DEF Tick, Age
  <2>1. ASSUME NEW l \in Limiters
        PROVE  /\ debt'[l] = IF debt[l] = 0 THEN 0 ELSE debt[l] - 1
               /\ debt'[l] \in Nat /\ debt'[l] <= Period(l)
               /\ elapsed'[l] = IF Observed(l) THEN elapsed[l] + 1 ELSE elapsed[l]
               /\ elapsed'[l] \in Nat /\ elapsed'[l] <= Period(l) + 1
    BY <1>p DEF Observed
  <2>2. ASSUME NEW l \in Limiters, elapsed'[l] <= Period(l)
        PROVE  /\ losses'[l] = 0 => Charged(l)' <= debt'[l] + elapsed'[l]
               /\ debt'[l] + elapsed'[l] <= Period(l) + Charged(l)'
    <3>0. debt[l] \in Nat /\ elapsed[l] \in Nat
      OBVIOUS
    <3>1. elapsed[l] < Period(l) /\ Observed(l) /\ elapsed'[l] = elapsed[l] + 1
      BY <2>1, <2>2, <3>0, <1>p DEF Observed
    <3>2. /\ losses[l] = 0 => Charged(l) <= debt[l] + elapsed[l]
          /\ debt[l] + elapsed[l] <= Period(l) + Charged(l)
      BY <3>1 DEF WindowInv
    <3>3. losses'[l] = losses[l] /\ Charged(l)' = Charged(l)
      BY <3>1 DEF Charged, Charges
    <3> QED
      BY <1>p, <2>1, <2>2, <3>0, <3>1, <3>2, <3>3
  <2>3. debt' \in [Limiters -> Nat] /\ elapsed' \in [Limiters -> Nat]
    BY <2>1
  <2>4. /\ count' \in [Limiters -> Nat] /\ lost' \in [Limiters -> Nat]
        /\ losses' \in [Limiters -> 0..MaxLosses]
    BY LimitsAssumption
  <2> QED
    BY <2>1, <2>2, <2>3, <2>4 DEF WindowInv, Observed, Period
<1>7. ASSUME NEW l \in Limiters, Observe(l) PROVE TypeOK' /\ WindowInv'
  <2> USE <1>7 DEF Observe
  <2>1. /\ elapsed'[l] = 0 /\ debt'[l] \in Nat /\ debt'[l] <= Period(l)
        /\ \A k \in Limiters \ {l} : elapsed'[k] = elapsed[k]
    OBVIOUS
  <2>2. \A k \in Limiters : ~Observed(k) => Charges(k) = 0 /\ losses[k] = 0
    BY DEF Idle, Charges
  <2>3. WindowInv'
    <3>1. ~Observed(l) /\ Charged(l)' = 0
      BY <1>p, <2>2 DEF Charged, Charges
    <3>2. \A k \in Limiters \ {l} : ~Observed(k)'
      BY <2>1 DEF Observed, Period
    <3> QED
      BY <1>p, <2>1, <3>1, <3>2 DEF WindowInv, Observed, Period
  <2>4. \A k \in Limiters : elapsed'[k] <= Period(k) + 1
    BY <1>p, <2>1
  <2> QED
    BY <2>1, <2>3, <2>4 DEF Period
<1>10. ASSUME NEW l \in Limiters, LoseCharges(l) PROVE TypeOK' /\ WindowInv'
  <2> USE <1>10 DEF LoseCharges, Counted
  <2>0. PICK d \in 0..debt[l] : debt' = [debt EXCEPT ![l] = d]
    OBVIOUS
  <2>1. /\ debt[l] \in Nat /\ d \in Nat /\ d <= debt[l] /\ debt'[l] = d
        /\ \A k \in Limiters \ {l} : debt'[k] = debt[k] /\ losses'[k] = losses[k]
    BY <2>0
  <2>2. losses' \in [Limiters -> 0..MaxLosses] /\ (Observed(l) => losses'[l] # 0)
    BY LimitsAssumption
  <2>3. debt' \in [Limiters -> Nat] /\ \A k \in Limiters : debt'[k] <= Period(k)
    BY <1>p, <2>0, <2>1
  <2>4. ASSUME NEW k \in Limiters, Observed(k)
        PROVE  /\ losses'[k] = 0 => Charged(k) <= debt'[k] + elapsed[k]
               /\ debt'[k] + elapsed[k] <= Period(k) + Charged(k)
    <3>1. elapsed[k] \in Nat /\ debt[k] + elapsed[k] <= Period(k) + Charged(k)
      BY <2>4 DEF WindowInv
    <3>2. CASE k = l
      BY <1>p, <2>1, <2>2, <2>4, <3>1, <3>2
    <3>3. CASE k # l
      BY <2>1, <2>4, <3>3 DEF WindowInv
    <3> QED
      BY <3>2, <3>3
  <2>5. WindowInv'
    BY <2>4 DEF WindowInv, Observed, Period, Charged, Charges
  <2> QED
    BY <2>2, <2>3, <2>5 DEF Period
<1>8. ASSUME UNCHANGED vars PROVE TypeOK' /\ WindowInv'
  BY <1>8, <1>w DEF Period
<1> QED
  BY <1>1, <1>2, <1>4, <1>5, <1>6, <1>7, <1>8, <1>9, <1>10, IdleStep DEF Next

(* The parts of IInv hold initially and are kept by every step.             *)
THEOREM Invariance == Spec => []IInv
<1>1. Init => IInv
  BY PeriodType, LimitsAssumption DEF Init, IInv, TypeOK, WindowInv, Idle, Observed
<1> QED
  BY <1>1, Inductive, PTL DEF Spec

(* Type correctness, for all limits and intervals.                          *)
THEOREM TypeCorrectness == Spec => []TypeOK
<1>1. IInv => TypeOK
  BY DEF IInv
<1> QED
  BY <1>1, Invariance, PTL

(* At any time of any window, not only at its end: as long as Redis keeps   *)
(* the bucket, no more is charged in it than a full bucket and the refill   *)
(* since it began; and what the bucket lacks beyond the rest of the period  *)
(* was charged in it, for requests or for replies that were lost.           *)
THEOREM ChargedRate ==
  Spec => [](\A l \in Limiters : Observed(l) =>
               /\ losses[l] = 0 => (count[l] + lost[l]) * Interval[l] <= Period(l) + elapsed[l]
               /\ debt[l] <= Period(l) - elapsed[l] + (count[l] + lost[l]) * Interval[l])
<1>1. IInv => \A l \in Limiters : Observed(l) =>
                /\ losses[l] = 0 => (count[l] + lost[l]) * Interval[l] <= Period(l) + elapsed[l]
                /\ debt[l] <= Period(l) - elapsed[l] + (count[l] + lost[l]) * Interval[l]
  <2> SUFFICES ASSUME IInv, NEW l \in Limiters, Observed(l)
               PROVE  /\ losses[l] = 0 => Charged(l) <= Period(l) + elapsed[l]
                      /\ debt[l] <= Period(l) - elapsed[l] + Charged(l)
    BY DEF Charged, Charges
  <2>1. /\ debt[l] \in Nat /\ elapsed[l] \in Nat /\ Charges(l) \in Nat /\ debt[l] <= Period(l)
        /\ Interval[l] \in Nat /\ Period(l) \in Nat
    BY PeriodType DEF IInv, TypeOK, Charges
  <2>2. Charged(l) \in Nat
    BY <2>1 DEF Charged
  <2>3. /\ losses[l] = 0 => Charged(l) <= debt[l] + elapsed[l]
        /\ debt[l] + elapsed[l] <= Period(l) + Charged(l)
    BY DEF IInv, WindowInv
  <2> QED
    BY <2>1, <2>2, <2>3
<1> QED
  BY <1>1, Invariance, PTL

(* For every limit, period and window: a bucket that Redis keeps is charged *)
(* less than twice the limit.                                               *)
THEOREM WindowBound == Spec => []LessThanTwice
<1>1. IInv => LessThanTwice
  <2> SUFFICES ASSUME IInv, NEW l \in Limiters, losses[l] = 0, elapsed[l] < Period(l)
               PROVE  Charges(l) < 2 * Limit[l]
    BY DEF LessThanTwice, Charges
  <2> USE PeriodType DEF IInv, TypeOK
  <2>1. /\ Limit[l] \in Nat /\ Interval[l] \in Nat \ {0} /\ Period(l) \in Nat
        /\ debt[l] \in Nat /\ elapsed[l] \in Nat /\ Charges(l) \in Nat
        /\ debt[l] <= Period(l)
    BY DEF Charges
  <2>2. Charged(l) <= debt[l] + elapsed[l]
    BY <2>1 DEF WindowInv, Observed
  <2>3. (2 * Limit[l]) * Interval[l] = Period(l) + Period(l)
    BY <2>1 DEF Period
  <2>4. Charges(l) * Interval[l] < (2 * Limit[l]) * Interval[l]
    BY <2>1, <2>2, <2>3 DEF Charged
  <2> QED
    BY <2>1, <2>4, Cancels
<1> QED
  BY <1>1, Invariance, PTL

(* For every limit, period and window, and however often go-redis repeats   *)
(* the script: a client is only refused when what it was allowed and the    *)
(* replies that were lost use up the limit.                                 *)
THEOREM LimitIsGranted == Spec => RefusedAtLimitOnly
<1>1. ASSUME IInv, [Next]_vars, NEW r \in Requests, NEW l \in Limiters,
             pc[r] = l, pc'[r] = "refused", elapsed[l] = Period(l)
      PROVE  count[l] + lost[l] >= Limit[l]
  <2>0. ASSUME Charges(l) \in Nat, Interval[l] \in Nat
        PROVE  (Charges(l) + 1) * Interval[l] = Charged(l) + Interval[l] /\ Charged(l) \in Nat
    BY <2>0, Distributes DEF Charged
  <2> USE PeriodType DEF IInv, TypeOK
  <2>1. /\ Limit[l] \in Nat /\ Interval[l] \in Nat \ {0} /\ Period(l) \in Nat
        /\ debt[l] \in Nat /\ Charges(l) \in Nat
    BY <1>1 DEF Charges
  <2>2. l # "refused"
    BY DEF Limiters
  <2>3. PICK q \in Requests : Refuse(q)
    <3>1. ~UNCHANGED pc
      BY <1>1, <2>2
    <3>2. ASSUME NEW q \in Requests, Arrive(q) \/ Continue(q) PROVE FALSE
      BY <1>1, <2>2, <3>2 DEF Arrive, Continue
    <3> QED
      BY <1>1, <3>1, <3>2 DEF Next, Allow, Retry, FailOpen, Tick, LoseCharges, Observe
  <2>r. ~Room(l)
    BY <1>1, <2>2, <2>3 DEF Refuse, RefuseIt
  <2>4. debt[l] <= Charged(l)
    <3>1. Charged(l) \in Nat
      BY <2>1 DEF Charged
    <3>2. debt[l] + Period(l) <= Period(l) + Charged(l)
      BY <1>1, <2>1 DEF WindowInv, Observed
    <3> QED
      BY <2>1, <3>1, <3>2
  <2>5. Limit[l] * Interval[l] < (Charges(l) + 1) * Interval[l]
    <3>1. (Charges(l) + 1) * Interval[l] = Charged(l) + Interval[l] /\ Charged(l) \in Nat
      BY <2>0, <2>1
    <3>2. Period(l) < debt[l] + Interval[l]
      BY <2>1, <2>r DEF Room
    <3>3. Limit[l] * Interval[l] = Period(l)
      BY DEF Period
    <3> QED
      BY <2>1, <2>4, <3>1, <3>2, <3>3
  <2>6. Limit[l] < Charges(l) + 1
    BY <2>1, <2>5, Cancels
  <2> QED
    BY <2>1, <2>6 DEF Charges
<1>2. IInv /\ [Next]_vars =>
        [\A r \in Requests : \A l \in Limiters :
           pc[r] = l /\ pc'[r] = "refused" /\ elapsed[l] = Period(l)
             => count[l] + lost[l] >= Limit[l]]_vars
  BY <1>1
<1> QED
  BY <1>2, Invariance, PTL DEF Spec, RefusedAtLimitOnly
=============================================================================
