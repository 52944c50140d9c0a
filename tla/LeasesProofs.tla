---------------------------- MODULE LeasesProofs ----------------------------
(***************************************************************************)
(* Proofs about Leases: what a copy says was true a short while ago. The   *)
(* modules that implement Leases inherit the bound.                        *)
(***************************************************************************)
EXTENDS Leases, TLAPS

(* Durations are natural numbers; a module that implements Leases says so   *)
(* of its own constants.                                                    *)
Durations == Life \in Nat /\ Delay \in Nat /\ Horizon \in Nat

(* The clock of a fact that holds stands at zero: what makes a look at the  *)
(* fact as fresh as the look itself.                                        *)
ClockInv == \A f \in holds : since[f] = 0

IInv == TypeOK /\ ClockInv /\ Recent

(* IInv holds initially and every step keeps it. *)
THEOREM Invariance == ASSUME Durations PROVE Spec => []IInv
<1> USE DEF Durations, IInv, TypeOK, ClockInv, Recent
<1>1. ASSUME Init PROVE IInv
  <2>1. holds \subseteq Facts
    BY <1>1 DEF Init
  <2>2. since \in [Facts -> Nat] /\ left \in [Facts -> Nat]
    BY <1>1 DEF Init
  <2>3. \A f \in Facts : left[f] = 0 /\ (f \in holds => since[f] = 0)
    BY <1>1 DEF Init
  <2> QED
    BY <2>1, <2>2, <2>3
<1>2. ASSUME IInv, [Next]_vars PROVE IInv'
  <2> USE <1>2
  <2>1. CASE Change
    <3>1. /\ holds' \subseteq Facts
          /\ left' = left
          /\ since' \in [Facts -> Nat]
          /\ \A f \in Facts : since'[f] <= since[f] /\ (f \in holds' => since'[f] = 0)
      BY <2>1 DEF Change
    <3> QED
      BY <3>1
  <2>2. ASSUME NEW f \in Facts, NEW gone \in SUBSET Facts, Copy(f, gone) PROVE IInv'
    BY <2>2 DEF Copy
  <2>3. ASSUME NEW gone \in SUBSET Facts, Drop(gone) PROVE IInv'
    BY <2>3 DEF Drop
  <2>4. CASE Tick
    <3>1. /\ holds' = holds
          /\ since' \in [Facts -> Nat] /\ left' \in [Facts -> Nat]
          /\ \A f \in Facts : since'[f] <= since[f] + 1 /\ (f \in holds => since'[f] = 0)
          /\ \A f \in Facts : left'[f] > 0 => left[f] > 0 /\ left'[f] = left[f] - 1
      BY <2>4 DEF Tick
    <3> QED
      BY <3>1
  <2>5. CASE UNCHANGED vars
    BY <2>5 DEF vars
  <2> QED
    BY <2>1, <2>2, <2>3, <2>4, <2>5 DEF Next
<1> QED
  BY <1>1, <1>2, PTL DEF Spec

(* Type correctness, for every set of facts.                                *)
THEOREM TypeCorrectness == ASSUME Durations PROVE Spec => []TypeOK
<1>1. IInv => TypeOK
  BY DEF IInv
<1> QED
  BY <1>1, Invariance, PTL

(* Whatever implements Leases bounds how old its news are: a cache entry or *)
(* a token that has x ticks left says what held at most Life + Delay - x    *)
(* ticks ago.                                                               *)
THEOREM CopiesAreRecent == ASSUME Durations PROVE Spec => []Recent
<1>1. IInv => Recent
  BY DEF IInv
<1> QED
  BY <1>1, Invariance, PTL
=============================================================================
