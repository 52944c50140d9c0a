------------------------------- MODULE Leases -------------------------------
(***************************************************************************)
(* What the API promises of everything it remembers about the database     *)
(* without asking again: the flag of a key in the Redis cache, the role in *)
(* a token. A copy is made of a fact that held when its maker looked, at   *)
(* most Delay ticks before; it lives for Life ticks from then on and is    *)
(* never prolonged, only made anew. Facts change at any time, and copies   *)
(* may get lost early.                                                     *)
(***************************************************************************)
EXTENDS Naturals

CONSTANTS
  Facts,   \* what may hold or not, such as "this key is active"
  Life,    \* of a copy, in ticks
  Delay,   \* the longest time from looking to copying
  Horizon  \* where the clocks stop: far enough back for Life and Delay

VARIABLES
  holds,  \* the facts that hold now
  since,  \* per fact, the ticks since it last held
  left    \* per fact, the ticks its newest copy has left

vars == <<holds, since, left>>

Init ==
  /\ holds \in SUBSET Facts
  /\ since = [f \in Facts |-> IF f \in holds THEN 0 ELSE Horizon]
  /\ left = [f \in Facts |-> 0]

(* Some facts become true, others cease to be; nobody tells the copies. *)
Change ==
  /\ holds' \in SUBSET Facts
  /\ since' = [f \in Facts |-> IF f \in holds' THEN 0 ELSE since[f]]
  /\ UNCHANGED left

(* A copy of f is made, perhaps in the place of others. *)
Copy(f, gone) ==
  /\ since[f] <= Delay
  /\ left' = [g \in Facts |-> IF g = f THEN Life ELSE IF g \in gone THEN 0 ELSE left[g]]
  /\ UNCHANGED <<holds, since>>

Drop(gone) ==
  /\ left' = [g \in Facts |-> IF g \in gone THEN 0 ELSE left[g]]
  /\ UNCHANGED <<holds, since>>

Tick ==
  /\ since' = [f \in Facts |-> IF f \in holds THEN 0
                               ELSE IF since[f] >= Horizon THEN since[f] ELSE since[f] + 1]
  /\ left' = [f \in Facts |-> IF left[f] = 0 THEN 0 ELSE left[f] - 1]
  /\ UNCHANGED holds

Next ==
  \/ Change
  \/ \E gone \in SUBSET Facts : Drop(gone) \/ \E f \in Facts : Copy(f, gone)
  \/ Tick

Spec == Init /\ [][Next]_vars

-----------------------------------------------------------------------------
(* Type correctness of the state. *)
TypeOK ==
  /\ holds \subseteq Facts
  /\ since \in [Facts -> Nat]
  /\ left \in [Facts -> Nat]

(* A copy outlives its fact by less than its life and the delay in making   *)
(* it, and the older the copy, the less.                                    *)
Recent == \A f \in Facts : left[f] > 0 => since[f] + left[f] <= Life + Delay
=============================================================================
