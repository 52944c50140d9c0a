--------------------------- MODULE EventDelivery ---------------------------
(***************************************************************************)
(* What the event pipeline promises the client of POST /events: an event   *)
(* answered with 202 is queued by then, a queued event can only become     *)
(* stored, and that happens at most once. A 500 promises nothing: the      *)
(* event may have been queued, be queued later, or never. Which event is   *)
(* stored first, and whether every event ever is, is left open.            *)
(***************************************************************************)
CONSTANT Events

VARIABLES
  status,  \* "new", then "queued", then "stored"
  answer   \* "none", then the status code the client got

vars == <<status, answer>>

TypeOK ==
  /\ status \in [Events -> {"new", "queued", "stored"}]
  /\ answer \in [Events -> {"none", "202", "500"}]

Init ==
  /\ status = [e \in Events |-> "new"]
  /\ answer = [e \in Events |-> "none"]

Queue(e) ==
  /\ status[e] = "new"
  /\ answer[e] # "202"
  /\ status' = [status EXCEPT ![e] = "queued"]
  /\ UNCHANGED answer

Accept(e) ==
  /\ answer[e] = "none"
  /\ status[e] # "new"
  /\ answer' = [answer EXCEPT ![e] = "202"]
  /\ UNCHANGED status

Refuse(e) ==
  /\ answer[e] = "none"
  /\ answer' = [answer EXCEPT ![e] = "500"]
  /\ UNCHANGED status

Store(e) ==
  /\ status[e] = "queued"
  /\ status' = [status EXCEPT ![e] = "stored"]
  /\ UNCHANGED answer

Next == \E e \in Events : Queue(e) \/ Accept(e) \/ Refuse(e) \/ Store(e)

Spec == Init /\ [][Next]_vars
=============================================================================
