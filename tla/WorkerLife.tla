----------------------------- MODULE WorkerLife -----------------------------
(***************************************************************************)
(* The life of the worker processes, as far as the broker and the operator *)
(* can tell. Startup looks into one such process, EventPipeline at what    *)
(* all of them do to the messages; both implement this, so that a worker   *)
(* that runs in one is a worker that runs in the other.                    *)
(***************************************************************************)
CONSTANT Workers

VARIABLES
  life,  \* "down", "subscribed", or "deaf": running without a connection
  busy   \* the workers with a message in hand or in the buffer

vars == <<life, busy>>

Init ==
  /\ life = [w \in Workers |-> "down"]
  /\ busy = {}

Become(w, next) == life' = [life EXCEPT ![w] = next]

(* A process starts with nothing to do, and serves once it is subscribed. *)
Subscribe(w) ==
  /\ life[w] = "down"
  /\ Become(w, "subscribed")
  /\ UNCHANGED busy

(* Only a subscribed worker is given messages. *)
Take(w) ==
  /\ life[w] = "subscribed"
  /\ busy' = busy \cup {w}
  /\ UNCHANGED life

Finish(w) ==
  /\ busy' = busy \ {w}
  /\ UNCHANGED life

(* The connection is gone for good. What is in hand may go on, and nothing  *)
(* but the end of the process makes the worker hear again.                  *)
GoDeaf(w) ==
  /\ life[w] = "subscribed"
  /\ Become(w, "deaf")
  /\ busy' \in {busy, busy \ {w}}

(* The process ends, and what it had in hand with it. *)
End(w) ==
  /\ Become(w, "down")
  /\ busy' = busy \ {w}

Next == \E w \in Workers : Subscribe(w) \/ Take(w) \/ Finish(w) \/ GoDeaf(w) \/ End(w)

Spec == Init /\ [][Next]_vars
=============================================================================
