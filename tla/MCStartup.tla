----------------------------- MODULE MCStartup -----------------------------
(* A small instance of Startup for TLC. *)
EXTENDS Startup, TLC

CONSTANTS r1, r2

Sane == [program |-> "api", valid |-> TRUE, pool |-> TRUE, subject |-> TRUE,
         jetStream |-> FALSE, seed |-> FALSE, hashable |-> TRUE]

(* Both programs with settings that fit, and one of each kind that does not. *)
MCSettings ==
  { [Sane EXCEPT !.seed = TRUE, !.jetStream = TRUE],
    [Sane EXCEPT !.seed = TRUE, !.hashable = FALSE],
    [Sane EXCEPT !.program = "worker"],
    [Sane EXCEPT !.program = "worker", !.jetStream = TRUE],
    [Sane EXCEPT !.program = "worker", !.jetStream = TRUE, !.subject = FALSE],
    [Sane EXCEPT !.valid = FALSE],
    [Sane EXCEPT !.pool = FALSE] }

MCGrace == "api" :> 3 @@ "worker" :> 2
=============================================================================
