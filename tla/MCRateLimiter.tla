--------------------------- MODULE MCRateLimiter ---------------------------
(* Small instances of RateLimiter for TLC. *)
EXTENDS RateLimiter, TLC

CONSTANTS r1, r2

MCLimit == "global" :> 3 @@ "login" :> 2
MCInterval == "global" :> 1 @@ "login" :> 2
=============================================================================
