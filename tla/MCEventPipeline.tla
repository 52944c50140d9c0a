-------------------------- MODULE MCEventPipeline --------------------------
(* Small instances of EventPipeline for TLC. *)
EXTENDS EventPipeline, TLC

CONSTANTS e1, e2, a1, k1, w1, w2

(* One key, which belongs to the account a1. *)
MCKeyOwner == k1 :> a1

(* One event is posted with the key, the other with a token. *)
MCCredential == e1 :> k1 @@ e2 :> NoKey
=============================================================================
