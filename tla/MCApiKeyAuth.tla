---------------------------- MODULE MCApiKeyAuth ----------------------------
(* Small instances of ApiKeyAuth for TLC. *)
EXTENDS ApiKeyAuth, TLC

CONSTANTS a1, k1, p1, p2

(* One key, which belongs to the account a1. *)
MCKeyOwner == k1 :> a1
=============================================================================
