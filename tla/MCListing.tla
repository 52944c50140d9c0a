----------------------------- MODULE MCListing -----------------------------
(* Small instances of Listing for TLC. *)
EXTENDS Listing, TLC

CONSTANTS a, b, c

(* No two rows share an ID, an email or a time; two share a name.           *)
MCPlace ==
  [k \in Columns |->
     CASE k = "created_at" -> a :> 3 @@ b :> 1 @@ c :> 2
       [] k = "name"       -> a :> 1 @@ b :> 1 @@ c :> 2
       [] OTHER            -> a :> 1 @@ b :> 2 @@ c :> 3]

MCPlaces == 1..4
MCBounds == {0, 2, 3}
=============================================================================
