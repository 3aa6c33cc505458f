--------------------------- MODULE MCPlumStream ---------------------------
(***************************************************************************)
(* Values for TLC: two requests with one key (a client that sends a turn   *)
(* again) and a third for another turn of the same conversation.           *)
(***************************************************************************)
EXTENDS PlumStream, TLC

CONSTANTS r1, r2, r3, k1, k2, m1, m2

RetriedKeyOf == r1 :> k1 @@ r2 :> k1 @@ r3 :> k2
RetriedMessageOf == r1 :> m1 @@ r2 :> m1 @@ r3 :> m2

\* The two requests with one key are interchangeable.
RetrySymmetry == Permutations({r1, r2})

\* Turns with keys of their own; the second repeats the message of the first.
SeparateKeyOf == r1 :> k1 @@ r2 :> k2
SeparateMessageOf == r1 :> m1 @@ r2 :> m1
=============================================================================
