------------------------------ MODULE MCWorld ------------------------------
(***************************************************************************)
(* Values for TLC for the parts of the companion world: its feed, the      *)
(* residents that come and go, and the visits of people to each other.     *)
(* Their rows are disjoint as far as the models tell them apart, so a      *)
(* behaviour moves one part, the one in focus, and TLC explores the sum of *)
(* their states, not the product.                                          *)
(***************************************************************************)
EXTENDS WorldFeed, WorldCast, WorldVisits, TLC

CONSTANTS Parts  \* the parts a run looks at

\* Model values that a definition below names.
CONSTANTS d1, i1, i2

VARIABLE focus

worldVars == <<feedVars, castVars, visitVars>>

\* Both requests name the one draft: a client that asks twice.
MCDraftOf == [q \in Request |-> d1]

\* Three people: two invite each other, and the second of them also a third one.
MCOwnerOf == i1 :> 1 @@ i2 :> 2
MCGuests == i1 :> {2} @@ i2 :> {1, 3}

Init == /\ focus \in Parts
        /\ FeedInit /\ CastInit /\ VisitInit

Next ==
    /\ UNCHANGED focus
    /\ \/ /\ focus = "feed"
          /\ FeedNext
          /\ UNCHANGED <<castVars, visitVars>>
       \/ /\ focus = "cast"
          /\ CastNext
          /\ UNCHANGED <<feedVars, visitVars>>
       \/ /\ focus = "visits"
          /\ VisitNext
          /\ UNCHANGED <<feedVars, castVars>>

WorldSpec == Init /\ [][Next]_<<focus, worldVars>>

SessionSymmetry == Permutations(VisitTx)
=============================================================================
