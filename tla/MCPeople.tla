------------------------------ MODULE MCPeople ------------------------------
(***************************************************************************)
(* Values for TLC for what a person meets: signing in with a phone, the    *)
(* turns of a conversation on WeChat, the nudges to somebody who has gone  *)
(* quiet, the rooms of Plum, and the WeChat that an account is bound       *)
(* to.                                                                     *)
(* Their rows are disjoint as far as the models tell them apart, so a      *)
(* behaviour moves one part, the one in focus, and leaves the others as    *)
(* they begin: TLC explores the sum of their states, not the product.  The *)
(* turns of a conversation are two parts, of an account that is at home    *)
(* and of one that is welcomed; what else a part leaves out is said here.  *)
(***************************************************************************)
EXTENDS SignIn, ChatTurn, Reactivation, PlumRooms, ChannelBinding, TLC

CONSTANTS Parts  \* the parts a run looks at

VARIABLE focus

peopleVars == <<signInVars, chatVars, reactivationVars, roomVars, bindingVars>>

\* The last message is posted once the session was reset, and only the second
\* one asks for that; an account that is welcomed makes do without it.
OneReset ==
    /\ posts' = MaxPosts => focus = "turns" /\ life = MaxResets
    /\ posts' # posts /\ posts' # 2 =>
           \A h \in Handler : turn[h].pc = "idle" => turn'[h].msg \notin ResetText

\* The person writes before the slots of a day, when there is a candidate.
SpeaksEarly == said' # said => plans # <<>> /\ clock.slot = 0

\* One of the intents belongs to a first account of a person only.
FewQrCodes == scanWait'[CHOOSE i \in Intent : TRUE].account \in {NoOne} \cup (Person \X {1})

Init ==
    /\ focus \in Parts
    /\ SignInInit /\ ChatInit /\ ReactivationInit /\ RoomsInit
    /\ BindingInit
    /\ stage = IF focus = "welcome" THEN "pending" ELSE "complete"

Next ==
    /\ UNCHANGED focus
    /\ \/ /\ focus = "signing in"
          /\ SignInNext
          /\ UNCHANGED <<chatVars, reactivationVars, roomVars, bindingVars>>
       \/ /\ focus \in {"turns", "welcome"}
          /\ ChatNext
          /\ OneReset
          /\ UNCHANGED <<signInVars, reactivationVars, roomVars, bindingVars>>
       \/ /\ focus = "nudges"
          /\ ReactivationNext
          /\ SpeaksEarly
          /\ UNCHANGED <<signInVars, chatVars, roomVars, bindingVars>>
       \/ /\ focus = "rooms"
          /\ RoomsNext
          /\ UNCHANGED <<signInVars, chatVars, reactivationVars, bindingVars>>
       \/ /\ focus = "channels"
          /\ BindingNext
          /\ FewQrCodes
          /\ UNCHANGED <<signInVars, chatVars, reactivationVars, roomVars>>

PeopleSpec == Init /\ [][Next]_<<focus, peopleVars>>
=============================================================================
