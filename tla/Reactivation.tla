---------------------------- MODULE Reactivation ----------------------------
(***************************************************************************)
(* The nudges that Zhaoxi sends to people who have gone quiet              *)
(* (app/products/zhaoxi/proactive/orchestration/planning.py, store,        *)
(* recall, delivery/dispatch.py): a planning pass asks the language model  *)
(* for a candidate and stores it in the metadata of the account's row; a   *)
(* later pass checks it again when its slot comes, sends it, or moves or   *)
(* clears it.  An operator runs the same passes by hand, without sending.  *)
(*                                                                         *)
(* One account is followed.  A step is one transaction, one answer of the  *)
(* language model or one call of the gateway.  What is sent is a row of    *)
(* outbound_messages under the key of the candidate and the day; how the   *)
(* row is delivered is the subject of Outbound.                            *)
(***************************************************************************)
EXTENDS Naturals, FiniteSets, Sequences

CONSTANTS Planner,   \* scheduler processes of the account's node
          Request,   \* requests of operators and of remote nodes that run at the same time
          Crashes,   \* whether processes die and steps raise
          MaxPlans,  \* bound on the candidates that are made
          MaxDays,   \* bound on the days
          LastSlot,  \* send slots of a day (reactivation_send_slots)
          MaxSaid    \* bound on what the person says

\* One scheduler process runs for a deployment
\* (docs/architecture/products/zhaoxi/proactive_messaging_design.md:611).
ASSUME OneScheduler == \A p, q \in Planner : p = q
ASSUME ReactivationBounds == MaxPlans \in Nat /\ MaxDays \in Nat \ {0} /\ LastSlot \in Nat /\ MaxSaid \in Nat

VARIABLES stored,     \* the candidate in the metadata of proactive_account_state
          invitation, \* status of content_invitations, by candidate
          nudge,      \* status of outbound_messages, by candidate and day
          clock,      \* the day and the slots of it that have come
          said,       \* how often the person has written
          plans,      \* for each candidate made so far, whether it is a first-day one
          nudger      \* what each process is doing

reactivationVars == <<stored, invitation, nudge, clock, said, plans, nudger>>

Plan == 1..MaxPlans
Actor == Planner \cup Request
NoCandidate == [id |-> 0, kind |-> "none", day |-> 0, slot |-> 0, said |-> 0, new |-> FALSE]
Resting == [pc |-> "idle", kind |-> "none", cand |-> NoCandidate,
            patch |-> NoCandidate, day |-> 0, then |-> "idle"]
Live == {"pending", "sent"}

Turn(a, pc) == nudger' = [nudger EXCEPT ![a].pc = pc]
Finish(a) == nudger' = [nudger EXCEPT ![a] = Resting]
\* Store the candidate p, or clear what is stored, and go on at pc.
Patch(a, p, pc) == nudger' = [nudger EXCEPT ![a] = [Resting EXCEPT !.pc = "patch", !.patch = p, !.then = pc]]
Clear(a) == Patch(a, NoCandidate, "idle")

Due(c) == c.id # 0 /\ (c.day < clock.day \/ (c.day = clock.day /\ c.slot <= clock.slot))

\* next_reactivation_slot: the next slot of the day, or the first of the next.
FirstSlot == IF clock.slot < LastSlot THEN [day |-> clock.day, slot |-> clock.slot + 1]
             ELSE [day |-> clock.day + 1, slot |-> 1]
\* _next_slot_after: the slot after the candidate's, today unless it has passed.
LaterSlot(c) == IF c.slot + 1 > clock.slot THEN [day |-> clock.day, slot |-> c.slot + 1]
                ELSE [day |-> clock.day + 1, slot |-> c.slot + 1]
Moved(c) == [c EXCEPT !.day = LaterSlot(c).day, !.slot = LaterSlot(c).slot]
\* The later slot, or nothing after the last one.
MoveOrClear(a) ==
    LET c == nudger[a].cand
    IN  IF c.slot = LastSlot THEN Clear(a) ELSE Patch(a, Moved(c), "idle")
-----------------------------------------------------------------------------
(***************************************************************************)
(* upsert_proactive_account_state.  A patch is merged into the metadata in *)
(* one statement, whatever is stored by then; any other write puts back    *)
(* the metadata that it has read.                                          *)
(***************************************************************************)
WritePatch(a) ==
    /\ nudger[a].pc = "patch"
    /\ stored' = nudger[a].patch
    /\ nudger' = [nudger EXCEPT ![a] = [Resting EXCEPT !.pc = nudger[a].then]]
    /\ UNCHANGED <<invitation, nudge, clock, said, plans>>

\* An operator edits another column of the row.
ReadForEdit(o) ==
    /\ nudger[o].pc = "idle"
    /\ nudger' = [nudger EXCEPT ![o].pc = "edit", ![o].cand = stored]
    /\ UNCHANGED <<stored, invitation, nudge, clock, said, plans>>

EditState(o) ==
    /\ nudger[o].pc = "edit"
    /\ stored' = nudger[o].cand
    /\ Finish(o)
    /\ UNCHANGED <<invitation, nudge, clock, said, plans>>
-----------------------------------------------------------------------------
(***************************************************************************)
(* Planning.                                                               *)
(***************************************************************************)
\* A check that is due is claimed; a candidate that waits is not planned over.
StartPlanning(a) ==
    /\ nudger[a].pc = "idle"
    /\ stored.id = 0
    /\ Turn(a, "recall")
    /\ UNCHANGED <<stored, invitation, nudge, clock, said, plans>>

\* The first day of an account has a plan of its own, without invitations.
NewUserPlan(a) == a \in Planner /\ clock.day = 1

MayInvite == \A i \in Plan : invitation[i] \notin {"candidate", "invited"}

\* The generators look at the account in the order of their rank, and ask the
\* model; one that declines hands over to the next.
Ask(a, kind) ==
    /\ nudger[a].pc = "recall"
    /\ Len(plans) < MaxPlans
    /\ nudger' = [nudger EXCEPT ![a].pc = "generate", ![a].kind = kind]
    /\ UNCHANGED <<stored, invitation, nudge, clock, said, plans>>

AskForTopic(a) == Ask(a, "talk")
AskForInvitation(a) == MayInvite /\ ~NewUserPlan(a) /\ Ask(a, "invite")
AskForHotTopic(a) == a \in Planner /\ Ask(a, "talk")

NothingToSay(a) ==
    /\ nudger[a].pc = "recall"
    /\ Finish(a)
    /\ UNCHANGED <<stored, invitation, nudge, clock, said, plans>>

\* The model's tool makes the row of an invitation.
WithInvitation(kind, i) ==
    IF kind = "invite" THEN [invitation EXCEPT ![i] = "candidate"] ELSE invitation

\* The model answers, and the candidate gets its slot.
Generate(a) ==
    /\ nudger[a].pc = "generate"
    /\ Len(plans) < MaxPlans
    /\ plans' = Append(plans, NewUserPlan(a))
    /\ LET kind == nudger[a].kind
           i == Len(plans')
           c == [id |-> i, kind |-> kind, day |-> FirstSlot.day, slot |-> FirstSlot.slot,
                 said |-> said, new |-> NewUserPlan(a)]
       IN  /\ invitation' = WithInvitation(kind, i)
           /\ Patch(a, c, IF c.new /\ c.day > 1 THEN "window" ELSE "idle")
    /\ UNCHANGED <<stored, nudge, clock, said>>

\* A first-day candidate whose slot is later than the window is cleared again.
OutsideWindow(a) ==
    /\ nudger[a].pc = "window"
    /\ Clear(a)
    /\ UNCHANGED <<stored, invitation, nudge, clock, said, plans>>
-----------------------------------------------------------------------------
(***************************************************************************)
(* Dispatch: the candidate is read, checked again, and sent.               *)
(***************************************************************************)
TakeDue(a) ==
    /\ nudger[a].pc = "idle"
    /\ Due(stored)
    /\ nudger' = [nudger EXCEPT ![a].pc = "check", ![a].cand = stored, ![a].day = clock.day]
    /\ UNCHANGED <<stored, invitation, nudge, clock, said, plans>>

\* run-once of an operator: dispatch without sending, and planning where the
\* dispatch found nothing to do.
RunOnce(o) ==
    /\ nudger[o].pc = "idle"
    /\ \/ stored.id = 0 /\ Turn(o, "recall")
       \/ /\ Due(stored)
          /\ nudger' = [nudger EXCEPT ![o].pc = "check", ![o].cand = stored, ![o].day = clock.day]
    /\ UNCHANGED <<stored, invitation, nudge, clock, said, plans>>

\* _has_sent_reactivation_today, which first-day candidates are exempt from.
SentToday(a) == ~nudger[a].cand.new /\ \E i \in Plan : nudge[i][nudger[a].day] \in Live

\* Variant: a text of another day is not a repetition.
RepeatsToday(c) == nudge[c.id][clock.day] \in Live

\* rule_reactivation_dedupe_check, within reactivation_dedupe_days.
Repeats(c) == \E d \in 1..MaxDays : nudge[c.id][d] \in Live

\* The person has been nudged today, or has written since the candidate was
\* made, or a reminder is near, or the text has been sent before.
Recheck(a) ==
    /\ nudger[a].pc = "check"
    /\ IF SentToday(a) \/ said > nudger[a].cand.said THEN Clear(a)
       ELSE \/ MoveOrClear(a)
            \/ IF Repeats(nudger[a].cand) THEN Clear(a)
               ELSE Turn(a, IF nudger[a].cand.kind = "invite" THEN "claim" ELSE "send")
    /\ UNCHANGED <<stored, invitation, nudge, clock, said, plans>>

\* The person cannot be reached: an operator's run plans anew at once; without
\* a route the candidate is left as it is.
Unreachable(a) ==
    /\ nudger[a].pc \in {"claim", "send"}
    /\ \/ Patch(a, NoCandidate, IF a \in Request THEN "recall" ELSE "idle")
       \/ Finish(a)
    /\ UNCHANGED <<stored, invitation, nudge, clock, said, plans>>

ClaimInvitation(a) ==
    /\ nudger[a].pc = "claim" /\ a \in Planner
    /\ LET i == nudger[a].cand.id
       IN  IF invitation[i] = "candidate"
           THEN invitation' = [invitation EXCEPT ![i] = "sending"] /\ Turn(a, "send")
           ELSE Clear(a) /\ UNCHANGED invitation
    /\ UNCHANGED <<stored, nudge, clock, said, plans>>

\* dispatch_proactive_text: a row under the key of the candidate and the day,
\* which is sent at once, waits for its node, or fails or is refused; a
\* row that is there already answers for itself.
Send(a) ==
    /\ nudger[a].pc = "send" /\ a \in Planner
    /\ LET i == nudger[a].cand.id
           d == nudger[a].day
       IN  \E outcome \in IF nudge[i][d] = "none" THEN {"sent", "pending", "failed"}
                          ELSE {nudge[i][d]} :
               /\ nudge' = [nudge EXCEPT ![i][d] = outcome]
               /\ nudger' = [nudger EXCEPT ![a].pc = outcome]
    /\ UNCHANGED <<stored, invitation, clock, said, plans>>

Invited(a) == nudger[a].pc = "sent"

\* The invitation's row follows the message: invited, or free to try again.
InvitationAfter(a) ==
    LET i == nudger[a].cand.id
    IN  IF invitation[i] # "sending" THEN invitation
        ELSE IF Invited(a) THEN [invitation EXCEPT ![i] = "invited"]
        ELSE IF nudger[a].pc = "pending" THEN invitation
        ELSE [invitation EXCEPT ![i] = "candidate"]

Settle(a) ==
    /\ nudger[a].pc \in {"sent", "pending", "failed"}
    /\ invitation' = InvitationAfter(a)
    /\ CASE nudger[a].pc = "sent" -> Clear(a)
         [] nudger[a].pc = "pending" -> Finish(a)
         [] nudger[a].pc = "failed" ->
                IF a \in Request THEN Finish(a) ELSE MoveOrClear(a)
    /\ UNCHANGED <<stored, nudge, clock, said, plans>>

\* The node of the account reports the end of a message; for an invitation the
\* centre goes on as the dispatch would have.
Report(n) ==
    /\ nudger[n].pc = "idle"
    /\ \E i \in Plan, d \in 1..MaxDays, outcome \in {"sent", "failed"} :
           /\ nudge[i][d] = "pending"
           /\ nudge' = [nudge EXCEPT ![i][d] = outcome]
           /\ IF invitation[i] = "none" THEN UNCHANGED nudger
              ELSE nudger' = [nudger EXCEPT ![n].pc = outcome, ![n].cand.id = i]
    /\ UNCHANGED <<stored, invitation, clock, said, plans>>
-----------------------------------------------------------------------------
Speak ==
    /\ said < MaxSaid
    /\ said' = said + 1
    /\ UNCHANGED <<stored, invitation, nudge, clock, plans, nudger>>

\* The tools of a turn, or the time, end an invitation.
EndInvitation ==
    /\ \E i \in Plan : invitation[i] = "invited" /\ invitation' = [invitation EXCEPT ![i] = "ended"]
    /\ UNCHANGED <<stored, nudge, clock, said, plans, nudger>>

AnswerInvitation == EndInvitation
ExpireInvitation == EndInvitation

\* Hours pass: the next slot comes, or the next day.
TimePasses ==
    /\ \/ clock.slot < LastSlot /\ clock' = [clock EXCEPT !.slot = @ + 1]
       \/ clock.slot = LastSlot /\ clock.day < MaxDays /\ clock' = [day |-> clock.day + 1, slot |-> 0]
    /\ UNCHANGED <<stored, invitation, nudge, said, plans, nudger>>

\* A process ends, or a step raises and the pass goes on with another account.
Breaks(a) ==
    /\ Crashes
    /\ nudger[a].pc # "idle"
    /\ Finish(a)
    /\ UNCHANGED <<stored, invitation, nudge, clock, said, plans>>

ReactivationInit ==
    /\ stored = NoCandidate
    /\ invitation = [i \in Plan |-> "none"]
    /\ nudge = [i \in Plan |-> [d \in 1..MaxDays |-> "none"]]
    /\ clock = [day |-> 1, slot |-> 1]  \* the account is made in the course of its first day
    /\ said = 0 /\ plans = <<>>
    /\ nudger = [a \in Actor |-> Resting]

ReactivationNext ==
    \/ \E a \in Actor :
           \/ WritePatch(a) \/ AskForTopic(a) \/ AskForInvitation(a) \/ AskForHotTopic(a) \/ NothingToSay(a)
           \/ Generate(a) \/ OutsideWindow(a)
           \/ Recheck(a) \/ Unreachable(a)
           \/ ClaimInvitation(a) \/ Send(a) \/ Settle(a) \/ Breaks(a)
    \/ \E a \in Planner : StartPlanning(a) \/ TakeDue(a)
    \/ \E o \in Request : RunOnce(o) \/ ReadForEdit(o) \/ EditState(o) \/ Report(o)
    \/ Speak \/ AnswerInvitation \/ ExpireInvitation \/ TimePasses

ReactivationSpec == ReactivationInit /\ [][ReactivationNext]_reactivationVars
-----------------------------------------------------------------------------
ReactivationTypeOK ==
    /\ stored.id \in 0..MaxPlans
    /\ \A i \in Plan :
           /\ invitation[i] \in {"none", "candidate", "sending", "invited", "ended"}
           /\ \A d \in 1..MaxDays : nudge[i][d] \in {"none", "pending", "sent", "failed"}

\* A text goes out once, and a person gets one ordinary nudge a day at most,
\* though a candidate that was sent or cleared may come back: an operator's
\* edit writes back the metadata it read before.
NudgedOnce ==
    /\ \A i \in Plan : Cardinality({d \in 1..MaxDays : nudge[i][d] \in Live}) <= 1
    /\ \A d \in 1..MaxDays : Cardinality({i \in 1..Len(plans) : ~plans[i] /\ nudge[i][d] \in Live}) <= 1

\* An invitation that can be answered has reached the person.
InvitedIsSent ==
    \A i \in Plan : invitation[i] \in {"invited", "ended"} =>
                        \E d \in 1..MaxDays : nudge[i][d] = "sent"

NudgesAreSound == ReactivationTypeOK /\ NudgedOnce /\ InvitedIsSent

\* The comment on the planning pass says that what the dispatch clears the next
\* pass makes anew (planning.py:493-494).  So, while every process rests and no
\* candidate is stored, no invitation that nobody will send is left in the way
\* of the next one.
ClearedMakesRoom ==
    stored.id = 0 /\ (\A a \in Actor : nudger[a].pc = "idle") =>
        \A i \in Plan : invitation[i] # "candidate"
=============================================================================
