------------------------------ MODULE WorldMail ------------------------------
(***************************************************************************)
(* The mailbox of a companion world (app/products/mingchan): letters of    *)
(* the catalogue that the scheduler delivers, wishes of the owner that     *)
(* workers turn into letters, and what the owner does with a letter.       *)
(*                                                                         *)
(* Each action is one transaction.  A worker claims the job of a wish with *)
(* a token and a lease, lets the model write outside any transaction, and  *)
(* judges every deadline by the time at which its tick began.              *)
(***************************************************************************)
EXTENDS Naturals, FiniteSets

CONSTANTS Organic,      \* letters of the catalogue
          Wish,         \* wishes of the owner; each may become a letter
          Granter,      \* processes that run the wish step of the scheduler
          MaxHomes,     \* residents a world may have
          OrganicLimit  \* residents from which no letter is delivered

ASSUME MailBounds == MaxHomes \in Nat \ {0} /\ Organic \cap Wish = {}

VARIABLES letter,    \* rows of character_letters
          overdue,   \* open letters whose expires_at has passed
          retired,   \* letters whose catalogue entry or template is retired
          cooling,   \* the last organic letter is younger than the cooldown
          homes,     \* residents that are active
          wish,      \* rows of resident_wishes
          job,       \* rows of resident_wish_jobs
          granter    \* what each worker is doing

mailVars == <<letter, overdue, retired, cooling, homes, wish, job, granter>>
mailbox == <<letter, overdue, retired, cooling, homes>>

Letter == Organic \cup Wish
Unanswered == {"unread", "read", "deferred"}
NoWish == [status |-> "none", open |-> FALSE, late |-> FALSE]
NoJob == [status |-> "none", token |-> {}, lease |-> "none", due |-> FALSE, written |-> FALSE]
OffDuty == [pc |-> "idle", wish |-> {}, due |-> {}, late |-> {}]
-----------------------------------------------------------------------------
(***************************************************************************)
(* Letters.                                                                *)
(***************************************************************************)
\* A wish that was delivered ends with its letter.
ClosedWith(L) == [w \in Wish |-> IF w \in L THEN [wish[w] EXCEPT !.open = FALSE] ELSE wish[w]]

\* prepare_character_letter_delivery.
MayDeliver(l) ==
    /\ homes < OrganicLimit
    /\ \A o \in Organic : letter[o] \notin Unanswered
    /\ ~cooling
    /\ l \notin retired
    /\ letter[l] = "none"

DeliverOrganic(l) ==
    /\ MayDeliver(l)
    /\ letter' = [letter EXCEPT ![l] = "unread"]
    /\ cooling' = TRUE
    /\ UNCHANGED <<overdue, retired, homes, wish, job, granter>>

DeliveryCooldownEnds ==
    /\ cooling
    /\ cooling' = FALSE
    /\ UNCHANGED <<letter, overdue, retired, homes, wish, job, granter>>

LetterIsDue(l) ==
    /\ letter[l] \in Unanswered
    /\ l \notin overdue
    /\ overdue' = overdue \cup {l}
    /\ UNCHANGED <<letter, retired, cooling, homes, wish, job, granter>>

\* expire_due_character_letters, by the scheduler or before a request.
ExpireDueLetters ==
    /\ overdue # {}
    /\ letter' = [l \in Letter |-> IF l \in overdue THEN "expired" ELSE letter[l]]
    /\ overdue' = {}
    /\ wish' = ClosedWith(overdue)
    /\ UNCHANGED <<retired, cooling, homes, job, granter>>

\* The owner reads, puts off or declines a letter; expires_at is not looked at.
MarkLetter(l, target) ==
    /\ letter[l] \in Unanswered \ {target}
    /\ target = "read" => letter[l] = "unread"
    /\ letter' = [letter EXCEPT ![l] = target]
    /\ overdue' = IF target = "declined" THEN overdue \ {l} ELSE overdue
    /\ wish' = IF target = "declined" THEN ClosedWith({l}) ELSE wish
    /\ UNCHANGED <<retired, cooling, homes, job, granter>>

\* The letter, its entry and its template as they are under their locks.
Acceptable(l) == l \notin overdue \cup retired /\ homes < MaxHomes

\* Under the lock of the world: the letter ends as expired or accepted.
AcceptLetter(l) ==
    /\ letter[l] \in Unanswered
    /\ \/ /\ l \in overdue
          /\ letter' = [letter EXCEPT ![l] = "expired"]
          /\ homes' = homes
       \/ /\ Acceptable(l)
          /\ letter' = [letter EXCEPT ![l] = "accepted"]
          /\ homes' = homes + 1
    /\ overdue' = overdue \ {l}
    /\ wish' = ClosedWith({l})
    /\ UNCHANGED <<retired, cooling, job, granter>>

RetireCatalogue(l) ==
    /\ l \notin retired
    /\ retired' = retired \cup {l}
    /\ UNCHANGED <<letter, overdue, cooling, homes, wish, job, granter>>

\* Residents come by other ways and depart.
OthersMove(n) ==
    /\ n \in {homes - 1, homes + 1} \cap 0..MaxHomes
    /\ homes' = n
    /\ UNCHANGED <<letter, overdue, retired, cooling, wish, job, granter>>
-----------------------------------------------------------------------------
(***************************************************************************)
(* Wishes.                                                                 *)
(***************************************************************************)
MakeWish(w) ==
    /\ wish[w].status = "none"
    /\ homes < MaxHomes
    /\ \A v \in Wish : ~wish[v].open
    /\ wish' = [wish EXCEPT ![w] = [status |-> "pending", open |-> TRUE, late |-> FALSE]]
    /\ job' = [job EXCEPT ![w] = [NoJob EXCEPT !.status = "queued", !.due = TRUE]]
    /\ UNCHANGED <<mailbox, granter>>

IsPending(w) == wish[w].status = "pending" /\ wish[w].open
Ended(w, status) == [wish EXCEPT ![w].status = status, ![w].open = FALSE]
Freed(w, status) == [job EXCEPT ![w].status = status, ![w].token = {}, ![w].lease = "none",
                                ![w].due = FALSE]

WithdrawWish(w) ==
    /\ IsPending(w)
    /\ wish' = Ended(w, "withdrawn")
    /\ job' = IF job[w].status = "completed" THEN job ELSE Freed(w, "cancelled")
    /\ UNCHANGED <<mailbox, granter>>

\* claim_resident_wish_job, SKIP LOCKED.
Takable(w) == /\ IsPending(w)
              /\ job[w].due
              /\ \/ job[w].status \in {"queued", "ready"}
                 \/ job[w].status = "running" /\ job[w].lease = "expired"

\* The time of the tick: what is due and what is late by it.
BeginGranting(k) ==
    /\ granter[k].pc = "idle"
    /\ \E w \in Wish : IsPending(w)
    /\ granter' = [granter EXCEPT ![k] = [OffDuty EXCEPT !.pc = "tick",
                                              !.due = {w \in Wish : job[w].due},
                                              !.late = {w \in Wish : wish[w].late}]]
    /\ UNCHANGED <<mailbox, wish, job>>

ClaimWish(k, w) ==
    /\ granter[k].pc = "tick"
    /\ w \in granter[k].due
    /\ Takable(w)
    /\ job' = [job EXCEPT ![w].status = "running", ![w].token = {k}, ![w].lease = "live"]
    /\ granter' = [granter EXCEPT ![k].wish = {w},
                                  ![k].pc = IF job[w].written THEN "deliver" ELSE "write"]
    /\ UNCHANGED <<mailbox, wish>>

Holds(k, w) == IsPending(w) /\ job[w].status = "running" /\ job[w].token = {k}
\* The next claim of this tick; a job put off is not due for any tick under way.
Proceed(k, w) == granter' = [g \in Granter |->
    LET v == [granter[g] EXCEPT !.due = IF Holds(k, w) THEN @ \ {w} ELSE @]
    IN  IF g = k THEN [v EXCEPT !.pc = "tick", !.wish = {}] ELSE v]

\* The candidate is stored; the job waits for deliver_not_before.
StoreCandidate(k) == \E w \in granter[k].wish :
    /\ granter[k].pc = "write"
    /\ job' = IF Holds(k, w) THEN [Freed(w, "ready") EXCEPT ![w].written = TRUE] ELSE job
    /\ Proceed(k, w)
    /\ UNCHANGED <<mailbox, wish>>

\* fail_resident_wish_job: again later, unless that is past deliver_by.
FailWish(k) == \E w \in granter[k].wish :
    /\ granter[k].pc \in {"write", "deliver"}
    /\ \/ ~Holds(k, w) /\ UNCHANGED <<wish, job>>
       \/ Holds(k, w) /\ wish' = Ended(w, "unfulfilled") /\ job' = Freed(w, "dead")
       \/ Holds(k, w) /\ w \notin granter[k].late /\ wish' = wish /\ job' = Freed(w, "queued")
    /\ Proceed(k, w)
    /\ UNCHANGED mailbox

\* Variant: whether the wish was withdrawn meanwhile is not asked again.
HoldsJob(k, w) == wish[w].status \in {"pending", "withdrawn"}

\* What deliver_resident_wish asks of the rows it has locked.
MayGrant(k, w) == Holds(k, w)

\* deliver_resident_wish: template, catalogue entry and letter at once.
DeliverWish(k) == \E w \in granter[k].wish :
    /\ granter[k].pc = "deliver"
    /\ \/ ~MayGrant(k, w) /\ UNCHANGED <<letter, wish, job>>
       \/ /\ MayGrant(k, w)
          /\ w \in granter[k].late
          /\ wish' = Ended(w, "unfulfilled")
          /\ job' = Freed(w, "dead")
          /\ letter' = letter
       \/ /\ MayGrant(k, w)
          /\ w \notin granter[k].late
          /\ wish' = [wish EXCEPT ![w].status = "delivered"]
          /\ job' = Freed(w, "completed")
          /\ letter' = [letter EXCEPT ![w] = "unread"]
    /\ Proceed(k, w)
    /\ UNCHANGED <<overdue, retired, cooling, homes>>

\* No job is left to claim, or the process ends.
StopGranting(k) ==
    /\ granter[k].pc # "idle"
    /\ granter' = [granter EXCEPT ![k] = OffDuty]
    /\ UNCHANGED <<mailbox, wish, job>>

WishLeaseExpires(w) ==
    /\ job[w].lease = "live"
    /\ job' = [job EXCEPT ![w].lease = "expired"]
    /\ UNCHANGED <<mailbox, wish, granter>>

\* next_attempt_at passes.
WishIsDue(w) ==
    /\ job[w].status \in {"queued", "ready"}
    /\ ~job[w].due
    /\ job' = [job EXCEPT ![w].due = TRUE]
    /\ UNCHANGED <<mailbox, wish, granter>>

\* deliver_by passes.
WindowOfWishEnds(w) ==
    /\ IsPending(w)
    /\ ~wish[w].late
    /\ wish' = [wish EXCEPT ![w].late = TRUE]
    /\ UNCHANGED <<mailbox, job, granter>>
-----------------------------------------------------------------------------
MailInit ==
    /\ letter = [l \in Letter |-> "none"]
    /\ overdue = {}
    /\ retired = {}
    /\ cooling = FALSE
    /\ homes = 1
    /\ wish = [w \in Wish |-> NoWish]
    /\ job = [w \in Wish |-> NoJob]
    /\ granter = [k \in Granter |-> OffDuty]

MailNext ==
    \/ \E l \in Organic : DeliverOrganic(l)
    \/ DeliveryCooldownEnds
    \/ ExpireDueLetters
    \/ \E l \in Letter : LetterIsDue(l) \/ AcceptLetter(l)
    \/ \E l \in Letter, target \in {"read", "deferred", "declined"} : MarkLetter(l, target)
    \/ \E l \in Organic : RetireCatalogue(l)
    \/ \E n \in 0..MaxHomes : OthersMove(n)
    \/ \E w \in Wish : MakeWish(w) \/ WithdrawWish(w) \/ WishLeaseExpires(w) \/ WishIsDue(w)
                       \/ WindowOfWishEnds(w)
    \/ \E k \in Granter : BeginGranting(k) \/ (\E w \in Wish : ClaimWish(k, w)) \/ StoreCandidate(k)
                          \/ FailWish(k) \/ DeliverWish(k) \/ StopGranting(k)

MailSpec == MailInit /\ [][MailNext]_mailVars
-----------------------------------------------------------------------------
\* The rows and workers have their types.
MailTypeOK ==
    /\ letter \in [Letter -> {"none", "accepted", "declined", "expired"} \cup Unanswered]
    /\ overdue \subseteq Letter
    /\ retired \subseteq Letter
    /\ cooling \in BOOLEAN
    /\ homes \in 0..MaxHomes
    /\ \A w \in Wish : /\ wish[w].status \in {"none", "pending", "delivered", "withdrawn", "unfulfilled"}
                       /\ job[w].status \in {"none", "queued", "ready", "running", "completed", "dead", "cancelled"}
                       /\ job[w].token \subseteq Granter
    /\ \A k \in Granter : granter[k].pc \in {"idle", "tick", "write", "deliver"}

\* A wish and its letter tell one story: a wish that was withdrawn or given up
\* never brings a letter, however late its worker wakes up, and a delivered
\* wish keeps the owner from wishing again exactly as long as its letter is
\* unanswered (resident_wishes.closed_at follows character_letters.status).
WishFollowsLetter ==
    /\ MailTypeOK
    /\ \A w \in Wish :
        /\ wish[w].status = "delivered" <=> letter[w] # "none"
        /\ wish[w].open <=> wish[w].status = "pending" \/ letter[w] \in Unanswered
=============================================================================
