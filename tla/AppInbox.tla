------------------------------- MODULE AppInbox -------------------------------
(***************************************************************************)
(* The notifications of one person in the app (app/products/mingchan):     *)
(* notices of residents become visible at once; a notice to the person as  *)
(* such is first reserved, for one at a time and one a day, and made       *)
(* visible by whoever holds the token of the reservation.                  *)
(*                                                                         *)
(* Writers lock the row of the person; reading one notice and the cleanup  *)
(* of the scheduler lock only notices.  Each action is one transaction.    *)
(***************************************************************************)
EXTENDS Naturals, FiniteSets

CONSTANTS HumanNotice,    \* idempotency keys of notices to the person
          ResidentNotice, \* idempotency keys of notices of residents
          Notifier,       \* processes that reserve and finalize
          MaxVisible      \* visible notices a person keeps

ASSUME InboxBounds == MaxVisible \in Nat /\ HumanNotice \cap ResidentNotice = {}

VARIABLES notice,   \* rows of app_notifications
          earlier,  \* delivered_at: the visible notices delivered before each one
          stale,    \* rows that cleanup may delete: expires_at has passed
          recent,   \* notices to the person shown in the last 24 hours, pruned since or not
          notifier, \* the reservation each process believes it holds
          speaks    \* some resident can speak for the notice

inboxVars == <<notice, earlier, stale, recent, notifier, speaks>>

Notice == HumanNotice \cup ResidentNotice
NoNotice == [status |-> "none", token |-> {}, lapsed |-> FALSE, read |-> FALSE]
InInbox(n) == notice[n].status = "visible"
Without(D) == [n \in Notice |-> IF n \in D THEN {} ELSE earlier[n] \ D]
Deleted(D) == [n \in Notice |-> IF n \in D THEN NoNotice ELSE notice[n]]
-----------------------------------------------------------------------------
(***************************************************************************)
(* Making a notice visible.                                                *)
(***************************************************************************)
\* _enforce_visible_limit: what has expired goes, then, while there are too
\* many, what has been read and then the oldest; never the new notice.
Overflow(n) ==
    LET kept == {m \in Notice \ stale : InInbox(m)} \cup {n}
    IN  IF Cardinality(kept) > MaxVisible THEN Cardinality(kept) - MaxVisible ELSE 0

OldestFirst(D) ==
    \A m \in D : ~notice[m].read => earlier[m] \subseteq D \cup stale

PrunedFor(n) ==
    {D \in SUBSET {m \in Notice \ stale : InInbox(m) /\ m # n} :
        /\ Cardinality(D) = Overflow(n)
        /\ OldestFirst(D)
        /\ (\E m \in D : ~notice[m].read) =>
               \A m \in Notice \ (stale \cup {n}) : InInbox(m) /\ notice[m].read => m \in D}

ShowNotice(n, row) ==
    \E D \in PrunedFor(n) :
        LET gone == (D \cup stale) \ {n}
        IN  /\ notice' = [Deleted(gone) EXCEPT ![n] = row]
            /\ earlier' = [Without(gone) EXCEPT ![n] = {m \in Notice \ gone : InInbox(m)}]
            /\ stale' = {}
            /\ recent' = recent \cup ({n} \cap HumanNotice)

\* insert_visible_app_notification; the same key again changes nothing.
DeliverResidentNotice(n) ==
    /\ notice[n] = NoNotice
    /\ ShowNotice(n, [NoNotice EXCEPT !.status = "visible"])
    /\ UNCHANGED <<notifier, speaks>>

\* Variant: a reservation looks only at other reservations.
NoLiveReservation(n) ==
    \A m \in HumanNotice \ {n} : ~(notice[m].status = "reserved" /\ ~notice[m].lapsed)

\* A touch counts while its row is in the inbox: what _enforce_visible_limit has
\* deleted, or a notice of the same key deleted since, holds nobody back.
NoLiveTouch(n) ==
    \A m \in HumanNotice \ {n} :
        /\ ~(m \in recent /\ InInbox(m))
        /\ ~(notice[m].status = "reserved" /\ ~notice[m].lapsed)

\* reserve_human_app_notification: lapsed reservations are cancelled first.
ReserveHuman(p, n) ==
    /\ notifier[p] = {}
    /\ notice[n].status \in {"none", "cancelled"} \/ (notice[n].status = "reserved" /\ notice[n].lapsed)
    /\ NoLiveTouch(n)
    /\ notice' = [m \in Notice |->
           IF m = n THEN [NoNotice EXCEPT !.status = "reserved", !.token = {p}]
           ELSE IF m \in HumanNotice /\ notice[m].status = "reserved" /\ notice[m].lapsed
           THEN [NoNotice EXCEPT !.status = "cancelled"] ELSE notice[m]]
    /\ notifier' = [notifier EXCEPT ![p] = {n}]
    /\ stale' = stale \ {n}
    /\ UNCHANGED <<earlier, recent, speaks>>

HoldsReservation(p, n) ==
    /\ n \in notifier[p]
    /\ notice[n].status = "reserved" /\ notice[n].token = {p}

\* The lease is compared with the time the caller brought, which may be old.
FinalizeHuman(p, n) ==
    /\ HoldsReservation(p, n)
    /\ speaks
    /\ ShowNotice(n, [NoNotice EXCEPT !.status = "visible"])
    /\ notifier' = [notifier EXCEPT ![p] = {}]
    /\ UNCHANGED speaks

\* cancel_human_app_notification, and a finalize that finds no speaker.
CancelHuman(p, n) ==
    /\ HoldsReservation(p, n)
    /\ notice' = [notice EXCEPT ![n] = [NoNotice EXCEPT !.status = "cancelled"]]
    /\ notifier' = [notifier EXCEPT ![p] = {}]
    /\ UNCHANGED <<earlier, stale, recent, speaks>>

\* The process dies, or finds that it has lost the reservation.
DropReservation(p) ==
    /\ notifier[p] # {}
    /\ notifier' = [notifier EXCEPT ![p] = {}]
    /\ UNCHANGED <<notice, earlier, stale, recent, speaks>>
-----------------------------------------------------------------------------
(***************************************************************************)
(* Reading and cleaning up.                                                *)
(***************************************************************************)
ReadNotices(D) ==
    /\ D # {} /\ \A n \in D : InInbox(n) /\ n \notin stale /\ ~notice[n].read
    /\ notice' = [n \in Notice |-> IF n \in D THEN [notice[n] EXCEPT !.read = TRUE] ELSE notice[n]]
    /\ UNCHANGED <<earlier, stale, recent, notifier, speaks>>

ReadNotice(n) == ReadNotices({n})
ReadAllNotices == ReadNotices({n \in Notice : InInbox(n) /\ n \notin stale /\ ~notice[n].read})

\* cleanup_app_notifications_batch, its three transactions: lapsed
\* reservations, expired rows, and people with too many notices, of whom
\* there are none.
CancelLapsed(n) ==
    /\ notice[n].status = "reserved" /\ notice[n].lapsed
    /\ notice' = [notice EXCEPT ![n] = [NoNotice EXCEPT !.status = "cancelled"]]
    /\ UNCHANGED <<earlier, stale, recent, notifier, speaks>>

DeleteStale(n) ==
    /\ n \in stale
    /\ notice' = Deleted({n})
    /\ earlier' = Without({n})
    /\ stale' = stale \ {n}
    /\ UNCHANGED <<recent, notifier, speaks>>

\* Time: a lease lasts minutes, the day of a touch 24 hours, a row days.
LeaseLapses(n) ==
    /\ notice[n].status = "reserved" /\ ~notice[n].lapsed
    /\ notice' = [notice EXCEPT ![n].lapsed = TRUE]
    /\ UNCHANGED <<earlier, stale, recent, notifier, speaks>>

DayPasses(n) ==
    /\ n \in recent
    /\ recent' = recent \ {n}
    /\ UNCHANGED <<notice, earlier, stale, notifier, speaks>>

NoticeExpires(n) ==
    /\ notice[n].status \in {"visible", "cancelled"} /\ n \notin recent \cup stale
    /\ stale' = stale \cup {n}
    /\ UNCHANGED <<notice, earlier, recent, notifier, speaks>>

ResidentsMove ==
    /\ speaks' = ~speaks
    /\ UNCHANGED <<notice, earlier, stale, recent, notifier>>

InboxInit ==
    /\ notice = [n \in Notice |-> NoNotice]
    /\ earlier = [n \in Notice |-> {}]
    /\ stale = {}
    /\ recent = {}
    /\ notifier = [p \in Notifier |-> {}]
    /\ speaks = TRUE

InboxNext ==
    \/ \E n \in ResidentNotice : DeliverResidentNotice(n)
    \/ \E p \in Notifier, n \in HumanNotice :
           ReserveHuman(p, n) \/ FinalizeHuman(p, n) \/ CancelHuman(p, n)
    \/ \E p \in Notifier : DropReservation(p)
    \/ \E n \in Notice : \/ ReadNotice(n)
                         \/ CancelLapsed(n)
                         \/ DeleteStale(n)
                         \/ LeaseLapses(n)
                         \/ DayPasses(n)
                         \/ NoticeExpires(n)
    \/ ReadAllNotices
    \/ ResidentsMove

InboxSpec == InboxInit /\ [][InboxNext]_inboxVars
-----------------------------------------------------------------------------
InboxTypeOK ==
    /\ \A n \in Notice : /\ notice[n].status \in {"none", "reserved", "visible", "cancelled"}
                         /\ notice[n].token \subseteq Notifier
    /\ \A n \in Notice : earlier[n] \subseteq {m \in Notice : InInbox(m)}
    /\ stale \subseteq Notice /\ recent \subseteq HumanNotice
    /\ \A p \in Notifier : notifier[p] \subseteq HumanNotice

\* What the guard of a reservation achieves: however reservations lapse, are
\* taken over and are finalized late, of the notices to the person that the inbox
\* still holds at most one is under way or was shown in the last 24 hours, and the
\* inbox never holds more than its limit of unexpired notices.  A second touch of
\* a day needs the first to have been pruned; that it then happens, within the
\* day, is not excluded.
OneTouchInTheInbox ==
    /\ InboxTypeOK
    /\ Cardinality({n \in HumanNotice : \/ n \in recent /\ InInbox(n)
                                        \/ notice[n].status = "reserved" /\ ~notice[n].lapsed}) <= 1
    /\ Cardinality({n \in Notice \ stale : InInbox(n)}) <= MaxVisible
==============================================================================
