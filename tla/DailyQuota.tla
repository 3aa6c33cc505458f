---------------------------- MODULE DailyQuota ----------------------------
(***************************************************************************)
(* The daily message quota of one person in one product on one day:        *)
(* reserve_daily_quota, confirm_daily_quota, rollback_daily_quota and      *)
(* reclaim_expired_reservations of app/db/accounts.py, one SQL statement a *)
(* step, as run_product_turn and the scheduler call them.  Rows and locks  *)
(* of different people, products and days are disjoint.                    *)
(*                                                                         *)
(* PostgreSQL runs at READ COMMITTED: every SELECT sees what is committed  *)
(* when it starts, a DELETE waits for the open transaction that deleted    *)
(* the row before it.                                                      *)
(***************************************************************************)
EXTENDS Integers, FiniteSets

CONSTANTS Turn,   \* turns of the person; each makes at most one reservation
          Limit,  \* messages allowed on the day; 0 means unlimited
          None    \* no transaction

ASSUME QuotaAssumption == /\ Limit \in Nat
                          /\ None \notin Turn

VARIABLES count,         \* daily_usage.message_count
          reservations,  \* daily_quota_reservations: the turns that have a row
          expired,       \* those of them with expires_at in the past
          advisory,      \* holder of pg_advisory_xact_lock('quota:...')
          deleter,       \* the open transaction that has deleted a row
          pc,            \* the next statement of each turn
          used,          \* message_count as reserve_daily_quota has read it
          batch          \* ids the scheduler has selected for reclaim

vars == <<count, reservations, expired, advisory, deleter, pc, used, batch>>

\* The scheduler's transaction needs no name of its own in deleter: it commits in
\* the statement that deletes.
Owner == Turn \cup {None}
-----------------------------------------------------------------------------
Goto(t, label) == pc' = [pc EXCEPT ![t] = label]

\* Rows that no open transaction has deleted can be deleted at once.
Unlocked(rows) == \A r \in rows : deleter[r] = None

Forget(t) == deleter' = [r \in Turn |-> IF deleter[r] = t THEN None ELSE deleter[r]]

\* What a transaction sees: the committed rows without those it has deleted itself.
VisibleTo(t) == {r \in reservations : deleter[r] # t}
-----------------------------------------------------------------------------
(***************************************************************************)
(* reserve_daily_quota.                                                    *)
(***************************************************************************)
\* pg_advisory_xact_lock on the person's day: one transaction checks and inserts at a time.
LockSubject(t) ==
    /\ pc[t] = "new"
    /\ advisory = None
    /\ advisory' = t
    /\ Goto(t, "prune")
    /\ UNCHANGED <<count, reservations, expired, deleter, used, batch>>

\* DELETE ... WHERE expires_at <= now().  now() is the time at which the transaction
\* started, before it waited for the lock: rows that have expired since are kept.
Prune(t) ==
    /\ pc[t] = "prune"
    /\ \E old \in SUBSET expired :
          /\ Unlocked(old)
          /\ deleter' = [r \in Turn |-> IF r \in old THEN t ELSE deleter[r]]
    /\ Goto(t, IF Limit > 0 THEN "read_used" ELSE "insert")
    /\ UNCHANGED <<count, reservations, expired, advisory, used, batch>>

\* SELECT message_count FROM daily_usage
ReadUsed(t) ==
    /\ pc[t] = "read_used"
    /\ used' = [used EXCEPT ![t] = count]
    /\ Goto(t, "read_reserved")
    /\ UNCHANGED <<count, reservations, expired, advisory, deleter, batch>>

\* Variant: only confirmed messages are compared with the limit.
CountReservedUncounted(t) ==
    /\ pc[t] = "read_reserved"
    /\ used[t] < Limit
    /\ Goto(t, "insert")
    /\ UNCHANGED <<count, reservations, expired, advisory, deleter, used, batch>>

\* SELECT COUNT(*) FROM daily_quota_reservations.  A refusal commits, the expired
\* rows with it.
CountReserved(t) ==
    /\ pc[t] = "read_reserved"
    /\ \/ /\ used[t] + Cardinality(VisibleTo(t)) < Limit
          /\ Goto(t, "insert")
          /\ UNCHANGED <<count, reservations, expired, advisory, deleter, used, batch>>
       \/ /\ used[t] + Cardinality(VisibleTo(t)) >= Limit
          /\ reservations' = VisibleTo(t)
          /\ expired' = expired \cap VisibleTo(t)
          /\ Forget(t)
          /\ advisory' = None
          /\ used' = [used EXCEPT ![t] = 0]
          /\ Goto(t, "refused")
          /\ UNCHANGED <<count, batch>>

\* INSERT INTO daily_quota_reservations, and the commit of the turn's transaction.
Reserve(t) ==
    /\ pc[t] = "insert"
    /\ reservations' = VisibleTo(t) \cup {t}
    /\ expired' = expired \cap VisibleTo(t)
    /\ Forget(t)
    /\ advisory' = None
    /\ used' = [used EXCEPT ![t] = 0]
    /\ Goto(t, "reserved")
    /\ UNCHANGED <<count, batch>>

\* The node stops, or the connection is lost, inside the transaction.
CrashReserving(t) ==
    /\ pc[t] \in {"prune", "read_used", "read_reserved", "insert"}
    /\ Forget(t)
    /\ advisory' = None
    /\ used' = [used EXCEPT ![t] = 0]
    /\ Goto(t, "crashed")
    /\ UNCHANGED <<count, reservations, expired, batch>>
-----------------------------------------------------------------------------
(***************************************************************************)
(* confirm_daily_quota and rollback_daily_quota.                           *)
(***************************************************************************)
\* SELECT ... FROM daily_quota_reservations WHERE id = ?
ConfirmFind(t) ==
    /\ pc[t] = "reserved"
    /\ Goto(t, IF t \in reservations THEN "delete" ELSE "uncounted")
    /\ UNCHANGED <<count, reservations, expired, advisory, deleter, used, batch>>

\* Variant: the row count of the DELETE is not looked at.
ConfirmDeleteUnguarded(t) ==
    /\ pc[t] = "delete"
    /\ deleter[t] = None
    /\ deleter' = [deleter EXCEPT ![t] = IF t \in reservations THEN t ELSE None]
    /\ Goto(t, "increment")
    /\ UNCHANGED <<count, reservations, expired, advisory, used, batch>>

\* DELETE ... WHERE id = ?; nothing more is done when no row was deleted.
ConfirmDelete(t) ==
    /\ pc[t] = "delete"
    /\ deleter[t] = None
    /\ \/ /\ t \in reservations
          /\ deleter' = [deleter EXCEPT ![t] = t]
          /\ Goto(t, "increment")
       \/ /\ t \notin reservations
          /\ Goto(t, "uncounted")
          /\ UNCHANGED deleter
    /\ UNCHANGED <<count, reservations, expired, advisory, used, batch>>

\* INSERT INTO daily_usage ... ON CONFLICT DO UPDATE message_count + 1 waits for
\* another transaction that is incrementing, until that one ends.
ConfirmIncrement(t) ==
    /\ pc[t] = "increment"
    /\ \A o \in Turn : pc[o] # "commit"
    /\ Goto(t, "commit")
    /\ UNCHANGED <<count, reservations, expired, advisory, deleter, used, batch>>

ConfirmCommit(t) ==
    /\ pc[t] = "commit"
    /\ count' = count + 1
    /\ reservations' = VisibleTo(t)
    /\ expired' = expired \cap VisibleTo(t)
    /\ Forget(t)
    /\ Goto(t, "counted")
    /\ UNCHANGED <<advisory, used, batch>>

\* The turn is not charged for: its slot is given back.
Rollback(t) ==
    /\ pc[t] = "reserved"
    /\ deleter[t] = None
    /\ reservations' = reservations \ {t}
    /\ expired' = expired \ {t}
    /\ Goto(t, "refunded")
    /\ UNCHANGED <<count, advisory, deleter, used, batch>>

\* The node stops after the reservation has been committed: an open transaction is
\* rolled back, the row stays.
CrashHolding(t) ==
    /\ pc[t] \in {"reserved", "delete", "increment", "commit"}
    /\ Forget(t)
    /\ Goto(t, "crashed")
    /\ UNCHANGED <<count, reservations, expired, advisory, used, batch>>
-----------------------------------------------------------------------------
(***************************************************************************)
(* Time, and the scheduler's reclaim_expired_reservations.                 *)
(***************************************************************************)
\* Fifteen minutes have passed since the reservation, whatever its turn is doing.
Expire(t) ==
    /\ t \in reservations \ expired
    /\ expired' = expired \cup {t}
    /\ UNCHANGED <<count, reservations, advisory, deleter, pc, used, batch>>

\* The ids of at most 200 expired rows, oldest first: with fewer rows, all of them.
ReclaimSelect ==
    /\ batch = {}
    /\ expired # {}
    /\ batch' = expired
    /\ UNCHANGED <<count, reservations, expired, advisory, deleter, pc, used>>

\* Variant: the selected rows are not deleted.
ReclaimDeleteNothing ==
    /\ batch # {}
    /\ batch' = {}
    /\ UNCHANGED <<count, reservations, expired, advisory, deleter, pc, used>>

ReclaimDelete ==
    /\ batch # {}
    /\ Unlocked(batch)
    /\ reservations' = reservations \ batch
    /\ expired' = expired \ batch
    /\ batch' = {}
    /\ UNCHANGED <<count, advisory, deleter, pc, used>>
-----------------------------------------------------------------------------
Init == /\ count = 0
        /\ reservations = {}
        /\ expired = {}
        /\ advisory = None
        /\ deleter = [r \in Turn |-> None]
        /\ pc = [t \in Turn |-> "new"]
        /\ used = [t \in Turn |-> 0]
        /\ batch = {}

Reserving(t) == \/ LockSubject(t)
                \/ Prune(t)
                \/ ReadUsed(t)
                \/ CountReserved(t)
                \/ Reserve(t)

Confirming(t) == \/ ConfirmFind(t)
                 \/ ConfirmDelete(t)
                 \/ ConfirmIncrement(t)
                 \/ ConfirmCommit(t)

Reclaim == ReclaimSelect \/ ReclaimDelete

Next == \/ \E t \in Turn : \/ Reserving(t)
                           \/ Confirming(t)
                           \/ Rollback(t)
                           \/ CrashReserving(t)
                           \/ CrashHolding(t)
                           \/ Expire(t)
        \/ Reclaim

Spec == Init /\ [][Next]_vars

\* Time passes, the scheduler comes back every minute, and a transaction goes on
\* with its statements until it ends (or its node crashes).
Fairness == /\ WF_vars(ReclaimSelect)
            /\ WF_vars(ReclaimDelete)
            /\ \A t \in Turn : /\ WF_vars(Expire(t))
                               /\ WF_vars(Reserving(t))
                               /\ WF_vars(Confirming(t))

FairSpec == Spec /\ Fairness
-----------------------------------------------------------------------------
(***************************************************************************)
(* Properties.                                                             *)
(***************************************************************************)
Label == {"new", "prune", "read_used", "read_reserved", "insert", "refused",
          "reserved", "delete", "increment", "commit", "counted", "uncounted",
          "refunded", "crashed"}

\* The type invariant.
TypeOK == /\ count \in Nat
          /\ reservations \subseteq Turn
          /\ expired \subseteq reservations
          /\ advisory \in Owner
          /\ deleter \in [Turn -> Owner]
          /\ pc \in [Turn -> Label]
          /\ used \in [Turn -> Nat]
          /\ batch \subseteq Turn

\* What the docstring of reserve_daily_quota promises: confirmed messages and live
\* reservations together never exceed the limit.
NoOversell == Limit > 0 => count + Cardinality(reservations) <= Limit

\* What holds instead: the two SELECTs of a reservation may miss confirmations that
\* commit between them, but each takes that many confirmed messages with it, so
\* the day never goes beyond twice the limit.
OversellBounded == Limit > 0 => count + Cardinality(reservations) <= 2 * Limit

\* What holds of the rows of a day at any time.
QuotaIsSound == TypeOK /\ OversellBounded

\* A message is counted exactly when its reservation is consumed: whatever races
\* with confirm_daily_quota (pruning, reclaim, a second confirmation), the count
\* never grows without taking the row of that turn away.
CountConsumesReservation ==
    [][ count' # count => /\ count' = count + 1
                          /\ \E t \in reservations : reservations' = reservations \ {t}
      ]_vars

\* Only a reservation that outlived its fifteen minutes is lost to its turn: a
\* charged turn that is in time is always counted.  (A row never becomes live again,
\* so it is enough to look at the step that loses it.)
LostOnlyByExpiry ==
    [][ \A t \in reservations \ reservations' :
           t \in expired \/ pc'[t] \in {"counted", "refunded"} ]_vars

\* The count and the reservations keep step, whatever races with a confirmation.
CountsAreBacked == CountConsumesReservation /\ LostOnlyByExpiry

\* A crash never takes a slot of the day for good.
CrashedSlotIsFreed ==
    \A t \in Turn : pc[t] = "crashed" ~> t \notin reservations
=============================================================================
