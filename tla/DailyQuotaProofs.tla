------------------------- MODULE DailyQuotaProofs -------------------------
(***************************************************************************)
(* The bound on the messages of a day, and that the count and the          *)
(* reservations keep step, for every limit and every set of turns.         *)
(***************************************************************************)
EXTENDS DailyQuota, FiniteSetTheorems, TLAPS

\* The statements of reserve_daily_quota that run under the advisory lock.
Checking == {"prune", "read_used", "read_reserved", "insert"}

\* The turns before their row is inserted; a turn that is refused never has one.
Unreserved == {"new", "refused"} \cup Checking

\* The turn that checks and inserts is the one that holds the lock.
LockIsHeld == \A t \in Turn : pc[t] \in Checking => advisory = t

\* A row that an open transaction has deleted is still there, and the transaction
\* is one that prunes expired rows or one that confirms its own.
DeletedOnce ==
    \A r, t \in Turn : deleter[r] = t =>
        /\ r \in reservations
        /\ \/ pc[t] \in Checking /\ r \in expired
           \/ pc[t] \in {"increment", "commit"} /\ r = t

\* A confirmation that goes on has deleted its row.
ConfirmsItsOwn == \A t \in Turn : pc[t] \in {"increment", "commit"} => deleter[t] = t

\* A row, or an id that is to be reclaimed, is of a turn that has inserted it; an id
\* selected for reclaim stays expired as long as its row is there.
RowsAreInserted ==
    /\ \A t \in reservations \cup batch : pc[t] \notin Unreserved
    /\ batch \cap reservations \subseteq expired

Backed == LockIsHeld /\ DeletedOnce /\ ConfirmsItsOwn /\ RowsAreInserted

\* What the turn that checks has read: between its two SELECTs as much has been
\* confirmed as reservations have gone, and before its INSERT there is room.
Bounded ==
    /\ IsFiniteSet(reservations)
    /\ Limit > 0 =>
         /\ Cardinality(reservations) <= Limit
         /\ count + Cardinality(reservations) <= 2 * Limit
         /\ \A t \in Turn :
               /\ pc[t] \in {"read_reserved", "insert"} =>
                      count + Cardinality(reservations) <= used[t] + Limit
               /\ pc[t] = "insert" => used[t] + Cardinality(VisibleTo(t)) < Limit

IInv == TypeOK /\ Backed /\ Bounded
-----------------------------------------------------------------------------
LEMMA TypeStep ==
    ASSUME TypeOK, [Next]_vars
    PROVE  TypeOK'
<1> USE QuotaAssumption DEF TypeOK, Label, Owner, Goto, Forget, VisibleTo
<1>0. CASE UNCHANGED vars
  BY <1>0 DEF vars
<1>1. ASSUME NEW t \in Turn, LockSubject(t)
      PROVE  TypeOK'
  BY <1>1 DEF LockSubject
<1>2. ASSUME NEW t \in Turn, Prune(t)
      PROVE  TypeOK'
  BY <1>2 DEF Prune
<1>3. ASSUME NEW t \in Turn, ReadUsed(t)
      PROVE  TypeOK'
  BY <1>3 DEF ReadUsed
<1>4. ASSUME NEW t \in Turn, CountReserved(t)
      PROVE  TypeOK'
  BY <1>4 DEF CountReserved
<1>5. ASSUME NEW t \in Turn, Reserve(t)
      PROVE  TypeOK'
  BY <1>5 DEF Reserve
<1>6. ASSUME NEW t \in Turn, CrashReserving(t)
      PROVE  TypeOK'
  BY <1>6 DEF CrashReserving
<1>7. ASSUME NEW t \in Turn, ConfirmFind(t)
      PROVE  TypeOK'
  BY <1>7 DEF ConfirmFind
<1>8. ASSUME NEW t \in Turn, ConfirmDelete(t)
      PROVE  TypeOK'
  BY <1>8 DEF ConfirmDelete
<1>9. ASSUME NEW t \in Turn, ConfirmIncrement(t)
      PROVE  TypeOK'
  BY <1>9 DEF ConfirmIncrement
<1>10. ASSUME NEW t \in Turn, ConfirmCommit(t)
      PROVE  TypeOK'
  BY <1>10 DEF ConfirmCommit
<1>11. ASSUME NEW t \in Turn, Rollback(t)
      PROVE  TypeOK'
  BY <1>11 DEF Rollback
<1>12. ASSUME NEW t \in Turn, CrashHolding(t)
      PROVE  TypeOK'
  BY <1>12 DEF CrashHolding
<1>13. ASSUME NEW t \in Turn, Expire(t)
      PROVE  TypeOK'
  BY <1>13 DEF Expire
<1>14. CASE ReclaimSelect
  BY <1>14 DEF ReclaimSelect
<1>15. CASE ReclaimDelete
  BY <1>15 DEF ReclaimDelete
<1> QED BY <1>0, <1>1, <1>2, <1>3, <1>4, <1>5, <1>6, <1>7, <1>8, <1>9, <1>10, <1>11, <1>12, <1>13, <1>14, <1>15 DEF Next, Reserving, Confirming, Reclaim

LEMMA BackedStep ==
    ASSUME TypeOK, Backed, [Next]_vars
    PROVE  Backed'
<1> USE QuotaAssumption DEF TypeOK, Owner, Backed, LockIsHeld, DeletedOnce, ConfirmsItsOwn, RowsAreInserted, Checking, Unreserved, Goto, Forget, VisibleTo, Unlocked
<1>0. CASE UNCHANGED vars
  BY <1>0 DEF vars
<1>1. ASSUME NEW t \in Turn, LockSubject(t)
      PROVE  Backed'
  BY <1>1 DEF LockSubject
<1>2. ASSUME NEW t \in Turn, Prune(t)
      PROVE  Backed'
  BY <1>2 DEF Prune
<1>3. ASSUME NEW t \in Turn, ReadUsed(t)
      PROVE  Backed'
  BY <1>3 DEF ReadUsed
<1>4. ASSUME NEW t \in Turn, CountReserved(t)
      PROVE  Backed'
  BY <1>4 DEF CountReserved
<1>5. ASSUME NEW t \in Turn, Reserve(t)
      PROVE  Backed'
  BY <1>5 DEF Reserve
<1>6. ASSUME NEW t \in Turn, CrashReserving(t)
      PROVE  Backed'
  BY <1>6 DEF CrashReserving
<1>7. ASSUME NEW t \in Turn, ConfirmFind(t)
      PROVE  Backed'
  BY <1>7 DEF ConfirmFind
<1>8. ASSUME NEW t \in Turn, ConfirmDelete(t)
      PROVE  Backed'
  BY <1>8 DEF ConfirmDelete
<1>9. ASSUME NEW t \in Turn, ConfirmIncrement(t)
      PROVE  Backed'
  BY <1>9 DEF ConfirmIncrement
<1>10. ASSUME NEW t \in Turn, ConfirmCommit(t)
      PROVE  Backed'
  BY <1>10 DEF ConfirmCommit
<1>11. ASSUME NEW t \in Turn, Rollback(t)
      PROVE  Backed'
  BY <1>11 DEF Rollback
<1>12. ASSUME NEW t \in Turn, CrashHolding(t)
      PROVE  Backed'
  BY <1>12 DEF CrashHolding
<1>13. ASSUME NEW t \in Turn, Expire(t)
      PROVE  Backed'
  BY <1>13 DEF Expire
<1>14. CASE ReclaimSelect
  BY <1>14 DEF ReclaimSelect
<1>15. CASE ReclaimDelete
  BY <1>15 DEF ReclaimDelete
<1> QED BY <1>0, <1>1, <1>2, <1>3, <1>4, <1>5, <1>6, <1>7, <1>8, <1>9, <1>10, <1>11, <1>12, <1>13, <1>14, <1>15 DEF Next, Reserving, Confirming, Reclaim

-----------------------------------------------------------------------------
\* A step that takes rows away, at most one of them to count it, keeps the bound, as
\* long as no turn comes to trust a total.
LEMMA Shrinks ==
    ASSUME TypeOK, TypeOK', Bounded,
           reservations' \subseteq reservations,
           \/ count' = count
           \/ /\ count' = count + 1
              /\ \E t \in reservations : reservations' = reservations \ {t},
           Limit > 0 => \A t \in Turn : pc'[t] \in {"read_reserved", "insert"} =>
               /\ pc'[t] = pc[t]
               /\ used'[t] = used[t]
               /\ VisibleTo(t)' \subseteq VisibleTo(t)
    PROVE  Bounded'
<1>1. IsFiniteSet(reservations) /\ IsFiniteSet(reservations')
  BY FS_Subset DEF Bounded
<1>2. /\ Cardinality(reservations) \in Nat
      /\ Cardinality(reservations') \in Nat
      /\ Cardinality(reservations') <= Cardinality(reservations)
  BY <1>1, FS_CardinalityType, FS_Subset
<1>3. count' + Cardinality(reservations') <= count + Cardinality(reservations)
  <2>1. CASE count' = count
    BY <1>2, <2>1 DEF TypeOK
  <2>2. ASSUME NEW t \in reservations, count' = count + 1,
               reservations' = reservations \ {t}
        PROVE  count' + Cardinality(reservations') <= count + Cardinality(reservations)
    <3>1. Cardinality(reservations \ {t}) = Cardinality(reservations) - 1
      BY <1>1, FS_RemoveElement
    <3> QED BY <1>2, <2>2, <3>1 DEF TypeOK
  <2> QED BY <2>1, <2>2
<1>4. ASSUME Limit > 0, NEW t \in Turn, pc'[t] = "insert"
      PROVE  Cardinality(VisibleTo(t)') <= Cardinality(VisibleTo(t))
  <2>1. VisibleTo(t)' \subseteq VisibleTo(t) /\ VisibleTo(t) \subseteq reservations
    BY <1>4 DEF VisibleTo
  <2> QED BY <1>1, <2>1, FS_Subset
<1>5. ASSUME NEW t \in Turn
      PROVE  /\ IsFiniteSet(VisibleTo(t)) /\ IsFiniteSet(VisibleTo(t)')
             /\ Cardinality(VisibleTo(t)) \in Nat /\ Cardinality(VisibleTo(t)') \in Nat
  <2>1. VisibleTo(t) \subseteq reservations /\ VisibleTo(t)' \subseteq reservations'
    BY DEF VisibleTo
  <2> QED BY <1>1, <2>1, FS_Subset, FS_CardinalityType
<1>6. Limit \in Nat /\ count \in Nat /\ count' \in Nat
      /\ used \in [Turn -> Nat] /\ used' \in [Turn -> Nat]
  BY QuotaAssumption DEF TypeOK
<1>7. ASSUME Limit > 0
      PROVE  /\ Cardinality(reservations') <= Limit
             /\ count' + Cardinality(reservations') <= 2 * Limit
  BY <1>2, <1>3, <1>6, <1>7 DEF Bounded
<1>8. ASSUME Limit > 0, NEW t \in Turn, pc'[t] \in {"read_reserved", "insert"}
      PROVE  count' + Cardinality(reservations') <= used'[t] + Limit
  BY <1>2, <1>3, <1>6, <1>8 DEF Bounded
<1>9. ASSUME Limit > 0, NEW t \in Turn, pc'[t] = "insert"
      PROVE  used'[t] + Cardinality(VisibleTo(t)') < Limit
  BY <1>4, <1>5, <1>6, <1>9 DEF Bounded
<1> QED BY <1>1, <1>7, <1>8, <1>9 DEF Bounded

LEMMA BoundedStep ==
    ASSUME TypeOK, Backed, Bounded, [Next]_vars
    PROVE  Bounded'
<1>t. TypeOK'
  BY TypeStep
<1>0. CASE UNCHANGED vars
  BY <1>0, <1>t, Shrinks DEF vars, VisibleTo
<1> USE QuotaAssumption
<1>a. ASSUME IsFiniteSet(reservations), NEW t \in Turn
      PROVE  /\ IsFiniteSet(VisibleTo(t))
             /\ Cardinality(VisibleTo(t)) \in Nat
             /\ Cardinality(VisibleTo(t)) <= Cardinality(reservations)
             /\ Cardinality(reservations) \in Nat
  BY <1>a, FS_Subset, FS_CardinalityType DEF VisibleTo
<1>1. ASSUME NEW t \in Turn, LockSubject(t)
      PROVE  Bounded'
  BY <1>1, <1>t, Shrinks DEF LockSubject, Goto, Forget, VisibleTo, TypeOK
<1>2. ASSUME NEW t \in Turn, Prune(t)
      PROVE  Bounded'
  BY <1>2, <1>t, Shrinks DEF Prune, Goto, VisibleTo, TypeOK, Unlocked
<1>3. ASSUME NEW t \in Turn, ReadUsed(t)
      PROVE  Bounded'
  <2>1. /\ pc' = [pc EXCEPT ![t] = "read_reserved"]
        /\ used' = [used EXCEPT ![t] = count]
        /\ UNCHANGED <<count, reservations, deleter>>
    BY <1>3 DEF ReadUsed, Goto
  <2>2. IsFiniteSet(reservations) /\ Cardinality(reservations) \in Nat
    BY FS_CardinalityType DEF Bounded
  <2> QED BY <2>1, <2>2 DEF Bounded, TypeOK, VisibleTo
<1>4. ASSUME NEW t \in Turn, CountReserved(t)
      PROVE  Bounded'
  <2>1. ASSUME used[t] + Cardinality(VisibleTo(t)) < Limit, Goto(t, "insert"),
               UNCHANGED <<count, reservations, expired, advisory, deleter, used, batch>>
        PROVE  Bounded'
    <3>1. pc[t] = "read_reserved" /\ pc' = [pc EXCEPT ![t] = "insert"]
      BY <1>4, <2>1 DEF CountReserved, Goto
    <3> QED BY <2>1, <3>1 DEF Bounded, TypeOK, VisibleTo
  <2>2. ASSUME reservations' = VisibleTo(t), Forget(t), Goto(t, "refused"),
               used' = [used EXCEPT ![t] = 0], UNCHANGED count
        PROVE  Bounded'
    BY <2>2, <1>4, <1>t, Shrinks DEF CountReserved, Goto, Forget, VisibleTo, TypeOK
  <2> QED BY <1>4, <2>1, <2>2 DEF CountReserved
<1>5. ASSUME NEW t \in Turn, Reserve(t)
      PROVE  Bounded'
  <2>1. /\ pc[t] = "insert"
        /\ reservations' = VisibleTo(t) \cup {t}
        /\ count' = count
        /\ \A o \in Turn : pc'[o] \notin Checking
    BY <1>5 DEF Reserve, Goto, TypeOK, Backed, LockIsHeld, Checking
  <2>2. /\ IsFiniteSet(VisibleTo(t))
        /\ Cardinality(VisibleTo(t)) \in Nat
        /\ Cardinality(VisibleTo(t)) <= Cardinality(reservations)
        /\ Cardinality(reservations) \in Nat
    BY <1>a DEF Bounded
  <2>3. /\ IsFiniteSet(reservations')
        /\ Cardinality(reservations') \in Nat
        /\ Cardinality(reservations') <= Cardinality(VisibleTo(t)) + 1
    <3>1. /\ IsFiniteSet(VisibleTo(t) \cup {t})
          /\ Cardinality(VisibleTo(t) \cup {t}) <= Cardinality(VisibleTo(t)) + 1
      BY <2>2, FS_AddElement
    <3> QED BY <2>1, <3>1, FS_CardinalityType
  <2>4. Limit > 0 => /\ count + Cardinality(reservations) <= used[t] + Limit
                     /\ used[t] + Cardinality(VisibleTo(t)) < Limit
    BY <2>1 DEF Bounded
  <2>5. Limit > 0 => /\ Cardinality(reservations') <= Limit
                     /\ count' + Cardinality(reservations') <= 2 * Limit
    BY <2>1, <2>2, <2>3, <2>4 DEF TypeOK
  <2> QED BY <2>1, <2>3, <2>5 DEF Bounded, Checking
<1>6. ASSUME NEW t \in Turn, CrashReserving(t)
      PROVE  Bounded'
  BY <1>6, <1>t, Shrinks DEF CrashReserving, Goto, Forget, VisibleTo, TypeOK
<1>7. ASSUME NEW t \in Turn, ConfirmFind(t)
      PROVE  Bounded'
  BY <1>7, <1>t, Shrinks DEF ConfirmFind, Goto, Forget, VisibleTo, TypeOK
<1>8. ASSUME NEW t \in Turn, ConfirmDelete(t)
      PROVE  Bounded'
  BY <1>8, <1>t, Shrinks DEF ConfirmDelete, Goto, Forget, VisibleTo, TypeOK
<1>9. ASSUME NEW t \in Turn, ConfirmIncrement(t)
      PROVE  Bounded'
  BY <1>9, <1>t, Shrinks DEF ConfirmIncrement, Goto, Forget, VisibleTo, TypeOK
<1>10. ASSUME NEW t \in Turn, ConfirmCommit(t)
      PROVE  Bounded'
  <2>1. t \in reservations /\ VisibleTo(t) = reservations \ {t}
    BY <1>10 DEF ConfirmCommit, VisibleTo, TypeOK, Backed, DeletedOnce, ConfirmsItsOwn, Checking
  <2>2. \A o \in Turn : VisibleTo(o)' \subseteq VisibleTo(o)
    BY <1>10, <2>1 DEF ConfirmCommit, Forget, VisibleTo, TypeOK
  <2> QED BY <1>10, <1>t, <2>1, <2>2, Shrinks DEF ConfirmCommit, Goto, TypeOK
<1>11. ASSUME NEW t \in Turn, Rollback(t)
      PROVE  Bounded'
  BY <1>11, <1>t, Shrinks DEF Rollback, Goto, Forget, VisibleTo, TypeOK
<1>12. ASSUME NEW t \in Turn, CrashHolding(t)
      PROVE  Bounded'
  BY <1>12, <1>t, Shrinks DEF CrashHolding, Goto, Forget, VisibleTo, TypeOK
<1>13. ASSUME NEW t \in Turn, Expire(t)
      PROVE  Bounded'
  BY <1>13, <1>t, Shrinks DEF Expire, Goto, Forget, VisibleTo, TypeOK
<1>14. CASE ReclaimSelect
  BY <1>14, <1>t, Shrinks DEF ReclaimSelect, VisibleTo, TypeOK
<1>15. CASE ReclaimDelete
  BY <1>15, <1>t, Shrinks DEF ReclaimDelete, VisibleTo, TypeOK
<1> QED BY <1>0, <1>1, <1>2, <1>3, <1>4, <1>5, <1>6, <1>7, <1>8, <1>9, <1>10, <1>11, <1>12, <1>13, <1>14, <1>15 DEF Next, Reserving, Confirming, Reclaim

-----------------------------------------------------------------------------
\* The inductive invariant.  The bound is not inductive by itself: it needs what the
\* turn that holds the lock has read, and that a confirmation takes its own row.
LEMMA Invariance == Spec => []IInv
<1>1. Init => IInv
  <2> SUFFICES ASSUME Init PROVE IInv
    OBVIOUS
  <2>1. TypeOK
    BY QuotaAssumption DEF Init, TypeOK, Label, Owner
  <2>2. Backed
    BY QuotaAssumption DEF Init, Backed, LockIsHeld, DeletedOnce, ConfirmsItsOwn,
                           RowsAreInserted, Checking, Unreserved
  <2>3. Bounded
    BY QuotaAssumption, FS_EmptySet DEF Init, Bounded
  <2> QED BY <2>1, <2>2, <2>3 DEF IInv
<1>2. IInv /\ [Next]_vars => IInv'
  BY TypeStep, BackedStep, BoundedStep DEF IInv
<1> QED BY <1>1, <1>2, PTL DEF Spec

\* However reservations, confirmations, refunds, expiry, reclaim and crashes of any
\* number of turns interleave, the messages of a day and its live reservations never
\* exceed twice the limit that reserve_daily_quota enforces.
THEOREM DayIsBounded == Spec => []QuotaIsSound
<1>1. IInv => QuotaIsSound
  BY DEF IInv, QuotaIsSound, Bounded, OversellBounded
<1> QED BY <1>1, Invariance, PTL

\* confirm_daily_quota counts a message only by consuming the reservation of its turn,
\* and a turn loses its reservation uncounted only after it has expired.
THEOREM EveryCountIsBacked == Spec => CountsAreBacked
<1> DEFINE Consumes == count' # count =>
                         /\ count' = count + 1
                         /\ \E t \in reservations : reservations' = reservations \ {t}
           Keeps == \A t \in reservations \ reservations' :
                       t \in expired \/ pc'[t] \in {"counted", "refunded"}
<1>1. ASSUME IInv, [Next]_vars
      PROVE  Consumes /\ Keeps
  <2> USE <1>1 DEF IInv, TypeOK, Backed, LockIsHeld, DeletedOnce, ConfirmsItsOwn,
       RowsAreInserted, Checking, Unreserved, Goto, Forget, VisibleTo
  <2>0. CASE UNCHANGED vars
    BY <2>0 DEF vars
  <2>1. ASSUME NEW t \in Turn, LockSubject(t)
        PROVE  Consumes /\ Keeps
    BY <2>1 DEF LockSubject
  <2>2. ASSUME NEW t \in Turn, Prune(t)
        PROVE  Consumes /\ Keeps
    BY <2>2 DEF Prune
  <2>3. ASSUME NEW t \in Turn, ReadUsed(t)
        PROVE  Consumes /\ Keeps
    BY <2>3 DEF ReadUsed
  <2>4. ASSUME NEW t \in Turn, CountReserved(t)
        PROVE  Consumes /\ Keeps
    BY <2>4 DEF CountReserved
  <2>5. ASSUME NEW t \in Turn, Reserve(t)
        PROVE  Consumes /\ Keeps
    BY <2>5 DEF Reserve
  <2>6. ASSUME NEW t \in Turn, CrashReserving(t)
        PROVE  Consumes /\ Keeps
    BY <2>6 DEF CrashReserving
  <2>7. ASSUME NEW t \in Turn, ConfirmFind(t)
        PROVE  Consumes /\ Keeps
    BY <2>7 DEF ConfirmFind
  <2>8. ASSUME NEW t \in Turn, ConfirmDelete(t)
        PROVE  Consumes /\ Keeps
    BY <2>8 DEF ConfirmDelete
  <2>9. ASSUME NEW t \in Turn, ConfirmIncrement(t)
        PROVE  Consumes /\ Keeps
    BY <2>9 DEF ConfirmIncrement
  <2>10. ASSUME NEW t \in Turn, ConfirmCommit(t)
        PROVE  Consumes /\ Keeps
    BY <2>10 DEF ConfirmCommit
  <2>11. ASSUME NEW t \in Turn, Rollback(t)
        PROVE  Consumes /\ Keeps
    BY <2>11 DEF Rollback
  <2>12. ASSUME NEW t \in Turn, CrashHolding(t)
        PROVE  Consumes /\ Keeps
    BY <2>12 DEF CrashHolding
  <2>13. ASSUME NEW t \in Turn, Expire(t)
        PROVE  Consumes /\ Keeps
    BY <2>13 DEF Expire
  <2>14. CASE ReclaimSelect
    BY <2>14 DEF ReclaimSelect
  <2>15. CASE ReclaimDelete
    BY <2>15 DEF ReclaimDelete
  <2> QED BY <2>0, <2>1, <2>2, <2>3, <2>4, <2>5, <2>6, <2>7, <2>8, <2>9, <2>10, <2>11, <2>12, <2>13, <2>14, <2>15 DEF Next, Reserving, Confirming, Reclaim
<1>2. ASSUME IInv, [Next]_vars
      PROVE  [Consumes]_vars /\ [Keeps]_vars
  BY <1>1, <1>2
<1> QED BY <1>2, Invariance, PTL DEF Spec, CountsAreBacked, CountConsumesReservation, LostOnlyByExpiry
=============================================================================
