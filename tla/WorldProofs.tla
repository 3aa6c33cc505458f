----------------------------- MODULE WorldProofs -----------------------------
(***************************************************************************)
(* What is proved about the companion world, for any number of people,     *)
(* processes and rows: the inbox of notices, the residents, letters and    *)
(* wishes, visits and the chat of two people, and the feed of posts.       *)
(***************************************************************************)
EXTENDS AppInbox, WorldCast, WorldMail, WorldVisits, WorldFeed, FiniteSetTheorems, WellFoundedInduction, TLAPS

LEMMA AtMostOneMember ==
    ASSUME NEW S, \A x, y \in S : x = y
    PROVE  Cardinality(S) <= 1
<1>1. CASE S = {}
  BY <1>1, FS_EmptySet
<1>2. CASE S # {}
  <2>1. PICK x \in S : TRUE
    BY <1>2
  <2>2. S = {x}
    BY <2>1
  <2> QED BY <2>2, FS_Singleton
<1> QED BY <1>1, <1>2
-----------------------------------------------------------------------------
(***************************************************************************)
(* The inbox of notices: AppInbox.                                         *)
(***************************************************************************)
NoticeRow == [status : {"none", "reserved", "visible", "cancelled"}, token : SUBSET Notifier,
              lapsed : BOOLEAN, read : BOOLEAN]
Seen == {m \in Notice : InInbox(m)}
Kept == {m \in Notice \ stale : InInbox(m)}

\* The touch of a day: shown lately and not pruned, or reserved, whether or not the
\* reservation has lapsed; a lapsed one may still be finalized.
Touch == {n \in HumanNotice : \/ n \in recent /\ InInbox(n)
                              \/ notice[n].status = "reserved"}

InboxInv ==
    /\ notice \in [Notice -> NoticeRow]
    /\ earlier \in [Notice -> SUBSET Notice]
    /\ notifier \in [Notifier -> SUBSET HumanNotice]
    /\ stale \subseteq Notice /\ recent \subseteq HumanNotice
    /\ \A n \in Notice : earlier[n] \subseteq Seen
    /\ \A m, n \in Touch : m = n
    /\ IsFiniteSet(Seen) /\ Cardinality(Kept) <= MaxVisible

LEMMA InboxTypes ==
    ASSUME InboxInv, NEW n \in Notice
    PROVE  notice[n] \in NoticeRow /\ earlier[n] \subseteq Notice /\ earlier[n] \subseteq Seen
BY DEF InboxInv

LEMMA KeptIsFinite ==
    ASSUME IsFiniteSet(Seen)
    PROVE  IsFiniteSet(Kept) /\ Cardinality(Kept) \in Nat
<1>1. Kept \subseteq Seen
  BY DEF Kept, Seen
<1> QED BY <1>1, FS_Subset, FS_CardinalityType

\* A step that shows and deletes no notice and reserves none.
LEMMA InboxStays ==
    ASSUME InboxInv, notice' \in [Notice -> NoticeRow], earlier' = earlier,
           notifier' \in [Notifier -> SUBSET HumanNotice],
           stale \subseteq stale', stale' \subseteq Notice, recent' \subseteq recent,
           \A m \in Notice : notice'[m].status = "visible" <=> notice[m].status = "visible",
           \A m \in HumanNotice : notice'[m].status = "reserved" => notice[m].status = "reserved"
    PROVE  InboxInv'
<1>1. Seen' = Seen
  BY DEF Seen, InInbox
<1>2. Kept' \subseteq Kept
  BY DEF Kept, InInbox
<1>3. Cardinality(Kept') <= Cardinality(Kept) /\ Cardinality(Kept') \in Nat
  BY <1>2, KeptIsFinite, FS_Subset, FS_CardinalityType DEF InboxInv
<1>4. Touch' \subseteq Touch
  BY DEF Touch, Notice, InInbox
<1>5. \A m, n \in Touch' : m = n
  BY <1>4 DEF InboxInv
<1>6. Cardinality(Kept') <= MaxVisible
  BY <1>3, KeptIsFinite, InboxBounds DEF InboxInv
<1>7. recent' \subseteq HumanNotice
  BY DEF InboxInv
<1>8. /\ IsFiniteSet(Seen') /\ earlier' \in [Notice -> SUBSET Notice]
      /\ \A n \in Notice : earlier'[n] \subseteq Seen'
  BY <1>1 DEF InboxInv
<1> QED BY <1>5, <1>6, <1>7, <1>8 DEF InboxInv

\* Each step that only marks rows, gives up or takes time.
LEMMA MarkKeeps ==
    ASSUME InboxInv,
           \/ \E p \in Notifier, n \in HumanNotice : CancelHuman(p, n)
           \/ \E p \in Notifier : DropReservation(p)
           \/ \E D \in SUBSET Notice : ReadNotices(D)
           \/ \E n \in Notice : CancelLapsed(n) \/ LeaseLapses(n) \/ DayPasses(n) \/ NoticeExpires(n)
           \/ ResidentsMove
           \/ UNCHANGED inboxVars
    PROVE  InboxInv'
<1>1. /\ notice \in [Notice -> NoticeRow] /\ notifier \in [Notifier -> SUBSET HumanNotice]
      /\ stale \subseteq Notice /\ HumanNotice \subseteq Notice
  BY DEF InboxInv, Notice
<1>2. [NoNotice EXCEPT !.status = "cancelled"] \in NoticeRow
      /\ [NoNotice EXCEPT !.status = "cancelled"].status = "cancelled"
  BY DEF NoNotice, NoticeRow
<1>3. ASSUME NEW p \in Notifier, notifier' = [notifier EXCEPT ![p] = {}]
      PROVE  notifier' \in [Notifier -> SUBSET HumanNotice]
  BY <1>1, <1>3
<1>4. ASSUME NEW n \in Notice, notice[n].status = "reserved",
             notice' = [notice EXCEPT ![n] = [NoNotice EXCEPT !.status = "cancelled"]],
             UNCHANGED <<earlier, stale, recent>>, notifier' \in [Notifier -> SUBSET HumanNotice]
      PROVE  InboxInv'
  <2> DEFINE row == [NoNotice EXCEPT !.status = "cancelled"]
  <2> HIDE DEF row
  <2>1. row \in NoticeRow /\ row.status = "cancelled" /\ notice' = [notice EXCEPT ![n] = row]
    BY <1>2, <1>4 DEF row
  <2>2. /\ notice' \in [Notice -> NoticeRow] /\ notice'[n].status = "cancelled"
        /\ \A m \in Notice \ {n} : notice'[m] = notice[m]
    BY <1>1, <2>1
  <2>3. \A m \in Notice : notice'[m].status = "visible" <=> notice[m].status = "visible"
    BY <1>4, <2>2
  <2>4. \A m \in HumanNotice : notice'[m].status = "reserved" => notice[m].status = "reserved"
    BY <1>1, <1>4, <2>2
  <2> QED BY <1>1, <1>4, <2>2, <2>3, <2>4, InboxStays
<1>5. ASSUME NEW p \in Notifier, NEW n \in HumanNotice, CancelHuman(p, n) PROVE InboxInv'
  BY <1>1, <1>3, <1>4, <1>5 DEF CancelHuman, HoldsReservation
<1>6. ASSUME NEW p \in Notifier, DropReservation(p) PROVE InboxInv'
  <2>1. notifier' \in [Notifier -> SUBSET HumanNotice]
    BY <1>3, <1>6 DEF DropReservation
  <2> QED BY <1>1, <1>6, <2>1, InboxStays DEF DropReservation
<1>7. ASSUME NEW D \in SUBSET Notice, ReadNotices(D) PROVE InboxInv'
  <2>1. ASSUME NEW n \in Notice
        PROVE  /\ notice'[n] \in NoticeRow
               /\ notice'[n].status = notice[n].status
    <3>1. notice[n] \in NoticeRow
      BY <1>1
    <3>2. [notice[n] EXCEPT !.read = TRUE] \in NoticeRow
          /\ [notice[n] EXCEPT !.read = TRUE].status = notice[n].status
      BY <3>1 DEF NoticeRow
    <3> QED BY <1>7, <3>1, <3>2 DEF ReadNotices
  <2>2. notice' \in [Notice -> NoticeRow]
    BY <1>7, <2>1 DEF ReadNotices
  <2> QED BY <1>1, <1>7, <2>1, <2>2, InboxStays DEF ReadNotices
<1>8. ASSUME NEW n \in Notice, CancelLapsed(n) PROVE InboxInv'
  BY <1>1, <1>4, <1>8 DEF CancelLapsed
<1>9. ASSUME NEW n \in Notice, LeaseLapses(n) PROVE InboxInv'
  <2>1. PICK old \in NoticeRow : old = notice[n]
    BY <1>1
  <2>2. PICK row \in NoticeRow : row = [old EXCEPT !.lapsed = TRUE] /\ row.status = old.status
    <3>1. [old EXCEPT !.lapsed = TRUE] \in NoticeRow /\ [old EXCEPT !.lapsed = TRUE].status = old.status
      BY <2>1 DEF NoticeRow
    <3> QED BY <3>1
  <2>3. notice' = [notice EXCEPT ![n] = row]
    BY <1>9, <2>1, <2>2 DEF LeaseLapses
  <2>4. /\ notice' \in [Notice -> NoticeRow]
        /\ \A m \in Notice : notice'[m].status = notice[m].status
    BY <1>1, <2>1, <2>2, <2>3
  <2> QED BY <1>1, <1>9, <2>4, InboxStays DEF LeaseLapses
<1>10. ASSUME NEW n \in Notice, DayPasses(n) PROVE InboxInv'
  BY <1>1, <1>10, InboxStays DEF DayPasses
<1>11. ASSUME NEW n \in Notice, NoticeExpires(n) PROVE InboxInv'
  BY <1>1, <1>11, InboxStays DEF NoticeExpires
<1>12. ASSUME ResidentsMove PROVE InboxInv'
  BY <1>1, <1>12, InboxStays DEF ResidentsMove
<1>13. ASSUME UNCHANGED inboxVars PROVE InboxInv'
  BY <1>1, <1>13, InboxStays DEF inboxVars
<1> QED BY <1>5, <1>6, <1>7, <1>8, <1>9, <1>10, <1>11, <1>12, <1>13

\* The second touch of a day: whoever reserves leaves no other reservation
\* behind, neither a live one nor one that has lapsed.
LEMMA ReserveKeeps ==
    ASSUME InboxInv, NEW p \in Notifier, NEW n \in HumanNotice, ReserveHuman(p, n)
    PROVE  InboxInv'
<1>1. /\ notice \in [Notice -> NoticeRow] /\ notifier \in [Notifier -> SUBSET HumanNotice]
      /\ stale \subseteq Notice /\ HumanNotice \subseteq Notice /\ recent \subseteq HumanNotice
  BY DEF InboxInv, Notice
<1>2. PICK held \in NoticeRow :
          held = [NoNotice EXCEPT !.status = "reserved", !.token = {p}] /\ held.status = "reserved"
  <2>1. /\ [NoNotice EXCEPT !.status = "reserved", !.token = {p}] \in NoticeRow
        /\ [NoNotice EXCEPT !.status = "reserved", !.token = {p}].status = "reserved"
    BY DEF NoNotice, NoticeRow
  <2> QED BY <2>1
<1>3. PICK out \in NoticeRow : out = [NoNotice EXCEPT !.status = "cancelled"] /\ out.status = "cancelled"
  <2>1. /\ [NoNotice EXCEPT !.status = "cancelled"] \in NoticeRow
        /\ [NoNotice EXCEPT !.status = "cancelled"].status = "cancelled"
    BY DEF NoNotice, NoticeRow
  <2> QED BY <2>1
<1>4. notice' = [m \in Notice |->
          IF m = n THEN held
          ELSE IF m \in HumanNotice /\ notice[m].status = "reserved" /\ notice[m].lapsed
          THEN out ELSE notice[m]]
  BY <1>2, <1>3 DEF ReserveHuman
<1>5. notice' \in [Notice -> NoticeRow] /\ notice'[n] = held
  BY <1>1, <1>2, <1>3, <1>4
<1>6. \A m \in HumanNotice \ {n} : notice'[m].status # "reserved" /\ ~(m \in recent /\ InInbox(m))
  BY <1>1, <1>3, <1>4 DEF ReserveHuman, NoLiveTouch
<1>7. \A m \in Notice : notice'[m].status = "visible" <=> notice[m].status = "visible"
  <2>1. notice[n].status # "visible"
    BY DEF ReserveHuman
  <2>2. ASSUME NEW m \in Notice \ {n} PROVE notice'[m].status = "visible" <=> notice[m].status = "visible"
    BY <1>3, <1>4
  <2> QED BY <1>2, <1>5, <2>1, <2>2
<1>8. Seen' = Seen
  BY <1>7 DEF Seen, InInbox
<1>9. Kept' = Kept
  <2>1. notice[n].status # "visible" /\ stale' = stale \ {n}
    BY DEF ReserveHuman
  <2> QED BY <1>7, <2>1 DEF Kept, InInbox
<1>10. \A m, k \in Touch' : m = k
  <2>1. recent' = recent
    BY DEF ReserveHuman
  <2>2. Touch' \subseteq {n}
    BY <1>1, <1>6, <1>7, <2>1 DEF Touch, InInbox
  <2> QED BY <2>2
<1>11. notifier' \in [Notifier -> SUBSET HumanNotice]
  BY <1>1 DEF ReserveHuman
<1>12. earlier' = earlier /\ recent' \subseteq HumanNotice /\ stale' \subseteq Notice
  BY <1>1 DEF ReserveHuman
<1> QED BY <1>5, <1>8, <1>9, <1>10, <1>11, <1>12 DEF InboxInv

\* Deleting what has expired, and the rows that a claim of room takes with it.
LEMMA DeleteKeeps ==
    ASSUME InboxInv, NEW n \in Notice, DeleteStale(n)
    PROVE  InboxInv'
<1>1. /\ notice \in [Notice -> NoticeRow] /\ earlier \in [Notice -> SUBSET Notice]
      /\ stale \subseteq Notice /\ HumanNotice \subseteq Notice
  BY DEF InboxInv, Notice
<1>2. NoNotice \in NoticeRow /\ NoNotice.status = "none"
  BY DEF NoNotice, NoticeRow
<1>3. /\ notice' \in [Notice -> NoticeRow] /\ notice'[n].status = "none"
      /\ \A m \in Notice \ {n} : notice'[m] = notice[m]
  BY <1>1, <1>2 DEF DeleteStale, Deleted
<1>4. /\ earlier' \in [Notice -> SUBSET Notice]
      /\ \A m \in Notice : earlier'[m] \subseteq earlier[m] \ {n}
  BY <1>1 DEF DeleteStale, Without
<1>5. Seen' = Seen \ {n} /\ IsFiniteSet(Seen')
  <2>1. Seen' = Seen \ {n}
    BY <1>3 DEF Seen, InInbox
  <2> QED BY <2>1, FS_Subset DEF InboxInv
<1>6. \A m \in Notice : earlier'[m] \subseteq Seen'
  BY <1>4, <1>5 DEF InboxInv
<1>7. Kept' = Kept
  <2>1. stale' = stale \ {n} /\ n \in stale
    BY DEF DeleteStale
  <2> QED BY <1>3, <2>1 DEF Kept, InInbox
<1>8. Touch' \subseteq Touch
  <2>1. recent' = recent
    BY DEF DeleteStale
  <2> QED BY <1>1, <1>3, <2>1 DEF Touch, InInbox
<1>9. \A m, k \in Touch' : m = k
  BY <1>8 DEF InboxInv
<1>10. /\ notifier' = notifier /\ recent' = recent /\ stale' \subseteq Notice
  BY <1>1 DEF DeleteStale
<1> QED BY <1>3, <1>4, <1>5, <1>6, <1>7, <1>9, <1>10 DEF InboxInv

\* What is kept and one notice more, less as many as overflow, is not more
\* than a person keeps.
LEMMA RoomIsMade ==
    ASSUME IsFiniteSet(Seen), NEW n \in Notice, NEW D \in PrunedFor(n),
           NEW K, K = (Kept \cup {n}) \ D
    PROVE  IsFiniteSet(K) /\ Cardinality(K) <= MaxVisible
<1> DEFINE L == Kept \cup {n}
<1>1. IsFiniteSet(L) /\ Cardinality(L) \in Nat
  BY KeptIsFinite, FS_AddElement, FS_CardinalityType
<1>2. D \subseteq L /\ IsFiniteSet(D) /\ Cardinality(D) = Overflow(n)
  <2>1. D \subseteq L
    BY DEF PrunedFor, Kept
  <2>2. Cardinality(D) = Overflow(n)
    BY DEF PrunedFor
  <2> HIDE DEF L
  <2> QED BY <1>1, <2>1, <2>2, FS_Subset
<1>3. K = L \ D /\ L \cap D = D
  BY <1>2
<1>4. Overflow(n) = IF Cardinality(L) > MaxVisible THEN Cardinality(L) - MaxVisible ELSE 0
  BY DEF Overflow, Kept
<1> HIDE DEF L
<1>5. IsFiniteSet(K) /\ Cardinality(K) = Cardinality(L) - Cardinality(D)
  <2>1. IsFiniteSet(L \ D) /\ Cardinality(L \ D) = Cardinality(L) - Cardinality(L \cap D)
    BY <1>1, FS_Difference
  <2> QED BY <1>3, <2>1
<1> QED BY <1>1, <1>2, <1>4, <1>5, InboxBounds

LEMMA ShowKeeps ==
    ASSUME InboxInv, NEW n \in Notice, NEW row \in NoticeRow, row.status = "visible",
           ShowNotice(n, row), notifier' \in [Notifier -> SUBSET HumanNotice],
           n \in HumanNotice => n \in Touch
    PROVE  InboxInv'
<1>1. /\ notice \in [Notice -> NoticeRow] /\ earlier \in [Notice -> SUBSET Notice]
      /\ stale \subseteq Notice /\ HumanNotice \subseteq Notice /\ recent \subseteq HumanNotice
      /\ IsFiniteSet(Seen)
  BY DEF InboxInv, Notice
<1>2. PICK D \in PrunedFor(n) :
          LET gone == (D \cup stale) \ {n}
          IN  /\ notice' = [Deleted(gone) EXCEPT ![n] = row]
              /\ earlier' = [Without(gone) EXCEPT ![n] = {m \in Notice \ gone : InInbox(m)}]
              /\ stale' = {}
              /\ recent' = recent \cup ({n} \cap HumanNotice)
  BY DEF ShowNotice
<1> DEFINE gone == (D \cup stale) \ {n}
<1>3. D \subseteq Notice /\ D \subseteq Kept
  BY DEF PrunedFor, Kept
<1>4. NoNotice \in NoticeRow /\ NoNotice.status = "none"
  BY DEF NoNotice, NoticeRow
<1>5. /\ Deleted(gone) \in [Notice -> NoticeRow]
      /\ \A m \in Notice : Deleted(gone)[m] = (IF m \in gone THEN NoNotice ELSE notice[m])
  BY <1>1, <1>4 DEF Deleted
<1>6. /\ notice' \in [Notice -> NoticeRow] /\ notice'[n] = row
      /\ \A m \in Notice \ {n} : notice'[m] = (IF m \in gone THEN NoNotice ELSE notice[m])
  BY <1>2, <1>5
<1>7. /\ earlier' \in [Notice -> SUBSET Notice]
      /\ earlier'[n] = {m \in Notice \ gone : InInbox(m)}
      /\ \A m \in Notice \ {n} : earlier'[m] \subseteq earlier[m] \ gone
  <2>1. /\ Without(gone) \in [Notice -> SUBSET Notice]
        /\ \A m \in Notice : Without(gone)[m] \subseteq earlier[m] \ gone
    BY <1>1 DEF Without
  <2> QED BY <1>2, <2>1
<1>8. Seen' = (Seen \ gone) \cup {n}
  <2>1. ASSUME NEW m \in Notice \ {n} PROVE m \in Seen' <=> m \in Seen \ gone
    BY <1>4, <1>6, <2>1 DEF Seen, InInbox
  <2>2. n \in Seen'
    BY <1>6 DEF Seen, InInbox
  <2>3. Seen \subseteq Notice /\ Seen' \subseteq Notice
    BY DEF Seen
  <2> QED BY <2>1, <2>2, <2>3
<1>9. IsFiniteSet(Seen')
  <2>1. IsFiniteSet(Seen \ gone)
    BY <1>1, FS_Subset
  <2> QED BY <1>8, <2>1, FS_AddElement
<1>10. ASSUME NEW m \in Notice PROVE earlier'[m] \subseteq Seen'
  <2>1. CASE m = n
    BY <1>7, <1>8, <2>1 DEF Seen
  <2>2. CASE m # n
    BY <1>7, <1>8, <2>2 DEF InboxInv
  <2> QED BY <2>1, <2>2
<1>11. Kept' = (Kept \cup {n}) \ D
  <2>1. Kept' = Seen'
    BY <1>2 DEF Kept, Seen
  <2>2. Kept = Seen \ stale /\ n \notin D
    BY DEF Kept, Seen, PrunedFor
  <2> QED BY <1>8, <2>1, <2>2
<1>12. Cardinality(Kept') <= MaxVisible
  BY <1>1, <1>11, RoomIsMade
<1>13. Touch' \subseteq Touch
  <2>1. \A m \in HumanNotice : notice'[m].status = "reserved" => notice[m].status = "reserved"
    BY <1>1, <1>4, <1>6
  <2>2. \A m \in HumanNotice \ {n} : InInbox(m)' => InInbox(m)
    BY <1>1, <1>4, <1>6 DEF InInbox
  <2> QED BY <1>2, <2>1, <2>2 DEF Touch
<1>14. \A m, k \in Touch' : m = k
  BY <1>13 DEF InboxInv
<1>15. stale' \subseteq Notice /\ recent' \subseteq HumanNotice
  BY <1>1, <1>2
<1> QED BY <1>6, <1>7, <1>9, <1>10, <1>12, <1>14, <1>15 DEF InboxInv

LEMMA DeliverKeeps ==
    ASSUME InboxInv,
           \/ \E n \in ResidentNotice : DeliverResidentNotice(n)
           \/ \E p \in Notifier, n \in HumanNotice : FinalizeHuman(p, n)
    PROVE  InboxInv'
<1>1. PICK row \in NoticeRow : row = [NoNotice EXCEPT !.status = "visible"] /\ row.status = "visible"
  <2>1. [NoNotice EXCEPT !.status = "visible"] \in NoticeRow
        /\ [NoNotice EXCEPT !.status = "visible"].status = "visible"
    BY DEF NoNotice, NoticeRow
  <2> QED BY <2>1
<1>2. notifier \in [Notifier -> SUBSET HumanNotice]
  BY DEF InboxInv
<1>3. ASSUME NEW n \in ResidentNotice, DeliverResidentNotice(n) PROVE InboxInv'
  <2>1. n \in Notice /\ n \notin HumanNotice
    BY InboxBounds DEF Notice
  <2>2. ShowNotice(n, row) /\ notifier' \in [Notifier -> SUBSET HumanNotice]
    BY <1>1, <1>2, <1>3 DEF DeliverResidentNotice
  <2> QED BY <1>1, <2>1, <2>2, ShowKeeps
<1>4. ASSUME NEW p \in Notifier, NEW n \in HumanNotice, FinalizeHuman(p, n) PROVE InboxInv'
  <2>1. n \in Notice /\ n \in Touch
    BY <1>4 DEF FinalizeHuman, HoldsReservation, Notice, Touch
  <2>2. ShowNotice(n, row) /\ notifier' \in [Notifier -> SUBSET HumanNotice]
    BY <1>1, <1>2, <1>4 DEF FinalizeHuman
  <2> QED BY <1>1, <2>1, <2>2, ShowKeeps
<1> QED BY <1>3, <1>4

LEMMA InboxStart == InboxInit => InboxInv
<1> SUFFICES ASSUME InboxInit PROVE InboxInv
  OBVIOUS
<1>1. NoNotice \in NoticeRow /\ NoNotice.status = "none"
  BY DEF NoNotice, NoticeRow
<1>2. /\ notice \in [Notice -> NoticeRow] /\ \A n \in Notice : notice[n].status = "none"
      /\ earlier \in [Notice -> SUBSET Notice] /\ \A n \in Notice : earlier[n] = {}
      /\ notifier \in [Notifier -> SUBSET HumanNotice] /\ stale = {} /\ recent = {}
  BY <1>1 DEF InboxInit
<1>3. Seen = {} /\ Kept = {} /\ Touch = {}
  BY <1>2 DEF Seen, Kept, Touch, InInbox, Notice
<1>4. IsFiniteSet(Seen) /\ Cardinality(Kept) = 0
  BY <1>3, FS_EmptySet
<1> QED BY <1>2, <1>3, <1>4, InboxBounds DEF InboxInv

LEMMA InboxShows == InboxInv => OneTouchInTheInbox
<1> SUFFICES ASSUME InboxInv PROVE OneTouchInTheInbox
  OBVIOUS
<1>1. InboxTypeOK
  <2>1. \A n \in Notice : /\ notice[n].status \in {"none", "reserved", "visible", "cancelled"}
                          /\ notice[n].token \subseteq Notifier
    BY DEF InboxInv, NoticeRow
  <2> QED BY <2>1 DEF InboxTypeOK, InboxInv, Seen
<1>2. Cardinality({n \in HumanNotice : \/ n \in recent /\ InInbox(n)
                                       \/ notice[n].status = "reserved" /\ ~notice[n].lapsed}) <= 1
  <2> DEFINE S == {n \in HumanNotice : \/ n \in recent /\ InInbox(n)
                                       \/ notice[n].status = "reserved" /\ ~notice[n].lapsed}
  <2>1. \A x, y \in S : x = y
    BY DEF InboxInv, Touch
  <2> HIDE DEF S
  <2>2. Cardinality(S) <= 1
    BY <2>1, AtMostOneMember
  <2> QED BY <2>2 DEF S
<1>3. Cardinality({n \in Notice \ stale : InInbox(n)}) <= MaxVisible
  BY DEF InboxInv, Kept
<1> QED BY <1>1, <1>2, <1>3 DEF OneTouchInTheInbox

\* However reservations lapse, are taken over and are finalized late, for any
\* number of processes and notices: of the notices that the inbox still holds one at
\* most is under way or was shown in the last day, and there are no more than the limit.
THEOREM InboxTouchesOnce == InboxSpec => []OneTouchInTheInbox
<1>1. ASSUME InboxInv, InboxNext PROVE InboxInv'
  <2>1. ASSUME ReadAllNotices PROVE InboxInv'
    <3> DEFINE D == {n \in Notice : InInbox(n) /\ n \notin stale /\ ~notice[n].read}
    <3>1. D \in SUBSET Notice /\ ReadNotices(D)
      BY <2>1 DEF ReadAllNotices
    <3> HIDE DEF D
    <3> QED BY <1>1, <3>1, MarkKeeps
  <2>2. ASSUME NEW n \in Notice, ReadNotice(n) PROVE InboxInv'
    <3>1. {n} \in SUBSET Notice
      OBVIOUS
    <3> QED BY <1>1, <2>2, <3>1, MarkKeeps DEF ReadNotice
  <2>3. ASSUME NEW p \in Notifier, NEW n \in HumanNotice,
               ReserveHuman(p, n) \/ FinalizeHuman(p, n) \/ CancelHuman(p, n)
        PROVE  InboxInv'
    BY <1>1, <2>3, ReserveKeeps, DeliverKeeps, MarkKeeps
  <2> QED BY <1>1, <2>1, <2>2, <2>3, DeliverKeeps, DeleteKeeps, MarkKeeps DEF InboxNext
<1>2. InboxInv /\ UNCHANGED inboxVars => InboxInv'
  BY MarkKeeps
<1> QED BY <1>1, <1>2, InboxStart, InboxShows, PTL DEF InboxSpec
-----------------------------------------------------------------------------
(***************************************************************************)
(* Residents: WorldCast.                                                   *)
(***************************************************************************)
LifeStatus == {"none", "candidate", "active", "offline", "dismissed"}
DraftStatus == {"none", "open", "stale", "consumed"}
Facts == {"quiet", "mismatch", "abuse", "crisis"}
DepartureRow ==
    [round : 0..MaxRounds,
     status : {"none", "cooling_down", "review_pending", "cancelled", "rejected", "committed"},
     kind : Kind \cup {"none"}, ripe : BOOLEAN, farewell : {"none", "published", "hidden"}]
ScopeRow == [who : Resident, crowd : Nat, known : SUBSET Facts, event : DepartureRow]
ApprovalRow == [who : Resident, exception : BOOLEAN, locked : BOOLEAN]

CastTypes ==
    /\ onboarding \in {"preparing", "selecting", "confirmed"}
    /\ life \in [Resident -> LifeStatus] /\ talk \in [Resident -> {"none", "active", "read_only"}]
    /\ draft \in [Draft -> DraftStatus] /\ asking \subseteq Request
    /\ talking \in [Resident -> BOOLEAN] /\ facts \in [Resident -> SUBSET Facts]
    /\ news \in 0..MaxNews /\ departure \in [Resident -> DepartureRow]
    /\ scan \in [Scanner -> SUBSET ScopeRow] /\ approval \subseteq ApprovalRow

CastRoom == IsFiniteSet(Known) /\ Cardinality(Living) <= Capacity

\* Who exists has used a draft up, and a request that has read its draft has
\* not made its resident yet.
CastDrafts ==
    /\ onboarding = "preparing" => \A r \in Resident : life[r] = "none"
    /\ \A q \in Request : life[q] # "none" => draft[DraftOf[q]] = "consumed"
    /\ \A p, q \in Request : p # q /\ DraftOf[p] = DraftOf[q] => "none" \in {life[p], life[q]}
    /\ \A q \in asking : life[q] = "none"

CastTalks == \A r \in Resident : talking[r] => talk[r] = "active"

\* The approval under way keeps what it has judged by its row locks.
CastApproval ==
    /\ \A a, b \in approval : a = b
    /\ \A a \in approval : /\ life[a.who] = "active" /\ MayLeave(a.who, a.exception)
                           /\ a.locked => ~talking[a.who]

CastInv == CastTypes /\ CastRoom /\ CastDrafts /\ CastTalks /\ CastApproval

LastLeave == Living # {} /\ Living' = {} =>
                 \E a \in approval : a.exception /\ departure[a.who].kind = "severe_abuse"

LEMMA LivingIsFinite ==
    ASSUME IsFiniteSet(Known)
    PROVE  IsFiniteSet(Living) /\ Cardinality(Living) \in Nat
<1>1. Living \subseteq Known
  BY DEF Living, Known
<1> QED BY <1>1, FS_Subset, FS_CardinalityType

\* A step of an actor that adds and removes no resident.
LEMMA PeopleStay ==
    ASSUME CastInv, UNCHANGED people, CastTypes', CastDrafts', CastTalks', CastApproval'
    PROVE  CastInv' /\ LastLeave
<1>1. Known' = Known /\ Living' = Living
  BY DEF people, Known, Living
<1>2. CastRoom'
  BY <1>1 DEF CastInv, CastRoom
<1> QED BY <1>1, <1>2 DEF CastInv, LastLeave

\* A step under the lock of the world, so that no approval is under way, that
\* makes the residents of R active.
LEMMA PeopleCome ==
    ASSUME CastInv, WorldFree, approval' = approval, NEW R, Living' = Living \cup R,
           Cardinality(Living \cup R) <= Capacity, IsFiniteSet(Known'),
           CastTypes', CastDrafts', CastTalks'
    PROVE  CastInv' /\ LastLeave
<1>1. CastRoom'
  BY DEF CastRoom
<1>2. CastApproval'
  BY DEF WorldFree, CastApproval
<1>3. LastLeave
  BY DEF LastLeave
<1> QED BY <1>1, <1>2, <1>3 DEF CastInv

\* One more resident, or one more candidate.
LEMMA OneComes ==
    ASSUME CastInv, NEW r \in Resident, WorldFree, life[r] \in {"none", "candidate"},
           onboarding # "preparing",
           \/ life' = [life EXCEPT ![r] = "candidate"] /\ talk' = talk
           \/ HasRoom /\ Activated({r}),
           UNCHANGED <<onboarding, talking, facts, news, departure, scan, approval>>,
           draft' \in [Draft -> DraftStatus], asking' \subseteq asking \ {r},
           \A d \in Draft : draft[d] = "consumed" => draft'[d] = "consumed",
           r \in Request => draft'[DraftOf[r]] = "consumed" /\ draft[DraftOf[r]] # "consumed"
    PROVE  CastInv' /\ LastLeave
<1> USE DEF CastInv
<1>1. /\ life \in [Resident -> LifeStatus] /\ talk \in [Resident -> {"none", "active", "read_only"}]
      /\ asking \subseteq Request /\ IsFiniteSet(Known) /\ Cardinality(Living) <= Capacity
  BY DEF CastTypes, CastRoom
<1>2. PICK s \in {"candidate", "active"} :
          /\ life' = [m \in Resident |-> IF m = r THEN s ELSE life[m]]
          /\ s = "active" => HasRoom
  BY <1>1 DEF Activated
<1>3. life' \in [Resident -> LifeStatus] /\ life'[r] = s /\ \A m \in Resident \ {r} : life'[m] = life[m]
  BY <1>1, <1>2 DEF LifeStatus
<1>4. /\ talk' \in [Resident -> {"none", "active", "read_only"}]
      /\ \A m \in Resident : talk[m] = "active" => talk'[m] = "active"
  BY <1>1 DEF Activated
<1>5. CastTypes'
  BY <1>3, <1>4 DEF CastTypes
<1>6. CastTalks'
  BY <1>4 DEF CastTalks
<1>7. CastDrafts'
  <2>1. \A q \in Request : life'[q] # "none" => draft'[DraftOf[q]] = "consumed"
    BY <1>3, CastBounds DEF CastDrafts, Resident
  <2>2. ASSUME NEW m \in Request, NEW q \in Request, m # q, DraftOf[m] = DraftOf[q]
        PROVE  "none" \in {life'[m], life'[q]}
    BY <1>3, <2>2, CastBounds DEF CastDrafts, Resident
  <2>3. \A q \in asking' : life'[q] = "none"
    BY <1>1, <1>3 DEF CastDrafts, Resident
  <2> QED BY <2>1, <2>2, <2>3 DEF CastDrafts
<1>8. IsFiniteSet(Known')
  <2>1. Known' = Known \cup {r}
    BY <1>2, <1>3 DEF Known
  <2> QED BY <1>1, <2>1, FS_AddElement
<1>9. CASE s = "active"
  <2>1. Living' = Living \cup {r}
    BY <1>3, <1>9 DEF Living
  <2>2. HasRoom
    BY <1>2, <1>9
  <2>3. Cardinality(Living \cup {r}) <= Capacity
    <3>1. IsFiniteSet(Living) /\ Cardinality(Living) \in Nat
      BY <1>1, LivingIsFinite
    <3>2. Cardinality(Living \cup {r}) \in {Cardinality(Living), Cardinality(Living) + 1}
      BY <3>1, FS_AddElement
    <3> QED BY <1>1, <2>2, <3>1, <3>2, CastBounds DEF HasRoom
  <2> QED BY <1>5, <1>6, <1>7, <1>8, <2>1, <2>3, PeopleCome
<1>10. CASE s = "candidate"
  <2>1. Living' = Living \cup {}
    BY <1>3, <1>10 DEF Living
  <2>2. Cardinality(Living \cup {}) <= Capacity
    BY <1>1
  <2> QED BY <1>5, <1>6, <1>7, <1>8, <2>1, <2>2, PeopleCome
<1> QED BY <1>9, <1>10

LEMMA BootstrapKeeps == CastInv /\ Bootstrap => CastInv' /\ LastLeave
<1> SUFFICES ASSUME CastInv, Bootstrap PROVE CastInv' /\ LastLeave
  OBVIOUS
<1>1. life' = [r \in Resident |-> IF r \in Initial THEN "candidate" ELSE life[r]]
      /\ \A r \in Resident : life[r] = "none"
  BY DEF Bootstrap, CastInv, CastDrafts
<1>2. life' \in [Resident -> LifeStatus] /\ \A r \in Resident : life'[r] \in {"none", "candidate"}
  BY <1>1 DEF LifeStatus
<1>3. CastTypes'
  BY <1>2 DEF Bootstrap, CastInv, CastTypes, paper
<1>4. \A q \in Request : life'[q] = "none" /\ life[q] = "none"
  BY <1>1, CastBounds DEF Resident
<1>5. CastDrafts'
  BY <1>4 DEF Bootstrap, CastInv, CastTypes, CastDrafts, paper
<1>6. CastTalks'
  BY DEF Bootstrap, CastInv, CastTalks
<1>7. IsFiniteSet(Known')
  <2>1. Known' \subseteq Initial
    BY <1>1 DEF Known
  <2> QED BY <2>1, CastBounds, FS_Subset
<1>8. Living' = Living \cup {} /\ Living = {}
  BY <1>1, <1>2 DEF Living
<1>9. Cardinality(Living \cup {}) <= Capacity
  BY <1>8, FS_EmptySet, CastBounds
<1> QED BY <1>3, <1>5, <1>6, <1>7, <1>8, <1>9, PeopleCome DEF Bootstrap

LEMMA ConfirmKeeps ==
    ASSUME CastInv, NEW S \in SUBSET Resident, Confirm(S)
    PROVE  CastInv' /\ LastLeave
<1> DEFINE new == {r \in S : life[r] = "candidate"}
<1>1. /\ Cardinality(Living) + Cardinality(new) \in 1..Capacity
      /\ life' = [r \in Resident |-> IF r \in new THEN "active"
                                     ELSE IF life[r] = "candidate" THEN "dismissed" ELSE life[r]]
      /\ talk' = [r \in Resident |-> IF r \in new THEN "active" ELSE talk[r]]
  BY DEF Confirm
<1>2. /\ life \in [Resident -> LifeStatus] /\ talk \in [Resident -> {"none", "active", "read_only"}]
      /\ asking \subseteq Request /\ IsFiniteSet(Known)
  BY DEF CastInv, CastTypes, CastRoom
<1>3. new \subseteq Known /\ new \cap Living = {}
  BY <1>2 DEF Known, Living, LifeStatus
<1>4. Cardinality(Living \cup new) = Cardinality(Living) + Cardinality(new)
  <2>1. IsFiniteSet(new)
    BY <1>2, <1>3, FS_Subset
  <2>2. Living \cap new = {}
    BY <1>3
  <2> HIDE DEF new
  <2>3. IsFiniteSet(Living) /\ Cardinality(Living) \in Nat /\ Cardinality(new) \in Nat
    BY <1>2, <2>1, LivingIsFinite, FS_CardinalityType
  <2>4. Cardinality(Living \cap new) = 0
    BY <2>2, FS_EmptySet
  <2>5. Cardinality(Living \cup new) = Cardinality(Living) + Cardinality(new) - Cardinality(Living \cap new)
    BY <2>1, <2>3, FS_Union
  <2> QED BY <2>3, <2>4, <2>5
<1>5. Cardinality(Living \cup new) <= Capacity
  BY <1>1, <1>4, CastBounds
<1>6. Living' = Living \cup new
  BY <1>1, <1>2 DEF Living
<1>7. /\ life' \in [Resident -> LifeStatus]
      /\ \A r \in Resident : life'[r] = "none" <=> life[r] = "none"
  BY <1>1, <1>2 DEF LifeStatus
<1>8. Known' = Known
  BY <1>7 DEF Known
<1>9. /\ talk' \in [Resident -> {"none", "active", "read_only"}]
      /\ \A r \in Resident : talk[r] = "active" => talk'[r] = "active"
  BY <1>1, <1>2
<1>10. CastTypes'
  BY <1>7, <1>9 DEF Confirm, CastInv, CastTypes, paper
<1>11. CastDrafts'
  <2>1. Request \subseteq Resident /\ UNCHANGED paper /\ onboarding' = "confirmed"
    BY DEF Confirm, Resident
  <2>2. \A q \in Request : life'[q] # "none" => draft'[DraftOf[q]] = "consumed"
    BY <1>7, <2>1 DEF CastInv, CastDrafts, paper
  <2>3. ASSUME NEW m \in Request, NEW q \in Request, m # q, DraftOf[m] = DraftOf[q]
        PROVE  "none" \in {life'[m], life'[q]}
    BY <1>7, <2>1, <2>3 DEF CastInv, CastDrafts
  <2>4. \A q \in asking' : life'[q] = "none"
    BY <1>2, <1>7, <2>1 DEF CastInv, CastDrafts, paper
  <2> QED BY <2>1, <2>2, <2>3, <2>4 DEF CastDrafts
<1>12. CastTalks'
  BY <1>9 DEF Confirm, CastInv, CastTalks
<1> HIDE DEF new
<1> QED BY <1>2, <1>5, <1>6, <1>8, <1>10, <1>11, <1>12, PeopleCome DEF Confirm

LEMMA ArrivalKeeps ==
    ASSUME CastInv,
           \/ \E r \in Preset : CreateFromTemplate(r)
           \/ \E r \in Caller : MoveInByLetter(r)
           \/ \E q \in Request : MakeResident(q)
    PROVE  CastInv' /\ LastLeave
<1>1. /\ draft \in [Draft -> DraftStatus] /\ asking \subseteq Request
      /\ \A q \in asking : life[q] = "none"
      /\ onboarding = "preparing" => \A r \in Resident : life[r] = "none"
  BY DEF CastInv, CastTypes, CastDrafts
<1>2. ASSUME NEW r \in Preset, CreateFromTemplate(r) PROVE CastInv' /\ LastLeave
  <2>1. r \in Resident /\ r \notin Request /\ asking \subseteq asking \ {r}
    BY <1>1, CastBounds DEF Resident
  <2>2. \/ life' = [life EXCEPT ![r] = "candidate"] /\ talk' = talk
        \/ HasRoom /\ Activated({r})
    BY <1>2 DEF CreateFromTemplate
  <2>3. /\ WorldFree /\ life[r] \in {"none", "candidate"} /\ onboarding # "preparing"
        /\ UNCHANGED <<onboarding, talking, facts, news, departure, scan, approval>>
        /\ draft' = draft /\ asking' = asking
    BY <1>2 DEF CreateFromTemplate, paper
  <2> QED BY <1>1, <2>1, <2>2, <2>3, OneComes
<1>3. ASSUME NEW r \in Caller, MoveInByLetter(r) PROVE CastInv' /\ LastLeave
  <2>1. r \in Resident /\ r \notin Request /\ asking \subseteq asking \ {r}
    BY <1>1, CastBounds DEF Resident
  <2>2. HasRoom /\ Activated({r})
    BY <1>3 DEF MoveInByLetter
  <2>3. /\ WorldFree /\ life[r] \in {"none", "candidate"} /\ onboarding # "preparing"
        /\ UNCHANGED <<onboarding, talking, facts, news, departure, scan, approval>>
        /\ draft' = draft /\ asking' = asking
    BY <1>3 DEF MoveInByLetter, paper
  <2> QED BY <1>1, <2>1, <2>2, <2>3, OneComes
<1>4. ASSUME NEW q \in Request, MakeResident(q) PROVE CastInv' /\ LastLeave
  <2>1. /\ q \in Resident /\ DraftOf[q] \in Draft /\ WorldFree /\ q \in asking /\ asking' = asking \ {q}
        /\ UNCHANGED <<onboarding, talking, facts, news, departure, scan, approval>>
    BY <1>4, CastBounds DEF MakeResident, Resident
  <2>2. CASE Consumable(DraftOf[q]) /\ draft' = [draft EXCEPT ![DraftOf[q]] = "consumed"]
             /\ onboarding # "preparing"
             /\ \/ life' = [life EXCEPT ![q] = "candidate"] /\ talk' = talk
                \/ HasRoom /\ Activated({q})
    <3>1. /\ draft' \in [Draft -> DraftStatus] /\ draft'[DraftOf[q]] = "consumed"
          /\ \A d \in Draft : draft[d] = "consumed" => draft'[d] = "consumed"
      BY <1>1, <2>1, <2>2 DEF DraftStatus
    <3>2. draft[DraftOf[q]] # "consumed" /\ life[q] = "none"
      BY <1>1, <2>1, <2>2 DEF Consumable
    <3> QED BY <1>1, <2>1, <2>2, <3>1, <3>2, OneComes
  <2>3. CASE UNCHANGED <<draft, life, talk>>
    <3>1. CastTypes' /\ CastDrafts'
      BY <2>1, <2>3 DEF CastInv, CastTypes, CastDrafts
    <3>2. CastTalks' /\ CastApproval'
      BY <2>1, <2>3 DEF CastInv, CastTalks, CastApproval, MayLeave, Living
    <3>3. UNCHANGED people
      BY <2>1, <2>3 DEF people
    <3> QED BY <3>1, <3>2, <3>3, PeopleStay
  <2> QED BY <1>4, <2>2, <2>3 DEF MakeResident
<1> QED BY <1>2, <1>3, <1>4

LEMMA ApprovalStays ==
    ASSUME CastInv, life' = life, approval' = approval,
           \A a \in approval : departure'[a.who].kind = departure[a.who].kind
                               /\ (a.locked /\ talking'[a.who] => talking[a.who])
    PROVE  CastApproval'
<1>1. Living' = Living
  BY DEF Living
<1>2. \A a \in approval : MayLeave(a.who, a.exception)'
  BY <1>1 DEF CastInv, CastApproval, MayLeave
<1> QED BY <1>2 DEF CastInv, CastApproval

\* Requests and drafts.
LEMMA PaperKeeps ==
    ASSUME CastInv,
           \/ \E d \in Draft : PreviewDraft(d) \/ DraftExpires(d)
           \/ \E q \in Request : AskResident(q)
    PROVE  CastInv' /\ LastLeave
<1>1. UNCHANGED <<people, talking, facts, news, departure, scan, approval>>
  BY DEF PreviewDraft, DraftExpires, AskResident
<1> DEFINE Ordered ==
        /\ draft' \in [Draft -> DraftStatus] /\ asking' \subseteq Request
        /\ \A d \in Draft : draft[d] = "consumed" => draft'[d] = "consumed"
        /\ \A q \in asking' : life[q] = "none"
<1>2. Ordered
  <2>0. /\ draft \in [Draft -> DraftStatus] /\ asking \subseteq Request
        /\ \A q \in asking : life[q] = "none"
    BY DEF CastInv, CastTypes, CastDrafts
  <2>1. ASSUME NEW d \in Draft, PreviewDraft(d) PROVE Ordered
    BY <2>0, <2>1 DEF PreviewDraft, DraftStatus
  <2>2. ASSUME NEW d \in Draft, DraftExpires(d) PROVE Ordered
    BY <2>0, <2>2 DEF DraftExpires, DraftStatus
  <2>3. ASSUME NEW q \in Request, AskResident(q) PROVE Ordered
    BY <2>0, <2>3 DEF AskResident
  <2> QED BY <2>1, <2>2, <2>3
<1>3. CastTypes'
  BY <1>1, <1>2 DEF CastInv, CastTypes, people
<1>4. CastDrafts'
  BY <1>1, <1>2, CastBounds DEF CastInv, CastDrafts, people
<1>5. CastTalks' /\ CastApproval'
  BY <1>1, ApprovalStays DEF CastInv, CastTalks, people
<1> QED BY <1>1, <1>3, <1>4, <1>5, PeopleStay

\* Turns and what becomes known.
LEMMA TalkKeeps ==
    ASSUME CastInv, NEW r \in Resident,
           \/ EnterTalk(r) \/ SpeakInTalk(r) \/ LeaveTalk(r)
           \/ \E f \in Fact : FactArises(r, f) \/ FactFades(r, f)
    PROVE  CastInv' /\ LastLeave
<1>0. /\ talking \in [Resident -> BOOLEAN] /\ facts \in [Resident -> SUBSET Facts]
      /\ news \in 0..MaxNews /\ approval \subseteq ApprovalRow
  BY DEF CastInv, CastTypes
<1>1. UNCHANGED <<people, paper, departure, scan, approval>>
  BY DEF EnterTalk, SpeakInTalk, LeaveTalk, FactArises, FactFades
<1>2. facts' \in [Resident -> SUBSET Facts]
  <2>1. CASE EnterTalk(r) \/ LeaveTalk(r)
    BY <1>0, <2>1 DEF EnterTalk, LeaveTalk
  <2>2. CASE SpeakInTalk(r)
    BY <1>0, <2>2 DEF SpeakInTalk
  <2>3. ASSUME NEW f \in Fact, FactArises(r, f) \/ FactFades(r, f) PROVE facts' \in [Resident -> SUBSET Facts]
    <3>1. f \in Facts
      BY CastBounds DEF Facts
    <3>2. facts' = [facts EXCEPT ![r] = @ \cup {f}] \/ facts' = [facts EXCEPT ![r] = @ \ {f}]
      BY <2>3 DEF FactArises, FactFades
    <3>3. CASE facts' = [facts EXCEPT ![r] = @ \cup {f}]
      BY <1>0, <3>1, <3>3
    <3>4. CASE facts' = [facts EXCEPT ![r] = @ \ {f}]
      BY <1>0, <3>4
    <3> QED BY <3>2, <3>3, <3>4
  <2> QED BY <2>1, <2>2, <2>3
<1>3. news' \in 0..MaxNews
  BY <1>0, CastBounds DEF EnterTalk, SpeakInTalk, LeaveTalk, FactArises, FactFades
<1>4. PICK b \in BOOLEAN : /\ talking' = [talking EXCEPT ![r] = b]
                           /\ b /\ ~talking[r] => /\ talk[r] = "active"
                                                  /\ \A a \in approval : a.who = r => ~a.locked
  <2>1. CASE EnterTalk(r)
    BY <1>0, <2>1 DEF EnterTalk
  <2>2. CASE LeaveTalk(r)
    BY <1>0, <2>2 DEF LeaveTalk
  <2>3. CASE talking' = talking
    <3>1. talking' = [talking EXCEPT ![r] = talking[r]] /\ talking[r] \in BOOLEAN
      BY <1>0, <2>3
    <3> QED BY <3>1
  <2> QED BY <2>1, <2>2, <2>3 DEF SpeakInTalk, FactArises, FactFades
<1>5. /\ talking' \in [Resident -> BOOLEAN]
      /\ \A m \in Resident : talking'[m] = (IF m = r THEN b ELSE talking[m])
  BY <1>0, <1>4
<1>6. CastTypes'
  BY <1>1, <1>2, <1>3, <1>5 DEF CastInv, CastTypes, people, paper
<1>7. CastDrafts'
  BY <1>1 DEF CastInv, CastDrafts, people, paper
<1>8. CastTalks'
  BY <1>1, <1>4, <1>5 DEF CastInv, CastTalks, people
<1>9. \A a \in approval : a.who \in Resident /\ (a.locked /\ talking'[a.who] => talking[a.who])
  BY <1>0, <1>4, <1>5 DEF ApprovalRow
<1>10. CastApproval'
  BY <1>1, <1>9, ApprovalStays DEF people
<1> QED BY <1>1, <1>6, <1>7, <1>8, <1>10, PeopleStay

\* A step that writes only departures, and what a scanner or an approval holds.
LEMMA DeparturesMove ==
    ASSUME CastInv, UNCHANGED <<people, paper, talking, facts, news>>,
           departure' \in [Resident -> DepartureRow], scan' \in [Scanner -> SUBSET ScopeRow],
           approval' \subseteq ApprovalRow, CastApproval'
    PROVE  CastInv' /\ LastLeave
<1>1. CastTypes' /\ CastDrafts' /\ CastTalks'
  BY DEF CastInv, CastTypes, CastDrafts, CastTalks, people, paper
<1> QED BY <1>1, PeopleStay

LEMMA StatusMoves ==
    ASSUME CastInv, NEW r \in Resident, NEW row \in DepartureRow, departure' = [departure EXCEPT ![r] = row],
           row.kind = departure[r].kind \/ approval = {},
           UNCHANGED <<people, paper, talking, facts, news, approval>>,
           scan' \in [Scanner -> SUBSET ScopeRow]
    PROVE  CastInv' /\ LastLeave
<1>1. departure \in [Resident -> DepartureRow] /\ approval \subseteq ApprovalRow
  BY DEF CastInv, CastTypes
<1>2. departure' \in [Resident -> DepartureRow]
      /\ \A m \in Resident : departure'[m] = (IF m = r THEN row ELSE departure[m])
  BY <1>1
<1>3. ASSUME NEW a \in approval
      PROVE  departure'[a.who].kind = departure[a.who].kind /\ (a.locked /\ talking'[a.who] => talking[a.who])
  BY <1>1, <1>2, <1>3 DEF ApprovalRow
<1>4. CastApproval'
  BY <1>3, ApprovalStays DEF people
<1> QED BY <1>1, <1>2, <1>4, DeparturesMove

\* What a scanner, an operator or time writes about a departure.
LEMMA ScanKeeps ==
    ASSUME CastInv,
           \/ \E s \in Scanner : (\E r \in Resident : ReadScope(s, r)) \/ CreateCandidate(s) \/ Revalidate(s)
           \/ \E r \in Resident : CooldownEnds(r) \/ HideFarewell(r)
           \/ \E r \in Resident, status \in {"rejected", "cancelled"} : Reject(r, status)
    PROVE  CastInv' /\ LastLeave
<1>0. /\ departure \in [Resident -> DepartureRow] /\ scan \in [Scanner -> SUBSET ScopeRow]
      /\ facts \in [Resident -> SUBSET Facts] /\ approval \subseteq ApprovalRow /\ IsFiniteSet(Known)
  BY DEF CastInv, CastTypes, CastRoom
<1>1. ASSUME NEW s \in Scanner, NEW r \in Resident, ReadScope(s, r) PROVE CastInv' /\ LastLeave
  <2>1. /\ UNCHANGED <<people, paper, talking, facts, news, departure, approval>>
        /\ scan' = [scan EXCEPT ![s] = {[who |-> r, crowd |-> Cardinality(Living), known |-> facts[r],
                                         event |-> departure[r]]}]
    BY <1>1 DEF ReadScope
  <2>2. [who |-> r, crowd |-> Cardinality(Living), known |-> facts[r], event |-> departure[r]] \in ScopeRow
    BY <1>0, LivingIsFinite DEF ScopeRow
  <2>3. scan' \in [Scanner -> SUBSET ScopeRow]
    BY <1>0, <2>1, <2>2
  <2>4. CastApproval'
    BY <2>1, ApprovalStays DEF people
  <2> QED BY <1>0, <2>1, <2>3, <2>4, DeparturesMove
<1>2. ASSUME NEW r \in Resident, NEW status \in {"cancelled", "review_pending", "rejected"}, NEW seen,
             Transition(r, seen, status), UNCHANGED <<people, paper, talking, facts, news, approval>>,
             scan' \in [Scanner -> SUBSET ScopeRow]
      PROVE  CastInv' /\ LastLeave
  <2>1. PICK old \in DepartureRow : old = departure[r]
    BY <1>0
  <2>2. [old EXCEPT !.status = status] \in DepartureRow /\ [old EXCEPT !.status = status].kind = old.kind
    BY DEF DepartureRow
  <2>3. PICK row \in DepartureRow : departure' = [departure EXCEPT ![r] = row] /\ row.kind = departure[r].kind
    BY <1>2, <2>1, <2>2 DEF Transition
  <2> QED BY <1>2, <2>3, StatusMoves
<1>3. ASSUME NEW s \in Scanner, scan' = [scan EXCEPT ![s] = {}] PROVE scan' \in [Scanner -> SUBSET ScopeRow]
  BY <1>0, <1>3
<1>4. ASSUME NEW s \in Scanner, CreateCandidate(s) PROVE CastInv' /\ LastLeave
  <2>1. PICK v \in scan[s] :
          departure' = [departure EXCEPT ![v.who] =
              IF Open(v.who) \/ life[v.who] # "active" \/ Candidate(v) = {} \/ @.round = MaxRounds THEN @
              ELSE LET c == CHOOSE c \in Candidate(v) : TRUE
                   IN  [NoDeparture EXCEPT !.round = 1 + departure[v.who].round,
                                           !.status = c.status, !.kind = c.kind]]
    BY <1>4 DEF CreateCandidate
  <2>2. /\ WorldFree /\ UNCHANGED <<people, paper, talking, facts, news, approval>>
        /\ scan' = [scan EXCEPT ![s] = {}]
    BY <1>4 DEF CreateCandidate
  <2>3. PICK r \in Resident : r = v.who
    BY <1>0 DEF ScopeRow
  <2>4. PICK old \in DepartureRow : old = departure[r]
    BY <1>0
  <2> DEFINE c == CHOOSE c \in Candidate(v) : TRUE
  <2> DEFINE new == [NoDeparture EXCEPT !.round = 1 + old.round, !.status = c.status, !.kind = c.kind]
  <2>5. ASSUME Candidate(v) # {}, old.round # MaxRounds PROVE new \in DepartureRow
    <3>1. c \in Candidate(v)
      BY <2>5
    <3>2. c.kind \in Kind /\ c.status \in {"review_pending", "cooling_down"}
      <4> HIDE DEF c
      <4> QED BY <3>1 DEF Candidate, Kind
    <3>3. 1 + old.round \in 0..MaxRounds
      BY <2>4, <2>5, CastBounds DEF DepartureRow
    <3> HIDE DEF c
    <3> QED BY <3>2, <3>3 DEF DepartureRow, NoDeparture
  <2>6. PICK row \in DepartureRow : departure' = [departure EXCEPT ![r] = row]
    <3>1. CASE Open(r) \/ life[r] # "active" \/ Candidate(v) = {} \/ old.round = MaxRounds
      <4>1. departure' = [departure EXCEPT ![r] = old]
        BY <2>1, <2>3, <2>4, <3>1
      <4> QED BY <4>1
    <3>2. CASE ~(Open(r) \/ life[r] # "active" \/ Candidate(v) = {} \/ old.round = MaxRounds)
      <4>1. departure' = [departure EXCEPT ![r] = new]
        BY <2>1, <2>3, <2>4, <3>2
      <4>2. new \in DepartureRow
        BY <2>5, <3>2
      <4> HIDE DEF new
      <4> QED BY <4>1, <4>2
    <3> QED BY <3>1, <3>2
  <2>7. approval = {} /\ scan' \in [Scanner -> SUBSET ScopeRow]
    BY <1>3, <2>2 DEF WorldFree
  <2> QED BY <2>2, <2>6, <2>7, StatusMoves
<1>5. ASSUME NEW s \in Scanner, Revalidate(s) PROVE CastInv' /\ LastLeave
  <2>1. PICK v \in scan[s] :
            \/ Transition(v.who, v.event, "cancelled")
            \/ Transition(v.who, v.event, "review_pending")
            \/ departure' = departure
    BY <1>5 DEF Revalidate
  <2>2. UNCHANGED <<people, paper, talking, facts, news, approval>> /\ scan' = [scan EXCEPT ![s] = {}]
    BY <1>5 DEF Revalidate
  <2>3. v.who \in Resident
    BY <1>0 DEF ScopeRow
  <2>4. scan' \in [Scanner -> SUBSET ScopeRow]
    BY <1>3, <2>2
  <2>5. CASE departure' = departure
    <3>1. CastApproval'
      BY <2>2, <2>5, ApprovalStays DEF people
    <3> QED BY <1>0, <2>2, <2>4, <2>5, <3>1, DeparturesMove
  <2> QED BY <1>2, <2>1, <2>2, <2>3, <2>4, <2>5
<1>6. ASSUME NEW r \in Resident, CooldownEnds(r) \/ HideFarewell(r) PROVE CastInv' /\ LastLeave
  <2>1. PICK old \in DepartureRow : old = departure[r]
    BY <1>0
  <2>2. /\ [old EXCEPT !.ripe = TRUE] \in DepartureRow /\ [old EXCEPT !.ripe = TRUE].kind = old.kind
        /\ [old EXCEPT !.farewell = "hidden"] \in DepartureRow
        /\ [old EXCEPT !.farewell = "hidden"].kind = old.kind
    BY DEF DepartureRow
  <2>3. departure' \in {[departure EXCEPT ![r] = [old EXCEPT !.ripe = TRUE]],
                        [departure EXCEPT ![r] = [old EXCEPT !.farewell = "hidden"]]}
    BY <1>6, <2>1 DEF CooldownEnds, HideFarewell
  <2>4. PICK row \in DepartureRow : departure' = [departure EXCEPT ![r] = row] /\ row.kind = departure[r].kind
    BY <2>1, <2>2, <2>3
  <2>5. UNCHANGED <<people, paper, talking, facts, news, scan, approval>>
    BY <1>6 DEF CooldownEnds, HideFarewell
  <2> QED BY <1>0, <2>4, <2>5, StatusMoves
<1>7. ASSUME NEW r \in Resident, NEW status \in {"rejected", "cancelled"}, Reject(r, status)
      PROVE  CastInv' /\ LastLeave
  <2>1. /\ Transition(r, departure[r], status)
        /\ UNCHANGED <<people, paper, talking, facts, news, approval>> /\ scan' = scan
    BY <1>7 DEF Reject
  <2> QED BY <1>0, <1>2, <2>1
<1> QED BY <1>1, <1>4, <1>5, <1>6, <1>7

\* The approval of a departure: what it judged when it took the row locks
\* still holds when it commits, and no turn holds the conversation by then.
LEMMA ApprovalKeeps ==
    ASSUME CastInv, (\E r \in Resident, exception \in BOOLEAN : StartApproval(r, exception)) \/ LockTalk
    PROVE  CastInv' /\ LastLeave
<1>0. /\ departure \in [Resident -> DepartureRow] /\ scan \in [Scanner -> SUBSET ScopeRow]
      /\ approval \subseteq ApprovalRow
      /\ \A a, b \in approval : a = b
      /\ \A a \in approval : /\ life[a.who] = "active" /\ MayLeave(a.who, a.exception)
                             /\ a.locked => ~talking[a.who]
  BY DEF CastInv, CastTypes, CastApproval
<1>1. UNCHANGED <<people, paper, talking, facts, news, departure, scan>>
  BY DEF StartApproval, LockTalk
<1>2. ASSUME NEW r, NEW exception PROVE MayLeave(r, exception)' <=> MayLeave(r, exception)
  BY <1>1 DEF MayLeave, Living, people
<1>3. ASSUME NEW A, A \subseteq ApprovalRow, approval' = A, \A a, b \in A : a = b,
             \A a \in A : /\ life[a.who] = "active" /\ MayLeave(a.who, a.exception)
                          /\ a.locked => ~talking[a.who]
      PROVE  CastInv' /\ LastLeave
  <2>1. CastApproval'
    BY <1>1, <1>2, <1>3 DEF CastApproval, people
  <2> QED BY <1>0, <1>1, <1>3, <2>1, DeparturesMove
<1>4. ASSUME NEW r \in Resident, NEW exception \in BOOLEAN, StartApproval(r, exception)
      PROVE  CastInv' /\ LastLeave
  <2> DEFINE x == [who |-> r, exception |-> exception, locked |-> FALSE]
  <2>1. approval' = {x} /\ x \in ApprovalRow /\ MayLeave(x.who, x.exception) /\ ~x.locked
        /\ life[x.who] = "active"
    BY <1>4 DEF StartApproval, WorldFree, ApprovalRow
  <2> HIDE DEF x
  <2> QED BY <1>3, <2>1
<1>5. ASSUME LockTalk PROVE CastInv' /\ LastLeave
  <2>1. PICK a \in approval :
            \/ TalkFree(a.who) /\ approval' = (approval \ {a}) \cup {[a EXCEPT !.locked = TRUE]}
            \/ approval' = approval \ {a}
    BY <1>5 DEF LockTalk
  <2>2. PICK x \in ApprovalRow : x = [a EXCEPT !.locked = TRUE] /\ x.who = a.who /\ x.exception = a.exception
    <3>1. a \in ApprovalRow
      BY <1>0
    <3>2. /\ [a EXCEPT !.locked = TRUE] \in ApprovalRow
          /\ [a EXCEPT !.locked = TRUE].who = a.who /\ [a EXCEPT !.locked = TRUE].exception = a.exception
      BY <3>1 DEF ApprovalRow
    <3> QED BY <3>2
  <2>3. CASE TalkFree(a.who) /\ approval' = (approval \ {a}) \cup {[a EXCEPT !.locked = TRUE]}
    <3>1. /\ approval' = {x} /\ MayLeave(x.who, x.exception) /\ ~talking[x.who]
          /\ life[x.who] = "active"
      BY <1>0, <2>2, <2>3 DEF TalkFree
    <3> QED BY <1>3, <3>1
  <2>4. CASE approval' = approval \ {a}
    <3>1. approval' = {}
      BY <1>0, <2>4
    <3> QED BY <1>3, <3>1
  <2> QED BY <2>1, <2>3, <2>4
<1> QED BY <1>4, <1>5

LEMMA OfflineKeeps == CastInv /\ CommitOffline => CastInv' /\ LastLeave
<1> SUFFICES ASSUME CastInv, CommitOffline PROVE CastInv' /\ LastLeave
  OBVIOUS
<1>0. /\ life \in [Resident -> LifeStatus] /\ talk \in [Resident -> {"none", "active", "read_only"}]
      /\ departure \in [Resident -> DepartureRow] /\ approval \subseteq ApprovalRow
      /\ asking \subseteq Request /\ IsFiniteSet(Known) /\ Cardinality(Living) <= Capacity
      /\ \A a, b \in approval : a = b
      /\ \A a \in approval : /\ life[a.who] = "active" /\ MayLeave(a.who, a.exception)
                             /\ a.locked => ~talking[a.who]
  BY DEF CastInv, CastTypes, CastRoom, CastApproval
<1>1. PICK a \in approval :
          /\ a.locked
          /\ life' = [life EXCEPT ![a.who] = "offline"]
          /\ talk' = [talk EXCEPT ![a.who] = "read_only"]
          /\ departure' = [departure EXCEPT ![a.who].status = "committed", ![a.who].farewell = "published"]
          /\ approval' = approval \ {a}
  BY DEF CommitOffline
<1>2. UNCHANGED <<onboarding, paper, talking, facts, news, scan>>
  BY DEF CommitOffline
<1>3. PICK r \in Resident : 
          r = a.who /\ ~talking[r] /\ MayLeave(r, a.exception) /\ life[r] = "active"
  BY <1>0, <1>1 DEF ApprovalRow
<1>4. PICK old \in DepartureRow : old = departure[r]
  BY <1>0
<1>5. [old EXCEPT !.status = "committed", !.farewell = "published"] \in DepartureRow
  BY DEF DepartureRow
<1>6. departure' \in [Resident -> DepartureRow]
  <2>1. departure' = [departure EXCEPT ![r] = [old EXCEPT !.status = "committed", !.farewell = "published"]]
    BY <1>0, <1>1, <1>3, <1>4
  <2> QED BY <1>0, <1>5, <2>1
<1>7. /\ life' \in [Resident -> LifeStatus] /\ talk' \in [Resident -> {"none", "active", "read_only"}]
      /\ life'[r] = "offline"
      /\ \A m \in Resident \ {r} : life'[m] = life[m] /\ talk'[m] = talk[m]
  BY <1>0, <1>1, <1>3 DEF LifeStatus
<1>8. approval' = {}
  BY <1>0, <1>1
<1>9. CastTypes'
  BY <1>2, <1>6, <1>7, <1>8 DEF CastInv, CastTypes, paper
<1>10. CastTalks' /\ CastApproval'
  BY <1>2, <1>3, <1>7, <1>8 DEF CastInv, CastTalks, CastApproval
<1>11. \A m \in Resident : life'[m] = "none" <=> life[m] = "none"
  BY <1>3, <1>7
<1>12. CastDrafts'
  <2>1. Request \subseteq Resident
    BY DEF Resident
  <2>2. onboarding' = "preparing" => \A m \in Resident : life'[m] = "none"
    BY <1>2, <1>11 DEF CastInv, CastDrafts
  <2>3. \A q \in Request : life'[q] # "none" => draft'[DraftOf[q]] = "consumed"
    BY <1>2, <1>11, <2>1 DEF CastInv, CastDrafts, paper
  <2>4. ASSUME NEW m \in Request, NEW q \in Request, m # q, DraftOf[m] = DraftOf[q]
        PROVE  "none" \in {life'[m], life'[q]}
    BY <1>11, <2>1, <2>4 DEF CastInv, CastDrafts
  <2>5. \A q \in asking' : life'[q] = "none"
    BY <1>0, <1>2, <1>11, <2>1 DEF CastInv, CastDrafts, paper
  <2> QED BY <2>2, <2>3, <2>4, <2>5 DEF CastDrafts
<1>13. Known' = Known /\ Living' = Living \ {r}
  BY <1>7, <1>11 DEF Known, Living
<1>14. CastRoom'
  <2>1. IsFiniteSet(Living) /\ Cardinality(Living) \in Nat
    BY <1>0, LivingIsFinite
  <2>2. Cardinality(Living') <= Cardinality(Living) /\ Cardinality(Living') \in Nat
    BY <1>13, <2>1, FS_Subset, FS_CardinalityType
  <2>3. Cardinality(Living') <= Capacity
    BY <1>0, <2>1, <2>2, CastBounds
  <2> QED BY <1>0, <1>13, <2>3 DEF CastRoom
<1>15. LastLeave
  <2>1. SUFFICES ASSUME Living' = {}
                 PROVE  a.exception /\ departure[a.who].kind = "severe_abuse"
    BY DEF LastLeave
  <2>2. Living \subseteq {r} /\ Living # {}
    BY <1>3, <1>13, <2>1 DEF Living
  <2>3. Living = {r}
    BY <2>2
  <2>4. Cardinality(Living) = 1
    BY <2>3, FS_Singleton
  <2> QED BY <1>3, <2>4 DEF MayLeave
<1> QED BY <1>9, <1>10, <1>12, <1>14, <1>15 DEF CastInv

LEMMA CastMoves == CastInv /\ CastNext => CastInv' /\ LastLeave
BY BootstrapKeeps, ConfirmKeeps, ArrivalKeeps, PaperKeeps, TalkKeeps, ScanKeeps, ApprovalKeeps,
   OfflineKeeps DEF CastNext

LEMMA CastRests == CastInv /\ UNCHANGED castVars => CastInv' /\ LastLeave
<1> SUFFICES ASSUME CastInv, UNCHANGED castVars PROVE CastInv' /\ LastLeave
  OBVIOUS
<1>1. UNCHANGED <<people, paper, talking, facts, news, departure, scan, approval>>
  BY DEF castVars, people, paper
<1>2. CastApproval'
  BY <1>1, ApprovalStays DEF people
<1>3. CastTypes' /\ CastDrafts' /\ CastTalks'
  BY <1>1 DEF CastInv, CastTypes, CastDrafts, CastTalks, people, paper
<1> QED BY <1>1, <1>2, <1>3, PeopleStay

LEMMA CastStart == CastInit => CastInv
<1> SUFFICES ASSUME CastInit PROVE CastInv
  OBVIOUS
<1>1. NoDeparture \in DepartureRow
  BY CastBounds DEF NoDeparture, DepartureRow
<1>2. CastTypes
  BY <1>1, CastBounds DEF CastInit, CastTypes, LifeStatus, DraftStatus
<1>3. \A r \in Resident : life[r] = "none"
  BY DEF CastInit
<1>4. Known = {} /\ Living = {}
  BY <1>3 DEF Known, Living
<1>5. CastRoom
  BY <1>4, FS_EmptySet, CastBounds DEF CastRoom
<1>6. CastDrafts
  BY <1>3 DEF CastInit, CastDrafts, Resident
<1>7. CastTalks /\ CastApproval
  BY DEF CastInit, CastTalks, CastApproval
<1> QED BY <1>2, <1>5, <1>6, <1>7 DEF CastInv

\* However onboarding, drafts, letters, turns, scans and approvals interleave,
\* for any number of residents, requests and scanners: never more residents
\* than the capacity, never two of one draft, and no turn with one that left.
THEOREM ResidentsFit == CastSpec => []CastFits
<1>1. CastInv => CastFits
  BY DEF CastInv, CastTypes, CastRoom, CastDrafts, CastTalks, CastFits, CastTypeOK, DepartureRow,
         LifeStatus, DraftStatus, Facts
<1>2. CastInv /\ [CastNext]_castVars => CastInv'
  BY CastMoves, CastRests
<1> QED BY <1>1, <1>2, CastStart, PTL DEF CastSpec

\* The rule about the last resident, judged under the locks of the approval,
\* still holds when the approval commits.
THEOREM LastLeavesOnlyWithException == CastSpec => LastLeavesOnlyForAbuse
<1>1. CastInv /\ [CastNext]_castVars => CastInv'
  BY CastMoves, CastRests
<1>2. CastInv /\ [CastNext]_castVars => [LastLeave]_castVars
  BY CastMoves
<1>3. CastSpec => [][LastLeave]_castVars
  BY <1>1, <1>2, CastStart, PTL DEF CastSpec
<1> QED BY <1>3 DEF LastLeave, LastLeavesOnlyForAbuse
-----------------------------------------------------------------------------
(***************************************************************************)
(* Letters and wishes: WorldMail.                                          *)
(***************************************************************************)
LetterStatus == {"none", "accepted", "declined", "expired"} \cup Unanswered
WishRow == [status : {"none", "pending", "delivered", "withdrawn", "unfulfilled"},
            open : BOOLEAN, late : BOOLEAN]
JobRow == [status : {"none", "queued", "ready", "running", "completed", "dead", "cancelled"},
           token : SUBSET Granter, lease : {"none", "live", "expired"}, due : BOOLEAN, written : BOOLEAN]
DutyRow == [pc : {"idle", "tick", "write", "deliver"}, wish : SUBSET Wish, due : SUBSET Wish,
            late : SUBSET Wish]

\* The row of a wish and the letter of that wish tell one story.
OneStory(row, status) ==
    /\ row.status = "delivered" <=> status # "none"
    /\ row.open <=> row.status = "pending" \/ status \in Unanswered

LetterInv ==
    /\ letter \in [Letter -> LetterStatus] /\ retired \subseteq Letter
    /\ cooling \in BOOLEAN /\ homes \in 0..MaxHomes
    /\ overdue \subseteq {l \in Letter : letter[l] \in Unanswered}

WishInv ==
    /\ wish \in [Wish -> WishRow] /\ job \in [Wish -> JobRow] /\ granter \in [Granter -> DutyRow]
    /\ \A w \in Wish : OneStory(wish[w], letter[w])

MailInv == LetterInv /\ WishInv

LEMMA MailTypes ==
    ASSUME MailInv
    PROVE  /\ letter \in [Letter -> LetterStatus] /\ overdue \subseteq Letter
           /\ \A l \in overdue : letter[l] \in Unanswered
           /\ retired \subseteq Letter /\ cooling \in BOOLEAN /\ homes \in 0..MaxHomes
           /\ wish \in [Wish -> WishRow] /\ job \in [Wish -> JobRow] /\ granter \in [Granter -> DutyRow]
           /\ \A w \in Wish : OneStory(wish[w], letter[w]) /\ w \in Letter
BY DEF MailInv, LetterInv, WishInv, Letter

\* Letters end, and the wishes they came from with them.
LEMMA LettersEnd ==
    ASSUME MailInv, NEW L \in SUBSET Letter, \A l \in L : letter[l] \in Unanswered,
           NEW e \in {"accepted", "declined", "expired"},
           letter' = [l \in Letter |-> IF l \in L THEN e ELSE letter[l]],
           wish' = ClosedWith(L), overdue' = overdue \ L, homes' \in 0..MaxHomes,
           UNCHANGED <<retired, cooling, job, granter>>
    PROVE  MailInv'
<1>1. letter' \in [Letter -> LetterStatus]
      /\ \A l \in Letter : letter'[l] = (IF l \in L THEN e ELSE letter[l])
  BY MailTypes DEF LetterStatus
<1>2. LetterInv'
  BY <1>1, MailTypes DEF LetterInv
<1>3. ASSUME NEW w \in Wish
      PROVE  wish'[w] \in WishRow /\ OneStory(wish'[w], letter'[w])
  <2>1. PICK row \in WishRow : row = wish[w]
    BY MailTypes
  <2>2. OneStory(row, letter[w]) /\ w \in Letter
    BY <2>1, MailTypes
  <2>3. CASE w \in L
    <3>1. wish'[w] = [row EXCEPT !.open = FALSE] /\ letter'[w] = e
      BY <1>1, <2>1, <2>2, <2>3 DEF ClosedWith
    <3>2. row.status = "delivered"
      BY <2>2, <2>3 DEF OneStory, Unanswered
    <3> QED BY <3>1, <3>2 DEF WishRow, OneStory, Unanswered
  <2>4. CASE w \notin L
    BY <1>1, <2>1, <2>2, <2>4 DEF ClosedWith
  <2> QED BY <2>3, <2>4
<1>4. wish' \in [Wish -> WishRow]
  BY <1>3 DEF ClosedWith
<1> QED BY <1>2, <1>3, <1>4, MailTypes DEF MailInv, WishInv

LEMMA LetterKeeps ==
    ASSUME MailInv,
           \/ ExpireDueLetters \/ DeliveryCooldownEnds
           \/ \E l \in Organic : DeliverOrganic(l) \/ RetireCatalogue(l)
           \/ \E l \in Letter : LetterIsDue(l) \/ AcceptLetter(l)
           \/ \E l \in Letter, target \in {"read", "deferred", "declined"} : MarkLetter(l, target)
           \/ \E n \in 0..MaxHomes : OthersMove(n)
    PROVE  MailInv'
<1>1. CASE ExpireDueLetters
  <2>1. overdue' = overdue \ overdue /\ homes' = homes
    BY <1>1 DEF ExpireDueLetters
  <2> QED BY <1>1, <2>1, MailTypes, LettersEnd DEF ExpireDueLetters
<1>2. ASSUME NEW l \in Letter, letter[l] \in Unanswered, NEW e \in {"accepted", "declined", "expired"},
             letter' = [letter EXCEPT ![l] = e], wish' = ClosedWith({l}), overdue' = overdue \ {l},
             homes' \in 0..MaxHomes, UNCHANGED <<retired, cooling, job, granter>>
      PROVE  MailInv'
  <2>1. letter' = [m \in Letter |-> IF m \in {l} THEN e ELSE letter[m]]
    BY <1>2, MailTypes
  <2> QED BY <1>2, <2>1, LettersEnd
<1>3. ASSUME NEW l \in Letter, AcceptLetter(l) PROVE MailInv'
  <2>1. letter[l] \in Unanswered /\ wish' = ClosedWith({l}) /\ overdue' = overdue \ {l}
        /\ UNCHANGED <<retired, cooling, job, granter>>
    BY <1>3 DEF AcceptLetter
  <2>2. CASE letter' = [letter EXCEPT ![l] = "expired"] /\ homes' = homes
    BY <1>2, <2>1, <2>2, MailTypes
  <2>3. CASE Acceptable(l) /\ letter' = [letter EXCEPT ![l] = "accepted"] /\ homes' = homes + 1
    <3>1. homes' \in 0..MaxHomes
      BY <2>3, MailTypes, MailBounds DEF Acceptable
    <3> QED BY <1>2, <2>1, <2>3, <3>1
  <2> QED BY <1>3, <2>2, <2>3 DEF AcceptLetter
<1>4. ASSUME NEW l \in Letter, NEW s \in Unanswered, letter' = [letter EXCEPT ![l] = s],
             l \in Wish => letter[l] \in Unanswered,
             overdue' = overdue, cooling' \in BOOLEAN, UNCHANGED <<retired, homes, wish, job, granter>>
      PROVE  MailInv'
  <2>1. letter' \in [Letter -> LetterStatus]
        /\ \A m \in Letter : letter'[m] = (IF m = l THEN s ELSE letter[m])
    BY <1>4, MailTypes DEF LetterStatus
  <2>2. LetterInv'
    BY <1>4, <2>1, MailTypes DEF LetterInv
  <2>3. \A w \in Wish : OneStory(wish[w], letter'[w])
    BY <1>4, <2>1, MailTypes DEF OneStory, Unanswered
  <2> QED BY <1>4, <2>2, <2>3, MailTypes DEF MailInv, WishInv
<1>5. ASSUME NEW l \in Letter, NEW target \in {"read", "deferred", "declined"}, MarkLetter(l, target)
      PROVE  MailInv'
  <2>1. /\ letter[l] \in Unanswered /\ letter' = [letter EXCEPT ![l] = target]
        /\ UNCHANGED <<retired, cooling, homes, job, granter>>
    BY <1>5 DEF MarkLetter
  <2>2. CASE target = "declined"
    <3>1. overdue' = overdue \ {l} /\ wish' = ClosedWith({l})
      BY <1>5, <2>2 DEF MarkLetter
    <3> QED BY <1>2, <2>1, <2>2, <3>1, MailTypes
  <2>3. CASE target # "declined"
    <3>1. overdue' = overdue /\ wish' = wish /\ target \in Unanswered
      BY <1>5, <2>3 DEF MarkLetter, Unanswered
    <3> QED BY <1>4, <2>1, <3>1, MailTypes
  <2> QED BY <2>2, <2>3
<1>6. ASSUME NEW l \in Organic, DeliverOrganic(l) PROVE MailInv'
  <2>1. l \in Letter /\ l \notin Wish /\ "unread" \in Unanswered
    BY MailBounds DEF Letter, Unanswered
  <2>2. /\ letter' = [letter EXCEPT ![l] = "unread"] /\ cooling' = TRUE
        /\ UNCHANGED <<overdue, retired, homes, wish, job, granter>>
    BY <1>6 DEF DeliverOrganic
  <2> QED BY <1>4, <2>1, <2>2
<1>7. ASSUME letter' = letter, UNCHANGED <<wish, job, granter>>, LetterInv' PROVE MailInv'
  BY <1>7, MailTypes DEF MailInv, WishInv
<1>8. CASE DeliveryCooldownEnds
  BY <1>7, <1>8, MailTypes DEF DeliveryCooldownEnds, LetterInv
<1>9. ASSUME NEW l \in Organic, RetireCatalogue(l) PROVE MailInv'
  BY <1>7, <1>9, MailTypes DEF RetireCatalogue, LetterInv, Letter
<1>10. ASSUME NEW l \in Letter, LetterIsDue(l) PROVE MailInv'
  BY <1>7, <1>10, MailTypes DEF LetterIsDue, LetterInv
<1>11. ASSUME NEW n \in 0..MaxHomes, OthersMove(n) PROVE MailInv'
  BY <1>7, <1>11, MailTypes DEF OthersMove, LetterInv
<1> QED BY <1>1, <1>3, <1>5, <1>6, <1>8, <1>9, <1>10, <1>11

\* A step that touches one wish.
LEMMA WishMoves ==
    ASSUME MailInv, NEW w \in Wish, UNCHANGED <<overdue, retired, cooling, homes>>,
           NEW x \in WishRow, NEW y \in JobRow, NEW s \in LetterStatus,
           wish' = [wish EXCEPT ![w] = x], job' = [job EXCEPT ![w] = y],
           letter' = [letter EXCEPT ![w] = s], granter' \in [Granter -> DutyRow],
           OneStory(x, s), letter[w] \in Unanswered => s \in Unanswered
    PROVE  MailInv'
<1>1. /\ letter' \in [Letter -> LetterStatus] /\ w \in Letter
      /\ \A l \in Letter : letter'[l] = (IF l = w THEN s ELSE letter[l])
  BY MailTypes
<1>2. LetterInv'
  BY <1>1, MailTypes DEF LetterInv
<1>3. /\ wish' \in [Wish -> WishRow] /\ job' \in [Wish -> JobRow]
      /\ \A v \in Wish : wish'[v] = (IF v = w THEN x ELSE wish[v])
  BY MailTypes
<1>4. \A v \in Wish : OneStory(wish'[v], letter'[v])
  BY <1>1, <1>3, MailTypes
<1> QED BY <1>2, <1>3, <1>4 DEF MailInv, WishInv

\* The rows before a step on a wish, and what the helpers make of them.
LEMMA WishRows ==
    ASSUME MailInv, NEW w \in Wish
    PROVE  \E x \in WishRow, y \in JobRow, s \in LetterStatus :
               /\ x = wish[w] /\ y = job[w] /\ s = letter[w] /\ OneStory(x, s)
               /\ wish = [wish EXCEPT ![w] = x] /\ job = [job EXCEPT ![w] = y]
               /\ letter = [letter EXCEPT ![w] = s]
<1>1. wish[w] \in WishRow /\ job[w] \in JobRow /\ letter[w] \in LetterStatus /\ OneStory(wish[w], letter[w])
  BY MailTypes
<1>2. /\ wish = [wish EXCEPT ![w] = wish[w]] /\ job = [job EXCEPT ![w] = job[w]]
      /\ letter = [letter EXCEPT ![w] = letter[w]]
  BY MailTypes
<1> QED BY <1>1, <1>2

LEMMA FreedRow ==
    ASSUME MailInv, NEW w \in Wish, NEW status \in {"queued", "ready", "dead", "completed", "cancelled"}
    PROVE  \E y \in JobRow : Freed(w, status) = [job EXCEPT ![w] = y]
<1>1. PICK old \in JobRow : old = job[w]
  BY MailTypes
<1> DEFINE y == [old EXCEPT !.status = status, !.token = {}, !.lease = "none", !.due = FALSE]
<1>2. y \in JobRow
  BY DEF JobRow
<1>3. Freed(w, status) = [job EXCEPT ![w] = y]
  BY <1>1, MailTypes DEF Freed
<1> HIDE DEF y
<1> QED BY <1>2, <1>3

LEMMA EndedRow ==
    ASSUME MailInv, NEW w \in Wish, NEW status \in {"withdrawn", "unfulfilled"}
    PROVE  \E x \in WishRow : Ended(w, status) = [wish EXCEPT ![w] = x] /\ x.status = status /\ ~x.open
<1>1. PICK old \in WishRow : old = wish[w]
  BY MailTypes
<1> DEFINE x == [old EXCEPT !.status = status, !.open = FALSE]
<1>2. x \in WishRow /\ x.status = status /\ ~x.open
  BY DEF WishRow
<1>3. Ended(w, status) = [wish EXCEPT ![w] = x]
  BY <1>1, MailTypes DEF Ended
<1> HIDE DEF x
<1> QED BY <1>2, <1>3

\* A pending wish has no letter yet.
LEMMA PendingWish ==
    ASSUME MailInv, NEW w \in Wish, wish[w].status \in {"none", "pending"}
    PROVE  letter[w] = "none" /\ "none" \notin Unanswered
BY MailTypes DEF OneStory, Unanswered

LEMMA OwnerWishKeeps ==
    ASSUME MailInv, NEW w \in Wish,
           MakeWish(w) \/ WithdrawWish(w) \/ WishLeaseExpires(w) \/ WishIsDue(w) \/ WindowOfWishEnds(w)
    PROVE  MailInv'
<1>0. PICK x0 \in WishRow, y0 \in JobRow, s \in LetterStatus :
          /\ x0 = wish[w] /\ y0 = job[w] /\ s = letter[w] /\ OneStory(x0, s)
          /\ wish = [wish EXCEPT ![w] = x0] /\ job = [job EXCEPT ![w] = y0]
          /\ letter = [letter EXCEPT ![w] = s]
  BY WishRows
<1>1. granter' \in [Granter -> DutyRow] /\ UNCHANGED mailbox
  BY MailTypes DEF MakeWish, WithdrawWish, WishLeaseExpires, WishIsDue, WindowOfWishEnds
<1>2. UNCHANGED <<letter, overdue, retired, cooling, homes>>
  BY <1>1 DEF mailbox
<1>3. CASE MakeWish(w)
  <2>1. PICK x \in WishRow : x = [status |-> "pending", open |-> TRUE, late |-> FALSE]
    BY DEF WishRow
  <2>2. PICK y \in JobRow : y = [NoJob EXCEPT !.status = "queued", !.due = TRUE]
    <3>1. [NoJob EXCEPT !.status = "queued", !.due = TRUE] \in JobRow
      BY DEF NoJob, JobRow
    <3> QED BY <3>1
  <2>3. wish' = [wish EXCEPT ![w] = x] /\ job' = [job EXCEPT ![w] = y] /\ wish[w].status = "none"
    BY <1>3, <2>1, <2>2 DEF MakeWish
  <2>4. letter[w] = "none"
    BY <2>3, PendingWish
  <2>5. OneStory(x, s)
    BY <1>0, <2>1, <2>4 DEF OneStory
  <2> QED BY <1>0, <1>1, <1>2, <2>3, <2>5, WishMoves
<1>4. CASE WithdrawWish(w)
  <2>1. IsPending(w) /\ wish' = Ended(w, "withdrawn") /\ job' \in {job, Freed(w, "cancelled")}
    BY <1>4 DEF WithdrawWish
  <2>2. PICK x \in WishRow : wish' = [wish EXCEPT ![w] = x] /\ x.status = "withdrawn" /\ ~x.open
    BY <2>1, EndedRow
  <2>3. PICK y \in JobRow : job' = [job EXCEPT ![w] = y]
    BY <1>0, <2>1, FreedRow
  <2>4. letter[w] = "none" /\ "none" \notin Unanswered
    BY <2>1, PendingWish DEF IsPending
  <2>5. OneStory(x, s)
    BY <1>0, <2>2, <2>4 DEF OneStory
  <2> QED BY <1>0, <1>1, <1>2, <2>2, <2>3, <2>5, WishMoves
<1>5. CASE WishLeaseExpires(w) \/ WishIsDue(w)
  <2>1. [y0 EXCEPT !.lease = "expired"] \in JobRow /\ [y0 EXCEPT !.due = TRUE] \in JobRow
    BY DEF JobRow
  <2>2. job' = [job EXCEPT ![w] = [y0 EXCEPT !.lease = "expired"]]
        \/ job' = [job EXCEPT ![w] = [y0 EXCEPT !.due = TRUE]]
    BY <1>0, <1>5 DEF WishLeaseExpires, WishIsDue
  <2>3. PICK y \in JobRow : job' = [job EXCEPT ![w] = y]
    BY <2>1, <2>2
  <2>4. wish' = wish
    BY <1>5 DEF WishLeaseExpires, WishIsDue
  <2> QED BY <1>0, <1>1, <1>2, <2>3, <2>4, WishMoves
<1>6. CASE WindowOfWishEnds(w)
  <2>1. PICK x \in WishRow : x = [x0 EXCEPT !.late = TRUE] /\ x.status = x0.status /\ x.open = x0.open
    <3>1. /\ [x0 EXCEPT !.late = TRUE] \in WishRow
          /\ [x0 EXCEPT !.late = TRUE].status = x0.status /\ [x0 EXCEPT !.late = TRUE].open = x0.open
      BY DEF WishRow
    <3> QED BY <3>1
  <2>2. wish' = [wish EXCEPT ![w] = x] /\ job' = job
    BY <1>0, <1>6, <2>1 DEF WindowOfWishEnds
  <2>3. OneStory(x, s)
    BY <1>0, <2>1 DEF OneStory
  <2> QED BY <1>0, <1>1, <1>2, <2>2, <2>3, WishMoves
<1> QED BY <1>3, <1>4, <1>5, <1>6

LEMMA ProceedTypes ==
    ASSUME MailInv, NEW k \in Granter, NEW w \in Wish, Proceed(k, w)
    PROVE  granter' \in [Granter -> DutyRow]
<1>1. ASSUME NEW g \in Granter PROVE granter'[g] \in DutyRow
  <2>1. PICK row \in DutyRow : row = granter[g]
    BY MailTypes
  <2>2. PICK v \in DutyRow : v = [row EXCEPT !.due = IF Holds(k, w) THEN @ \ {w} ELSE @]
    <3>1. [row EXCEPT !.due = IF Holds(k, w) THEN @ \ {w} ELSE @] \in DutyRow
      BY DEF DutyRow
    <3> QED BY <3>1
  <2>3. [v EXCEPT !.pc = "tick", !.wish = {}] \in DutyRow
    BY DEF DutyRow
  <2>4. granter'[g] = IF g = k THEN [v EXCEPT !.pc = "tick", !.wish = {}] ELSE v
    BY <2>1, <2>2 DEF Proceed
  <2> QED BY <2>2, <2>3, <2>4
<1> QED BY <1>1 DEF Proceed

\* A worker holds a wish only while it is pending, so what it delivers, fails
\* or stores finds no letter.
LEMMA WorkerKeeps ==
    ASSUME MailInv, NEW k \in Granter,
           \/ BeginGranting(k) \/ StopGranting(k) \/ StoreCandidate(k) \/ FailWish(k) \/ DeliverWish(k)
           \/ \E w \in Wish : ClaimWish(k, w)
    PROVE  MailInv'
<1>0. /\ granter \in [Granter -> DutyRow] /\ granter[k] \in DutyRow
      /\ \A w \in granter[k].wish : w \in Wish
  BY MailTypes DEF DutyRow
<1>1. ASSUME granter' \in [Granter -> DutyRow], UNCHANGED <<mailbox, wish, job>> PROVE MailInv'
  <2>1. UNCHANGED <<letter, overdue, retired, cooling, homes>>
    BY <1>1 DEF mailbox
  <2> QED BY <1>1, <2>1 DEF MailInv, LetterInv, WishInv
<1>2. CASE BeginGranting(k) \/ StopGranting(k)
  <2>1. /\ OffDuty \in DutyRow
        /\ [OffDuty EXCEPT !.pc = "tick", !.due = {w \in Wish : job[w].due},
                           !.late = {w \in Wish : wish[w].late}] \in DutyRow
    BY DEF OffDuty, DutyRow
  <2>2. PICK row \in DutyRow : granter' = [granter EXCEPT ![k] = row]
    BY <1>2, <2>1 DEF BeginGranting, StopGranting
  <2>3. granter' \in [Granter -> DutyRow] /\ UNCHANGED <<mailbox, wish, job>>
    BY <1>0, <1>2, <2>2 DEF BeginGranting, StopGranting
  <2> QED BY <1>1, <2>3
<1>3. ASSUME NEW w \in Wish, ClaimWish(k, w) PROVE MailInv'
  <2>1. PICK x \in WishRow, y0 \in JobRow, s \in LetterStatus :
            /\ x = wish[w] /\ y0 = job[w] /\ s = letter[w] /\ OneStory(x, s)
            /\ wish = [wish EXCEPT ![w] = x] /\ job = [job EXCEPT ![w] = y0]
            /\ letter = [letter EXCEPT ![w] = s]
    BY WishRows
  <2> DEFINE y == [y0 EXCEPT !.status = "running", !.token = {k}, !.lease = "live"]
  <2>2. y \in JobRow
    BY DEF JobRow
  <2>3. job' = [job EXCEPT ![w] = y]
    BY <1>3, <2>1, MailTypes, ZenonT(30) DEF ClaimWish
  <2> HIDE DEF y
  <2>4. PICK pc \in {"deliver", "write"} : granter' = [granter EXCEPT ![k].wish = {w}, ![k].pc = pc]
    BY <1>3 DEF ClaimWish
  <2>5. PICK old \in DutyRow : old = granter[k]
    BY <1>0
  <2>6. granter' = [granter EXCEPT ![k] = [old EXCEPT !.wish = {w}, !.pc = pc]]
    BY <1>0, <2>4, <2>5
  <2>7. [old EXCEPT !.wish = {w}, !.pc = pc] \in DutyRow
    BY DEF DutyRow
  <2>8. granter' \in [Granter -> DutyRow]
    BY <1>0, <2>6, <2>7
  <2>9. wish' = wish /\ UNCHANGED <<letter, overdue, retired, cooling, homes>>
    BY <1>3 DEF ClaimWish, mailbox
  <2> QED BY <2>1, <2>2, <2>3, <2>8, <2>9, WishMoves
<1>4. ASSUME NEW w \in Wish, Proceed(k, w), UNCHANGED <<overdue, retired, cooling, homes>>,
             \/ UNCHANGED <<letter, wish, job>>
             \/ /\ Holds(k, w) /\ UNCHANGED <<letter, wish>>
                /\ \/ job' = Freed(w, "queued")
                   \/ job' = [Freed(w, "ready") EXCEPT ![w].written = TRUE]
             \/ Holds(k, w) /\ letter' = letter /\ wish' = Ended(w, "unfulfilled") /\ job' = Freed(w, "dead")
             \/ /\ Holds(k, w) /\ letter' = [letter EXCEPT ![w] = "unread"]
                /\ wish' = [wish EXCEPT ![w].status = "delivered"] /\ job' = Freed(w, "completed")
      PROVE  MailInv'
  <2>1. PICK x0 \in WishRow, y0 \in JobRow, s \in LetterStatus :
            /\ x0 = wish[w] /\ y0 = job[w] /\ s = letter[w] /\ OneStory(x0, s)
            /\ wish = [wish EXCEPT ![w] = x0] /\ job = [job EXCEPT ![w] = y0]
            /\ letter = [letter EXCEPT ![w] = s]
    BY WishRows
  <2>2. granter' \in [Granter -> DutyRow]
    BY <1>4, ProceedTypes
  <2>3. CASE UNCHANGED <<letter, wish, job>>
    BY <1>4, <2>1, <2>2, <2>3, WishMoves
  <2>4. ASSUME Holds(k, w) PROVE x0.status = "pending" /\ x0.open /\ s = "none" /\ "none" \notin Unanswered
    BY <2>1, <2>4, PendingWish DEF Holds, IsPending
  <2>5. CASE Holds(k, w) /\ UNCHANGED <<letter, wish>>
             /\ (job' = Freed(w, "queued") \/ job' = [Freed(w, "ready") EXCEPT ![w].written = TRUE])
    <3>1. PICK y \in JobRow : job' = [job EXCEPT ![w] = y]
      <4>1. PICK z \in JobRow : Freed(w, "ready") = [job EXCEPT ![w] = z]
        BY FreedRow
      <4>2. [z EXCEPT !.written = TRUE] \in JobRow
        BY DEF JobRow
      <4>3. [Freed(w, "ready") EXCEPT ![w].written = TRUE] = [job EXCEPT ![w] = [z EXCEPT !.written = TRUE]]
        BY <4>1, MailTypes
      <4>4. PICK q \in JobRow : Freed(w, "queued") = [job EXCEPT ![w] = q]
        BY FreedRow
      <4> QED BY <2>5, <4>2, <4>3, <4>4
    <3> QED BY <1>4, <2>1, <2>2, <2>5, <3>1, WishMoves
  <2>6. CASE Holds(k, w) /\ letter' = letter /\ wish' = Ended(w, "unfulfilled") /\ job' = Freed(w, "dead")
    <3>1. PICK x \in WishRow : wish' = [wish EXCEPT ![w] = x] /\ x.status = "unfulfilled" /\ ~x.open
      BY <2>6, EndedRow
    <3>2. PICK y \in JobRow : job' = [job EXCEPT ![w] = y]
      BY <2>6, FreedRow
    <3>3. OneStory(x, s)
      BY <2>4, <2>6, <3>1 DEF OneStory
    <3> QED BY <1>4, <2>1, <2>2, <2>6, <3>1, <3>2, <3>3, WishMoves
  <2>7. CASE /\ Holds(k, w) /\ letter' = [letter EXCEPT ![w] = "unread"]
             /\ wish' = [wish EXCEPT ![w].status = "delivered"] /\ job' = Freed(w, "completed")
    <3>1. PICK y \in JobRow : job' = [job EXCEPT ![w] = y]
      BY <2>7, FreedRow
    <3>2. PICK x \in WishRow : x = [x0 EXCEPT !.status = "delivered"] /\ x.status = "delivered" /\ x.open
      <4>1. /\ [x0 EXCEPT !.status = "delivered"] \in WishRow
            /\ [x0 EXCEPT !.status = "delivered"].status = "delivered"
            /\ [x0 EXCEPT !.status = "delivered"].open = x0.open
        BY DEF WishRow
      <4> QED BY <2>4, <2>7, <4>1
    <3>3. wish' = [wish EXCEPT ![w] = x]
      BY <2>1, <2>7, <3>2, MailTypes
    <3>4. OneStory(x, "unread") /\ "unread" \in Unanswered /\ "unread" \in LetterStatus
      BY <3>2 DEF OneStory, Unanswered, LetterStatus
    <3> QED BY <1>4, <2>2, <2>7, <3>1, <3>3, <3>4, WishMoves
  <2> QED BY <1>4, <2>3, <2>5, <2>6, <2>7
<1>5. CASE StoreCandidate(k)
  <2>1. PICK w \in granter[k].wish :
            /\ job' = IF Holds(k, w) THEN [Freed(w, "ready") EXCEPT ![w].written = TRUE] ELSE job
            /\ Proceed(k, w) /\ UNCHANGED <<mailbox, wish>>
    BY <1>5 DEF StoreCandidate
  <2>2. w \in Wish /\ UNCHANGED <<letter, overdue, retired, cooling, homes>>
    BY <1>0, <2>1 DEF mailbox
  <2> QED BY <1>4, <2>1, <2>2
<1>6. CASE FailWish(k)
  <2>1. PICK w \in granter[k].wish :
            /\ \/ ~Holds(k, w) /\ UNCHANGED <<wish, job>>
               \/ Holds(k, w) /\ wish' = Ended(w, "unfulfilled") /\ job' = Freed(w, "dead")
               \/ Holds(k, w) /\ w \notin granter[k].late /\ wish' = wish /\ job' = Freed(w, "queued")
            /\ Proceed(k, w) /\ UNCHANGED mailbox
    BY <1>6 DEF FailWish
  <2>2. w \in Wish /\ UNCHANGED <<letter, overdue, retired, cooling, homes>>
    BY <1>0, <2>1 DEF mailbox
  <2> QED BY <1>4, <2>1, <2>2
<1>7. CASE DeliverWish(k)
  <2>1. PICK w \in granter[k].wish :
            /\ \/ UNCHANGED <<letter, wish, job>>
               \/ /\ Holds(k, w) /\ wish' = Ended(w, "unfulfilled") /\ job' = Freed(w, "dead")
                  /\ letter' = letter
               \/ /\ Holds(k, w) /\ wish' = [wish EXCEPT ![w].status = "delivered"]
                  /\ job' = Freed(w, "completed") /\ letter' = [letter EXCEPT ![w] = "unread"]
            /\ Proceed(k, w) /\ UNCHANGED <<overdue, retired, cooling, homes>>
    BY <1>7 DEF DeliverWish, MayGrant
  <2>2. w \in Wish
    BY <1>0, <2>1
  <2> QED BY <1>4, <2>1, <2>2
<1> QED BY <1>2, <1>3, <1>5, <1>6, <1>7

LEMMA MailStart == MailInit => MailInv
<1> SUFFICES ASSUME MailInit PROVE MailInv
  OBVIOUS
<1>1. NoWish \in WishRow /\ NoWish.status = "none" /\ NoWish.open = FALSE /\ NoJob \in JobRow
      /\ OffDuty \in DutyRow
  BY DEF NoWish, WishRow, NoJob, JobRow, OffDuty, DutyRow
<1>2. LetterInv
  <2>1. homes \in 0..MaxHomes
    BY MailBounds DEF MailInit
  <2>2. letter \in [Letter -> LetterStatus]
    BY DEF MailInit, LetterStatus
  <2>3. overdue = {} /\ retired = {} /\ cooling = FALSE
    BY DEF MailInit
  <2> QED BY <2>1, <2>2, <2>3 DEF LetterInv
<1>3. wish \in [Wish -> WishRow] /\ job \in [Wish -> JobRow] /\ granter \in [Granter -> DutyRow]
  BY <1>1 DEF MailInit
<1>4. ASSUME NEW w \in Wish PROVE OneStory(wish[w], letter[w])
  <2>1. wish[w] = NoWish /\ letter[w] = "none"
    BY DEF MailInit, Letter
  <2> QED BY <1>1, <2>1 DEF OneStory, Unanswered
<1> QED BY <1>2, <1>3, <1>4 DEF MailInv, WishInv

LEMMA MailShows == MailInv => WishFollowsLetter
<1> SUFFICES ASSUME MailInv PROVE WishFollowsLetter
  OBVIOUS
<1>1. \A w \in Wish : wish[w] \in WishRow /\ job[w] \in JobRow /\ OneStory(wish[w], letter[w])
  BY MailTypes
<1>2. \A k \in Granter : granter[k] \in DutyRow
  BY MailTypes
<1>3. /\ \A w \in Wish : /\ wish[w].status \in {"none", "pending", "delivered", "withdrawn", "unfulfilled"}
                         /\ job[w].status \in {"none", "queued", "ready", "running", "completed", "dead",
                                               "cancelled"}
                         /\ job[w].token \subseteq Granter
      /\ \A k \in Granter : granter[k].pc \in {"idle", "tick", "write", "deliver"}
  BY <1>1, <1>2 DEF WishRow, JobRow, DutyRow
<1>4. MailTypeOK
  BY <1>3, MailTypes DEF MailTypeOK, LetterStatus
<1> QED BY <1>1, <1>4 DEF WishFollowsLetter, OneStory

\* However often a wish is claimed, loses its lease, is withdrawn or fails, for
\* any number of wishes, letters and workers: it brings a letter exactly if it
\* was delivered, and stays open exactly as long as its letter is unanswered.
THEOREM WishesFollowLetters == MailSpec => []WishFollowsLetter
<1>1. ASSUME MailInv, MailNext PROVE MailInv'
  BY <1>1, LetterKeeps, OwnerWishKeeps, WorkerKeeps DEF MailNext
<1>2. ASSUME MailInv, UNCHANGED mailVars PROVE MailInv'
  <2>1. UNCHANGED <<letter, overdue, retired, cooling, homes, wish, job, granter>>
    BY <1>2 DEF mailVars
  <2>2. LetterInv'
    BY <1>2, <2>1 DEF MailInv, LetterInv
  <2>3. WishInv'
    BY <1>2, <2>1 DEF MailInv, WishInv
  <2> QED BY <2>2, <2>3 DEF MailInv
<1> QED BY <1>1, <1>2, MailStart, MailShows, PTL DEF MailSpec
-----------------------------------------------------------------------------
(***************************************************************************)
(* Visits: WorldVisits.                                                    *)
(***************************************************************************)
Lock == {0, 1} \X Human
InviteOps == {"invite", "revoke", "lapse", "redeem"}
VisitOps == {"accept", "end", "expire", "use"}
VisitRow == [status : {"none", "over", "pending", "active"}, visitor : SUBSET Human]
CallRow == [op : InviteOps \cup VisitOps \cup {"none", "block"}, pc : {"idle", "lock", "worlds", "write"},
            who : SUBSET Human, on : SUBSET Invite, expected : {"none", "pending", "active"},
            late : SUBSET {"invite", "none", "over", "pending", "active"},
            want : SUBSET Lock, held : SUBSET Lock,
            verdict : {"none", "issue", "revoked", "expired", "open", "end", "accept", "serve"}]

VisitTypes ==
    /\ invite \in [Invite -> {"none", "active", "revoked", "expired", "redeemed"}]
    /\ seats \in [Human -> SUBSET ({"invite", "visit"} \X Invite)]
    /\ visit \in [Invite -> VisitRow] /\ chat \in [Invite -> {"none", "active", "read_only"}]
    /\ blocks \subseteq Human \X Human /\ call \in [VisitTx -> CallRow]

\* An invite, its visit and their chat.
RowInv(i) ==
    /\ visit[i].status # "none" <=> invite[i] = "redeemed"
    /\ visit[i].status = "none" => visit[i].visitor = {}
    /\ visit[i].status # "none" => \E v \in Human \ {OwnerOf[i]} : visit[i].visitor = {v}
    /\ chat[i] = "active" <=> visit[i].status = "active"
    /\ Parted(Parties(i)) => ~VisitIsOpen(i)

\* The slots of a world and the open visits of a visitor.
SeatInv(p) ==
    /\ \A i \in Invite : /\ <<"invite", i>> \in seats[p] <=> OwnerOf[i] = p /\ invite[i] = "active"
                         /\ <<"visit", i>> \in seats[p] <=> OwnerOf[i] = p /\ VisitIsOpen(i)
    /\ IsFiniteSet(seats[p]) /\ Cardinality(seats[p]) <= VisitSlots
    /\ IsFiniteSet(OpenVisitsOf(p)) /\ Cardinality(OpenVisitsOf(p)) <= VisitorLimit

RowsInv ==
    /\ \A i \in Invite : RowInv(i)
    /\ \A p \in Human : SeatInv(p)
    /\ \A b \in blocks : b[1] # b[2]

Locks(t) == call[t].held \cup call[t].want

\* Whom a request has locked or will lock before it reads its rows.
AskedFor(t, i) ==
    /\ call[t].on = {i} /\ WorldLock(OwnerOf[i]) \in Locks(t)
    /\ call[t].op \in InviteOps \cup VisitOps
    /\ IF call[t].op = "redeem" THEN \E p \in Human : call[t].who = {p} /\ UserLock(p) \in Locks(t)
                                ELSE call[t].who = {}
    /\ call[t].op \in VisitOps =>
           visit[i].status # "none" /\ \A p \in visit[i].visitor : UserLock(p) \in Locks(t)

Asked(t) ==
    IF call[t].op = "block"
    THEN \E p, q \in Human : call[t].who = {p} /\ Locks(t) = {UserLock(p), UserLock(q)}
    ELSE \E i \in Invite : AskedFor(t, i)

\* A block has locked the pair and knows every open visit between them.
ListedFor(t, p, q) ==
    /\ call[t].who = {p} /\ {l \in call[t].held : l[1] = 0} = {UserLock(p), UserLock(q)}
    /\ OpenBetween({p, q}) \subseteq call[t].on
    /\ \A i \in call[t].on : WorldLock(OwnerOf[i]) \in Locks(t)
    /\ \A l \in call[t].want : l[1] = 1

\* What a verdict has found still holds, for it is read and kept under locks.
JudgedFor(t, i) ==
    /\ call[t].on = {i} /\ call[t].want = {} /\ WorldLock(OwnerOf[i]) \in call[t].held
    /\ call[t].verdict = "issue" => invite[i] = "none" /\ SlotIsFree(OwnerOf[i])
    /\ call[t].verdict \in {"revoked", "expired", "open"} => invite[i] = "active"
    /\ call[t].verdict = "open" =>
           \E p \in Human : call[t].who = {p} /\ UserLock(p) \in call[t].held /\ MayRedeem(p, i)
    /\ call[t].verdict \in {"end", "accept", "serve"} => VisitIsOpen(i)
    /\ call[t].verdict \in {"accept", "serve"} =>
           ~Parted(Parties(i)) /\ \A p \in visit[i].visitor : UserLock(p) \in call[t].held

CallInv(t) ==
    /\ \A h \in call[t].held, m \in call[t].want : Before(h, m) /\ h # m
    /\ call[t].verdict # "none" <=> call[t].pc = "write"
    /\ call[t].pc = "lock" => Asked(t)
    /\ call[t].pc = "worlds" => \E p, q \in Human : ListedFor(t, p, q)
    /\ call[t].pc = "write" => \E i \in Invite : JudgedFor(t, i)
    /\ call[t].pc = "idle" => call[t].held = {} /\ call[t].want = {}

Apart(t, u) == call[t].held \cap call[u].held = {}

VisitInv ==
    /\ VisitTypes /\ RowsInv
    /\ \A t \in VisitTx : CallInv(t)
    /\ \A t, u \in VisitTx : t # u => Apart(t, u)

(* Locks in ascending order. *)

LEMMA LeastNumber ==
    ASSUME NEW T \in SUBSET Nat, T # {}
    PROVE  \E x \in T : \A y \in T : x <= y
<1> DEFINE R == {ss \in Nat \X Nat : ss[1] < ss[2]}
<1>1. IsWellFoundedOn(R, Nat)
  BY NatLessThanWellFounded, Zenon DEF OpToRel
<1>2. PICK x \in T : \A y \in T : ~(<<y, x>> \in R)
  <2> HIDE DEF R
  <2> QED BY <1>1, WFMin
<1>3. \A y \in T : ~(y < x)
  BY <1>2
<1> QED BY <1>2, <1>3

LEMMA LockShape ==
    ASSUME NEW l \in Lock
    PROVE  l = <<l[1], l[2]>> /\ l[1] \in {0, 1} /\ l[1] \in Nat /\ l[2] \in Human /\ l[2] \in Nat
<1>1. PICK a \in {0, 1}, p \in Human : l = <<a, p>>
  BY DEF Lock
<1>2. p \in Nat /\ a \in Nat
  BY VisitBounds
<1> QED BY <1>1, <1>2

LEMMA LeastLock ==
    ASSUME NEW W \in SUBSET Lock, W # {}
    PROVE  \E l \in W : \A m \in W : Before(l, m)
<1>1. \A l \in W : l = <<l[1], l[2]>> /\ l[1] \in {0, 1} /\ l[2] \in Nat
  BY LockShape
<1>2. ASSUME NEW a \in {0, 1}, \E l \in W : l[1] = a, \A l \in W : a <= l[1]
      PROVE  \E l \in W : \A m \in W : Before(l, m)
  <2> DEFINE T == {l[2] : l \in {m \in W : m[1] = a}}
  <2>1. T \in SUBSET Nat /\ T # {}
    BY <1>1, <1>2
  <2>2. PICK x \in T : \A y \in T : x <= y
    <3> HIDE DEF T
    <3> QED BY <2>1, LeastNumber
  <2>3. PICK l \in W : l[1] = a /\ l[2] = x
    OBVIOUS
  <2>4. ASSUME NEW m \in W PROVE Before(l, m)
    <3>1. CASE m[1] = a
      BY <2>2, <2>3, <3>1 DEF Before
    <3>2. CASE m[1] # a
      BY <1>1, <1>2, <2>3, <3>2 DEF Before
    <3> QED BY <3>1, <3>2
  <2> QED BY <2>3, <2>4
<1>3. CASE \E l \in W : l[1] = 0
  BY <1>1, <1>2, <1>3
<1>4. CASE ~ \E l \in W : l[1] = 0
  <2>1. \A l \in W : l[1] = 1
    BY <1>1, <1>4
  <2> QED BY <1>2, <2>1
<1> QED BY <1>3, <1>4

LEMMA NextLockIsLeast ==
    ASSUME NEW t, call[t].want \in SUBSET Lock, call[t].want # {}
    PROVE  NextLock(t) \in call[t].want /\ \A m \in call[t].want : Before(NextLock(t), m)
<1>1. \E l \in call[t].want : \A m \in call[t].want : Before(l, m)
  BY LeastLock
<1> QED BY <1>1 DEF NextLock

LEMMA LocksAreOrdered ==
    ASSUME NEW k \in Lock, NEW l \in Lock, NEW m \in Lock
    PROVE  /\ Before(k, l) /\ Before(l, k) => k = l
           /\ Before(k, l) /\ Before(l, m) => Before(k, m)
<1>1. /\ k = <<k[1], k[2]>> /\ l = <<l[1], l[2]>> /\ m = <<m[1], m[2]>>
      /\ k[1] \in Nat /\ k[2] \in Nat /\ l[1] \in Nat /\ l[2] \in Nat /\ m[1] \in Nat /\ m[2] \in Nat
  BY LockShape
<1> QED BY <1>1 DEF Before

LEMMA VisitFacts ==
    ASSUME VisitInv
    PROVE  /\ VisitTypes /\ RowsInv
           /\ \A i \in Invite : RowInv(i) /\ visit[i] \in VisitRow /\ OwnerOf[i] \in Human
           /\ \A p \in Human : SeatInv(p)
           /\ \A t \in VisitTx : CallInv(t) /\ call[t] \in CallRow
           /\ \A t, u \in VisitTx : t # u => Apart(t, u)
BY VisitBounds DEF VisitInv, RowsInv, VisitTypes

LEMMA LocksOf ==
    ASSUME VisitInv, NEW t \in VisitTx
    PROVE  call[t].want \in SUBSET Lock /\ call[t].held \in SUBSET Lock
           /\ call[t].who \in SUBSET Human /\ call[t].on \in SUBSET Invite
BY VisitFacts DEF CallRow

\* A step of one call that writes no row.
LEMMA CallMoves ==
    ASSUME VisitInv, NEW t \in VisitTx, NEW c \in CallRow, call' = [call EXCEPT ![t] = c],
           UNCHANGED <<invite, seats, visit, chat, blocks>>,
           CallInv(t)', \A u \in VisitTx \ {t} : c.held \cap call[u].held = {}
    PROVE  VisitInv'
<1>1. call' \in [VisitTx -> CallRow] /\ call'[t] = c /\ \A u \in VisitTx \ {t} : call'[u] = call[u]
  BY VisitFacts DEF VisitTypes
<1>2. VisitTypes'
  BY <1>1, VisitFacts DEF VisitTypes
<1>3. RowsInv'
  <2>1. ASSUME NEW i \in Invite PROVE RowInv(i)'
    BY VisitFacts DEF RowInv, Parted, Parties, VisitIsOpen
  <2>2. ASSUME NEW p \in Human PROVE SeatInv(p)'
    <3>1. OpenVisitsOf(p)' = OpenVisitsOf(p)
      BY DEF OpenVisitsOf, VisitIsOpen
    <3>2. \A i \in Invite : VisitIsOpen(i)' <=> VisitIsOpen(i)
      BY DEF VisitIsOpen
    <3>3. SeatInv(p)
      BY VisitFacts
    <3> QED BY <3>1, <3>2, <3>3 DEF SeatInv
  <2>3. \A b \in blocks' : b[1] # b[2]
    BY VisitFacts DEF RowsInv
  <2> QED BY <2>1, <2>2, <2>3 DEF RowsInv
<1>4. ASSUME NEW u \in VisitTx PROVE CallInv(u)'
  <2>1. CASE u = t
    BY <2>1
  <2>2. CASE u # t
    <3>1. CallInv(u) /\ call'[u] = call[u]
      BY <1>1, <2>2, VisitFacts
    <3>2. Locks(u)' = Locks(u)
      BY <3>1 DEF Locks
    <3>3. Asked(u) => Asked(u)'
      BY <3>1, <3>2 DEF Asked, AskedFor
    <3>4. ASSUME NEW p, NEW q, ListedFor(u, p, q) PROVE ListedFor(u, p, q)'
      BY <3>1, <3>2, <3>4 DEF ListedFor, OpenBetween, VisitIsOpen, Parties
    <3>5. ASSUME NEW i, JudgedFor(u, i) PROVE JudgedFor(u, i)'
      BY <3>1, <3>5 DEF JudgedFor, SlotIsFree, MayRedeem, Parted, OpenVisitsOf, VisitIsOpen, PairIsOpen, Parties
    <3> QED BY <3>1, <3>3, <3>4, <3>5 DEF CallInv
  <2> QED BY <2>1, <2>2
<1>5. ASSUME NEW u \in VisitTx, NEW w \in VisitTx, u # w PROVE Apart(u, w)'
  <2>1. CASE u # t /\ w # t
    BY <1>1, <1>5, <2>1, VisitFacts DEF Apart
  <2>2. CASE u = t
    BY <1>1, <1>5, <2>2 DEF Apart
  <2>3. CASE w = t
    BY <1>1, <1>5, <2>3 DEF Apart
  <2> QED BY <2>1, <2>2, <2>3
<1> QED BY <1>2, <1>3, <1>4, <1>5 DEF VisitInv

LEMMA LockNames ==
    ASSUME NEW p, NEW q
    PROVE  /\ UserLock(p) # WorldLock(q) /\ (UserLock(p) = UserLock(q) => p = q)
           /\ (WorldLock(p) = WorldLock(q) => p = q)
           /\ UserLock(p)[1] = 0 /\ UserLock(p)[2] = p /\ WorldLock(p)[1] = 1
           /\ p \in Human => UserLock(p) \in Lock /\ WorldLock(p) \in Lock
BY DEF UserLock, WorldLock, Lock

Stages == {"invite", "none", "over", "pending", "active"}
Started(op, who, i, locks, expected, late) ==
    [NoCall EXCEPT !.op = op, !.pc = "lock", !.who = who, !.on = {i}, !.expected = expected,
                   !.want = locks, !.late = late]

\* The record of a request that begins: it holds nothing yet and has named its
\* locks.
StartedRow == {c \in CallRow : c.pc = "lock" /\ c.held = {} /\ c.verdict = "none"}

LEMMA StartKeeps ==
    ASSUME VisitInv, NEW t \in VisitTx, NEW c \in StartedRow, call' = [call EXCEPT ![t] = c],
           UNCHANGED <<invite, seats, visit, chat, blocks>>, Asked(t)'
    PROVE  VisitInv'
<1>1. call'[t] = c
  BY VisitFacts DEF VisitTypes
<1>2. CallInv(t)'
  BY <1>1 DEF CallInv, StartedRow
<1>3. c \in CallRow /\ c.held = {}
  BY DEF StartedRow
<1> QED BY <1>2, <1>3, CallMoves

\* Every request but a block asks for one invite or visit.
LEMMA AskKeeps ==
    ASSUME VisitInv, NEW t \in VisitTx, NEW c \in StartedRow, call' = [call EXCEPT ![t] = c],
           UNCHANGED <<invite, seats, visit, chat, blocks>>,
           NEW i \in Invite, c.on = {i}, WorldLock(OwnerOf[i]) \in c.want, c.op \in InviteOps \cup VisitOps,
           c.op = "redeem" => \E p \in Human : c.who = {p} /\ UserLock(p) \in c.want,
           c.op # "redeem" => c.who = {},
           c.op \in VisitOps => visit[i].status # "none" /\ \A p \in visit[i].visitor : UserLock(p) \in c.want
    PROVE  VisitInv'
<1>1. call'[t] = c
  BY VisitFacts DEF VisitTypes
<1>2. Locks(t)' = c.want
  BY <1>1 DEF Locks, StartedRow
<1>3. AskedFor(t, i)'
  BY <1>1, <1>2 DEF AskedFor
<1>4. Asked(t)'
  BY <1>1, <1>3 DEF Asked, InviteOps, VisitOps
<1> QED BY <1>4, StartKeeps

LEMMA RequestKeeps ==
    ASSUME VisitInv, NEW t \in VisitTx, NEW i \in Invite, VisitRequest(t, i)
    PROVE  VisitInv'
<1>0. OwnerOf[i] \in Human /\ visit[i] \in VisitRow /\ RowInv(i)
  BY VisitFacts
<1>1. PICK own \in SUBSET Lock : own = OwnerLocks(i) /\ WorldLock(OwnerOf[i]) \in own
  <2>1. OwnerLocks(i) \in SUBSET Lock /\ WorldLock(OwnerOf[i]) \in OwnerLocks(i)
    BY <1>0, LockNames DEF OwnerLocks
  <2> QED BY <2>1
<1>2. PICK locks \in SUBSET Lock :
          /\ locks = VisitLocks(i) /\ WorldLock(OwnerOf[i]) \in locks
          /\ \A p \in visit[i].visitor : UserLock(p) \in locks
  <2>1. VisitLocks(i) \in SUBSET Lock
    BY <1>0, LockNames DEF VisitLocks, VisitRow
  <2> QED BY <2>1 DEF VisitLocks
<1>3. {Stage(i)} \in SUBSET Stages /\ {} \in SUBSET Stages
  BY <1>0 DEF Stage, Stages, VisitRow
<1>4. CASE AskInvite(t, i)
  <2>1. PICK late \in SUBSET Stages :
            /\ call' = [call EXCEPT ![t] = Started("invite", {}, i, own, "none", late)]
            /\ UNCHANGED <<invite, seats, visit, chat, blocks>>
    BY <1>1, <1>3, <1>4 DEF AskInvite, StartCall, Started
  <2>2. PICK c \in StartedRow :
            /\ c = Started("invite", {}, i, own, "none", late)
            /\ c.op = "invite" /\ c.who = {} /\ c.on = {i} /\ c.want = own
    <3> DEFINE s == Started("invite", {}, i, own, "none", late)
    <3>1. /\ s \in CallRow /\ s.pc = "lock" /\ s.held = {} /\ s.verdict = "none"
          /\ s.op = "invite" /\ s.who = {} /\ s.on = {i} /\ s.want = own
      BY <2>1 DEF Started, NoCall, CallRow, Stages, InviteOps, VisitOps
    <3> HIDE DEF s
    <3>2. s \in StartedRow
      BY <3>1 DEF StartedRow
    <3> QED BY <3>1, <3>2 DEF s
  <2>3. call' = [call EXCEPT ![t] = c]
    BY <2>1, <2>2
  <2> QED BY <1>0, <1>1, <2>1, <2>2, <2>3, AskKeeps DEF InviteOps, VisitOps
<1>5. CASE RevokeInvite(t, i)
  <2>1. PICK late \in SUBSET Stages :
            /\ call' = [call EXCEPT ![t] = Started("revoke", {}, i, own, "none", late)]
            /\ UNCHANGED <<invite, seats, visit, chat, blocks>>
    BY <1>1, <1>3, <1>5 DEF RevokeInvite, StartCall, Started
  <2>2. PICK c \in StartedRow :
            /\ c = Started("revoke", {}, i, own, "none", late)
            /\ c.op = "revoke" /\ c.who = {} /\ c.on = {i} /\ c.want = own
    <3> DEFINE s == Started("revoke", {}, i, own, "none", late)
    <3>1. /\ s \in CallRow /\ s.pc = "lock" /\ s.held = {} /\ s.verdict = "none"
          /\ s.op = "revoke" /\ s.who = {} /\ s.on = {i} /\ s.want = own
      BY <2>1 DEF Started, NoCall, CallRow, Stages, InviteOps, VisitOps
    <3> HIDE DEF s
    <3>2. s \in StartedRow
      BY <3>1 DEF StartedRow
    <3> QED BY <3>1, <3>2 DEF s
  <2>3. call' = [call EXCEPT ![t] = c]
    BY <2>1, <2>2
  <2> QED BY <1>0, <1>1, <2>1, <2>2, <2>3, AskKeeps DEF InviteOps, VisitOps
<1>6. CASE ExpireInvite(t, i)
  <2>1. PICK late \in SUBSET Stages :
            /\ call' = [call EXCEPT ![t] = Started("lapse", {}, i, own, "none", late)]
            /\ UNCHANGED <<invite, seats, visit, chat, blocks>>
    BY <1>1, <1>3, <1>6 DEF ExpireInvite, StartCall, Started
  <2>2. PICK c \in StartedRow :
            /\ c = Started("lapse", {}, i, own, "none", late)
            /\ c.op = "lapse" /\ c.who = {} /\ c.on = {i} /\ c.want = own
    <3> DEFINE s == Started("lapse", {}, i, own, "none", late)
    <3>1. /\ s \in CallRow /\ s.pc = "lock" /\ s.held = {} /\ s.verdict = "none"
          /\ s.op = "lapse" /\ s.who = {} /\ s.on = {i} /\ s.want = own
      BY <2>1 DEF Started, NoCall, CallRow, Stages, InviteOps, VisitOps
    <3> HIDE DEF s
    <3>2. s \in StartedRow
      BY <3>1 DEF StartedRow
    <3> QED BY <3>1, <3>2 DEF s
  <2>3. call' = [call EXCEPT ![t] = c]
    BY <2>1, <2>2
  <2> QED BY <1>0, <1>1, <2>1, <2>2, <2>3, AskKeeps DEF InviteOps, VisitOps
<1>7. CASE AcceptVisit(t, i)
  <2>1. PICK late \in SUBSET Stages :
            /\ call' = [call EXCEPT ![t] = Started("accept", {}, i, locks, "pending", late)]
            /\ UNCHANGED <<invite, seats, visit, chat, blocks>>
    BY <1>2, <1>3, <1>7 DEF AcceptVisit, StartCall, Started
  <2>2. visit[i].status # "none"
    BY <1>7 DEF AcceptVisit, VisitIsOpen, OpenVisit
  <2>3. PICK c \in StartedRow :
            /\ c = Started("accept", {}, i, locks, "pending", late)
            /\ c.op = "accept" /\ c.who = {} /\ c.on = {i} /\ c.want = locks
    <3> DEFINE s == Started("accept", {}, i, locks, "pending", late)
    <3>1. /\ s \in CallRow /\ s.pc = "lock" /\ s.held = {} /\ s.verdict = "none"
          /\ s.op = "accept" /\ s.who = {} /\ s.on = {i} /\ s.want = locks
      BY <2>1, <2>2 DEF Started, NoCall, CallRow, Stages, InviteOps, VisitOps
    <3> HIDE DEF s
    <3>2. s \in StartedRow
      BY <3>1 DEF StartedRow
    <3> QED BY <3>1, <3>2 DEF s
  <2>4. call' = [call EXCEPT ![t] = c]
    BY <2>1, <2>3
  <2> QED BY <1>0, <1>2, <2>1, <2>2, <2>3, <2>4, AskKeeps DEF InviteOps, VisitOps
<1>8. ASSUME NEW expected \in OpenVisit, EndVisit(t, i, expected) PROVE VisitInv'
  <2>1. PICK late \in SUBSET Stages :
            /\ call' = [call EXCEPT ![t] = Started("end", {}, i, locks, expected, late)]
            /\ UNCHANGED <<invite, seats, visit, chat, blocks>>
    BY <1>2, <1>3, <1>8 DEF EndVisit, StartCall, Started
  <2>2. visit[i].status # "none" /\ expected \in {"none", "pending", "active"}
    BY <1>8 DEF EndVisit, VisitIsOpen, OpenVisit
  <2>3. PICK c \in StartedRow :
            /\ c = Started("end", {}, i, locks, expected, late)
            /\ c.op = "end" /\ c.who = {} /\ c.on = {i} /\ c.want = locks
    <3> DEFINE s == Started("end", {}, i, locks, expected, late)
    <3>1. /\ s \in CallRow /\ s.pc = "lock" /\ s.held = {} /\ s.verdict = "none"
          /\ s.op = "end" /\ s.who = {} /\ s.on = {i} /\ s.want = locks
      BY <2>1, <2>2 DEF Started, NoCall, CallRow, Stages, InviteOps, VisitOps
    <3> HIDE DEF s
    <3>2. s \in StartedRow
      BY <3>1 DEF StartedRow
    <3> QED BY <3>1, <3>2 DEF s
  <2>4. call' = [call EXCEPT ![t] = c]
    BY <2>1, <2>3
  <2> QED BY <1>0, <1>2, <2>1, <2>2, <2>3, <2>4, AskKeeps DEF InviteOps, VisitOps
<1>9. CASE ExpireVisit(t, i)
  <2>1. PICK late \in SUBSET Stages :
            /\ call' = [call EXCEPT ![t] = Started("expire", {}, i, locks, "none", late)]
            /\ UNCHANGED <<invite, seats, visit, chat, blocks>>
    BY <1>2, <1>3, <1>9 DEF ExpireVisit, StartCall, Started
  <2>2. visit[i].status # "none"
    BY <1>9 DEF ExpireVisit, VisitIsOpen, OpenVisit
  <2>3. PICK c \in StartedRow :
            /\ c = Started("expire", {}, i, locks, "none", late)
            /\ c.op = "expire" /\ c.who = {} /\ c.on = {i} /\ c.want = locks
    <3> DEFINE s == Started("expire", {}, i, locks, "none", late)
    <3>1. /\ s \in CallRow /\ s.pc = "lock" /\ s.held = {} /\ s.verdict = "none"
          /\ s.op = "expire" /\ s.who = {} /\ s.on = {i} /\ s.want = locks
      BY <2>1, <2>2 DEF Started, NoCall, CallRow, Stages, InviteOps, VisitOps
    <3> HIDE DEF s
    <3>2. s \in StartedRow
      BY <3>1 DEF StartedRow
    <3> QED BY <3>1, <3>2 DEF s
  <2>4. call' = [call EXCEPT ![t] = c]
    BY <2>1, <2>3
  <2> QED BY <1>0, <1>2, <2>1, <2>2, <2>3, <2>4, AskKeeps DEF InviteOps, VisitOps
<1>10. CASE UseVisit(t, i)
  <2>1. PICK late \in SUBSET Stages :
            /\ call' = [call EXCEPT ![t] = Started("use", {}, i, locks, "active", late)]
            /\ UNCHANGED <<invite, seats, visit, chat, blocks>>
    BY <1>2, <1>3, <1>10 DEF UseVisit, StartCall, Started
  <2>2. visit[i].status # "none"
    BY <1>10 DEF UseVisit, VisitIsOpen, OpenVisit
  <2>3. PICK c \in StartedRow :
            /\ c = Started("use", {}, i, locks, "active", late)
            /\ c.op = "use" /\ c.who = {} /\ c.on = {i} /\ c.want = locks
    <3> DEFINE s == Started("use", {}, i, locks, "active", late)
    <3>1. /\ s \in CallRow /\ s.pc = "lock" /\ s.held = {} /\ s.verdict = "none"
          /\ s.op = "use" /\ s.who = {} /\ s.on = {i} /\ s.want = locks
      BY <2>1, <2>2 DEF Started, NoCall, CallRow, Stages, InviteOps, VisitOps
    <3> HIDE DEF s
    <3>2. s \in StartedRow
      BY <3>1 DEF StartedRow
    <3> QED BY <3>1, <3>2 DEF s
  <2>4. call' = [call EXCEPT ![t] = c]
    BY <2>1, <2>3
  <2> QED BY <1>0, <1>2, <2>1, <2>2, <2>3, <2>4, AskKeeps DEF InviteOps, VisitOps
<1>11. ASSUME NEW p \in Guests[i], Redeem(t, i, p) PROVE VisitInv'
  <2>1. p \in Human
    BY VisitBounds
  <2>2. PICK both \in SUBSET Lock : both = {UserLock(p), WorldLock(OwnerOf[i])}
    BY <1>0, <2>1, LockNames
  <2>3. PICK who \in SUBSET Human : who = {p}
    BY <2>1
  <2>4. PICK late \in SUBSET Stages :
            /\ call' = [call EXCEPT ![t] = Started("redeem", who, i, both, "none", late)]
            /\ UNCHANGED <<invite, seats, visit, chat, blocks>>
    BY <1>3, <1>11, <2>2, <2>3 DEF Redeem, StartCall, Started
  <2>5. PICK c \in StartedRow :
            /\ c = Started("redeem", who, i, both, "none", late)
            /\ c.op = "redeem" /\ c.who = who /\ c.on = {i} /\ c.want = both
    <3> DEFINE s == Started("redeem", who, i, both, "none", late)
    <3>1. /\ s \in CallRow /\ s.pc = "lock" /\ s.held = {} /\ s.verdict = "none"
          /\ s.op = "redeem" /\ s.who = who /\ s.on = {i} /\ s.want = both
      BY <2>4 DEF Started, NoCall, CallRow, Stages, InviteOps, VisitOps
    <3> HIDE DEF s
    <3>2. s \in StartedRow
      BY <3>1 DEF StartedRow
    <3> QED BY <3>1, <3>2 DEF s
  <2>6. call' = [call EXCEPT ![t] = c]
    BY <2>4, <2>5
  <2>7. WorldLock(OwnerOf[i]) \in c.want /\ c.who = {p} /\ UserLock(p) \in c.want
    BY <2>2, <2>3, <2>5
  <2>8. c.op \in InviteOps \cup VisitOps /\ c.op \notin VisitOps /\ c.op = "redeem"
    BY <2>5 DEF InviteOps, VisitOps
  <2> QED BY <2>1, <2>4, <2>5, <2>6, <2>7, <2>8, AskKeeps
<1>12. ASSUME NEW p \in Human, BlockContact(t, i, p) PROVE VisitInv'
  <2>1. PICK q \in Human : Parties(i) = {p, q}
    <3>1. visit[i].status # "none"
      <4>1. visit[i].status = "none" => visit[i] = NoVisit
        BY <1>0 DEF RowInv, VisitRow, NoVisit
      <4> QED BY <1>12, <4>1 DEF BlockContact
    <3>2. PICK v \in Human : visit[i].visitor = {v}
      BY <1>0, <3>1 DEF RowInv
    <3>3. p \in {OwnerOf[i], v} /\ Parties(i) = {OwnerOf[i], v}
      BY <1>12, <3>2 DEF BlockContact, Parties
    <3> QED BY <1>0, <3>2, <3>3
  <2>2. PICK both \in SUBSET Lock : both = {UserLock(p), UserLock(q)}
    BY <2>1, LockNames
  <2>3. {UserLock(r) : r \in Parties(i)} = both
    BY <2>1, <2>2
  <2>4. PICK late \in SUBSET Stages :
            /\ call' = [call EXCEPT ![t] = Started("block", {p}, i, both, "none", late)]
            /\ UNCHANGED <<invite, seats, visit, chat, blocks>>
    BY <1>3, <1>12, <2>3 DEF BlockContact, StartCall, Started
  <2>5. PICK c \in StartedRow :
            /\ c = Started("block", {p}, i, both, "none", late)
            /\ c.op = "block" /\ c.who = {p} /\ c.on = {i} /\ c.want = both
    <3> DEFINE s == Started("block", {p}, i, both, "none", late)
    <3>1. /\ s \in CallRow /\ s.pc = "lock" /\ s.held = {} /\ s.verdict = "none"
          /\ s.op = "block" /\ s.who = {p} /\ s.on = {i} /\ s.want = both
      BY <2>4 DEF Started, NoCall, CallRow, Stages, InviteOps, VisitOps
    <3> HIDE DEF s
    <3>2. s \in StartedRow
      BY <3>1 DEF StartedRow
    <3> QED BY <3>1, <3>2 DEF s
  <2>6. call' = [call EXCEPT ![t] = c]
    BY <2>4, <2>5
  <2>7. call'[t] = c
    BY <2>6, VisitFacts DEF VisitTypes
  <2>8. Locks(t)' = both
    BY <2>5, <2>7 DEF Locks, StartedRow
  <2>9. Asked(t)'
    BY <2>1, <2>2, <2>5, <2>7, <2>8 DEF Asked
  <2> QED BY <2>4, <2>6, <2>9, StartKeeps
<1> QED BY <1>4, <1>5, <1>6, <1>7, <1>8, <1>9, <1>10, <1>11, <1>12 DEF VisitRequest
(* Inside the transaction. *)

LEMMA TakeKeeps ==
    ASSUME VisitInv, NEW t \in VisitTx, TakeVisitLock(t) \/ TakeWorldLock(t)
    PROVE  VisitInv'
<1>0. /\ call[t].pc \in {"lock", "worlds"} /\ call[t].want # {} /\ LockIsFree(NextLock(t))
      /\ UNCHANGED <<invite, seats, visit, chat, blocks>>
  BY DEF TakeVisitLock, TakeWorldLock
<1>1. PICK old \in CallRow : old = call[t] /\ old.pc \in {"lock", "worlds"} /\ old.want # {}
  BY <1>0, VisitFacts
<1>2. PICK n \in Lock : n = NextLock(t) /\ n \in old.want /\ \A m \in old.want : Before(n, m)
  <2>1. call[t].want \in SUBSET Lock
    BY LocksOf
  <2> QED BY <1>0, <1>1, <2>1, NextLockIsLeast
<1>3. PICK c \in CallRow : c = [old EXCEPT !.want = old.want \ {n}, !.held = old.held \cup {n}]
  <2>1. [old EXCEPT !.want = old.want \ {n}, !.held = old.held \cup {n}] \in CallRow
    BY DEF CallRow
  <2> QED BY <2>1
<1>4. call' = [call EXCEPT ![t] = c]
  BY <1>1, <1>2, <1>3 DEF TakeVisitLock, TakeWorldLock
<1>5. /\ call'[t] = c /\ c.want = old.want \ {n} /\ c.held = old.held \cup {n} /\ c.pc = old.pc
      /\ c.op = old.op /\ c.who = old.who /\ c.on = old.on /\ c.verdict = old.verdict
  <2>1. call'[t] = c
    BY <1>4, VisitFacts DEF VisitTypes
  <2>2. /\ c.want = old.want \ {n} /\ c.held = old.held \cup {n} /\ c.pc = old.pc
        /\ c.op = old.op /\ c.who = old.who /\ c.on = old.on /\ c.verdict = old.verdict
    BY <1>3 DEF CallRow
  <2> QED BY <2>1, <2>2
<1>6. old.want \in SUBSET Lock /\ old.held \in SUBSET Lock /\ CallInv(t)
  BY <1>1, LocksOf, VisitFacts
<1>7. Locks(t)' = Locks(t)
  BY <1>1, <1>2, <1>5 DEF Locks
<1>8. \A h \in c.held, m \in c.want : Before(h, m) /\ h # m
  BY <1>1, <1>2, <1>5, <1>6 DEF CallInv
<1>9. ASSUME old.pc = "lock" PROVE CallInv(t)'
  <2>1. Asked(t)
    BY <1>1, <1>6, <1>9 DEF CallInv
  <2>2. Asked(t)'
    BY <1>0, <1>1, <1>5, <1>7, <2>1 DEF Asked, AskedFor
  <2> QED BY <1>1, <1>5, <1>6, <1>8, <1>9, <2>2 DEF CallInv
<1>10. ASSUME old.pc = "worlds" PROVE CallInv(t)'
  <2>1. PICK p \in Human, q \in Human : ListedFor(t, p, q)
    BY <1>1, <1>6, <1>10 DEF CallInv
  <2>2. n[1] = 1
    BY <1>1, <1>2, <2>1 DEF ListedFor
  <2>3. {l \in c.held : l[1] = 0} = {l \in old.held : l[1] = 0}
    BY <1>5, <2>2
  <2>4. OpenBetween({p, q})' = OpenBetween({p, q})
    BY <1>0 DEF OpenBetween, VisitIsOpen, Parties
  <2>5. ListedFor(t, p, q)'
    BY <1>1, <1>5, <1>7, <2>1, <2>3, <2>4 DEF ListedFor
  <2> QED BY <1>1, <1>5, <1>6, <1>8, <1>10, <2>5 DEF CallInv
<1>11. CallInv(t)'
  BY <1>1, <1>9, <1>10
<1>12. \A u \in VisitTx \ {t} : c.held \cap call[u].held = {}
  BY <1>0, <1>1, <1>2, <1>5, VisitFacts DEF Apart, LockIsFree
<1> QED BY <1>0, <1>4, <1>11, <1>12, CallMoves

LEMMA LeaveKeeps ==
    ASSUME VisitInv, NEW t \in VisitTx, call' = [call EXCEPT ![t] = NoCall],
           UNCHANGED <<invite, seats, visit, chat, blocks>>
    PROVE  VisitInv'
<1>1. PICK c \in CallRow : c = NoCall /\ c.held = {} /\ c.want = {} /\ c.verdict = "none" /\ c.pc = "idle"
  <2>1. NoCall \in CallRow
    BY DEF NoCall, CallRow
  <2> QED BY <2>1 DEF NoCall
<1>2. call'[t] = c /\ call' = [call EXCEPT ![t] = c]
  BY <1>1, VisitFacts DEF VisitTypes
<1>3. CallInv(t)'
  BY <1>1, <1>2 DEF CallInv
<1> QED BY <1>1, <1>2, <1>3, CallMoves

LEMMA ListKeeps ==
    ASSUME VisitInv, NEW t \in VisitTx, ListForBlock(t)
    PROVE  VisitInv'
<1>1. PICK old \in CallRow : old = call[t] /\ old.pc = "lock" /\ old.want = {} /\ old.op = "block"
  BY VisitFacts DEF ListForBlock
<1>2. CallInv(t) /\ Asked(t) /\ old.verdict = "none" /\ old.held \in SUBSET Lock
  BY <1>1, VisitFacts, LocksOf DEF CallInv
<1>3. PICK p \in Human, q \in Human : old.who = {p} /\ old.held = {UserLock(p), UserLock(q)}
  BY <1>1, <1>2 DEF Asked, Locks
<1>4. BlockedPair(t) = {p, q}
  BY <1>1, <1>3, LockNames DEF BlockedPair
<1>5. PICK open \in SUBSET Invite : open = OpenBetween({p, q})
  BY DEF OpenBetween
<1>6. PICK worlds \in SUBSET Lock : worlds = {WorldLock(OwnerOf[i]) : i \in open}
  <2>1. {WorldLock(OwnerOf[i]) : i \in open} \in SUBSET Lock
    BY <1>5, VisitFacts, LockNames, ZenonT(30)
  <2> QED BY <2>1
<1>7. PICK c \in CallRow : c = [old EXCEPT !.on = open, !.pc = "worlds", !.want = worlds]
  <2>1. [old EXCEPT !.on = open, !.pc = "worlds", !.want = worlds] \in CallRow
    BY DEF CallRow
  <2> QED BY <2>1
<1>8. call' = [call EXCEPT ![t] = c] /\ UNCHANGED <<invite, seats, visit, chat, blocks>>
  BY <1>1, <1>4, <1>5, <1>6, <1>7 DEF ListForBlock
<1>9. /\ call'[t] = c /\ c.want = worlds /\ c.held = old.held /\ c.pc = "worlds"
      /\ c.who = old.who /\ c.on = open /\ c.verdict = old.verdict
  BY <1>7, <1>8, VisitFacts DEF VisitTypes, CallRow
<1>10. ListedFor(t, p, q)'
  <2>1. {l \in c.held : l[1] = 0} = {UserLock(p), UserLock(q)}
    BY <1>3, <1>9, LockNames
  <2>2. OpenBetween({p, q})' = OpenBetween({p, q})
    BY <1>8 DEF OpenBetween, VisitIsOpen, Parties
  <2>3. \A i \in open : WorldLock(OwnerOf[i]) \in worlds
    BY <1>6
  <2>4. \A l \in worlds : l[1] = 1
    BY <1>6, LockNames
  <2> QED BY <1>3, <1>5, <1>9, <2>1, <2>2, <2>3, <2>4 DEF ListedFor, Locks
<1>11. \A h \in c.held, m \in c.want : Before(h, m) /\ h # m
  <2>1. \A m \in worlds : m[1] = 1
    BY <1>6, LockNames
  <2>2. \A h \in c.held : h[1] = 0
    BY <1>3, <1>9, LockNames
  <2> QED BY <1>9, <2>1, <2>2 DEF Before
<1>12. CallInv(t)'
  BY <1>2, <1>9, <1>10, <1>11 DEF CallInv
<1>13. \A u \in VisitTx \ {t} : c.held \cap call[u].held = {}
  BY <1>1, <1>9, VisitFacts DEF Apart
<1> QED BY <1>8, <1>12, <1>13, CallMoves

\* The record of a request that has read its row and will write it.
JudgedRow == {c \in CallRow : c.pc = "write" /\ c.want = {} /\ c.verdict # "none"}

LEMMA JudgedKeeps ==
    ASSUME VisitInv, NEW t \in VisitTx, NEW c \in JudgedRow, call' = [call EXCEPT ![t] = c],
           UNCHANGED <<invite, seats, visit, chat, blocks>>, c.held = call[t].held,
           NEW i \in Invite, JudgedFor(t, i)'
    PROVE  VisitInv'
<1>1. call'[t] = c
  BY VisitFacts DEF VisitTypes
<1>2. CallInv(t)'
  BY <1>1 DEF CallInv, JudgedRow
<1>3. c \in CallRow
  BY DEF JudgedRow
<1>4. \A u \in VisitTx \ {t} : c.held \cap call[u].held = {}
  BY VisitFacts DEF Apart
<1> QED BY <1>2, <1>3, <1>4, CallMoves

LEMMA JudgeKeeps ==
    ASSUME VisitInv, NEW t \in VisitTx, JudgeCall(t)
    PROVE  VisitInv'
<1>1. PICK old \in CallRow : old = call[t] /\ old.pc = "lock" /\ old.want = {} /\ old.op # "block"
  BY VisitFacts DEF JudgeCall
<1>2. UNCHANGED <<invite, seats, visit, chat, blocks>>
  BY DEF JudgeCall
<1>3. CallInv(t) /\ Asked(t)
  BY <1>1, VisitFacts DEF CallInv
<1>4. PICK i \in Invite : AskedFor(t, i)
  BY <1>1, <1>3 DEF Asked
<1>5. /\ old.on = {i} /\ WorldLock(OwnerOf[i]) \in old.held /\ old.op \in InviteOps \cup VisitOps
      /\ old.op = "redeem" => \E p \in Human : old.who = {p} /\ UserLock(p) \in old.held
      /\ old.op # "redeem" => old.who = {}
      /\ old.op \in VisitOps => \A p \in visit[i].visitor : UserLock(p) \in old.held
  BY <1>1, <1>4 DEF AskedFor, Locks
<1>6. PICK v : /\ v = IF old.op \in InviteOps THEN InviteVerdict(old, i) ELSE VisitVerdict(old, i)
               /\ call' = [call EXCEPT ![t] =
                      IF v = "refuse" THEN NoCall
                      ELSE [NoCall EXCEPT !.pc = "write", !.who = old.who, !.on = {i}, !.held = old.held,
                                          !.verdict = v]]
  <2> DEFINE w == IF old.op \in InviteOps THEN InviteVerdict(old, i) ELSE VisitVerdict(old, i)
  <2>1. \E j \in old.on :
           LET v == IF old.op \in InviteOps THEN InviteVerdict(old, j) ELSE VisitVerdict(old, j)
           IN  call' = [call EXCEPT ![t] =
                   IF v = "refuse" THEN NoCall
                   ELSE [NoCall EXCEPT !.pc = "write", !.who = old.who, !.on = {j}, !.held = old.held,
                                       !.verdict = v]]
    BY <1>1, Zenon DEF JudgeCall, InviteOps
  <2>2. call' = [call EXCEPT ![t] =
                   IF w = "refuse" THEN NoCall
                   ELSE [NoCall EXCEPT !.pc = "write", !.who = old.who, !.on = {i}, !.held = old.held,
                                       !.verdict = w]]
    BY <1>5, <2>1, Zenon
  <2> QED BY <2>2, Zenon
<1>7. /\ v \in {"refuse", "issue", "revoked", "expired", "open", "end", "accept", "serve"}
      /\ v = "issue" => invite[i] = "none" /\ SlotIsFree(OwnerOf[i])
      /\ v \in {"revoked", "expired", "open"} => invite[i] = "active"
      /\ v = "open" => \E p \in Human : old.who = {p} /\ UserLock(p) \in old.held /\ MayRedeem(p, i)
      /\ v \in {"end", "accept", "serve"} => VisitIsOpen(i)
      /\ v \in {"accept", "serve"} =>
             ~Parted(Parties(i)) /\ \A p \in visit[i].visitor : UserLock(p) \in old.held
  <2>1. CASE old.op \in InviteOps
    <3>1. v = InviteVerdict(old, i)
      BY <1>6, <2>1
    <3>2. CASE old.op = "invite"
      <4>1. v = IF invite[i] = "none" /\ SlotIsFree(OwnerOf[i]) THEN "issue" ELSE "refuse"
        BY <3>1, <3>2 DEF InviteVerdict
      <4> QED BY <4>1
    <3>3. CASE old.op # "invite" /\ invite[i] # "active"
      <4>1. v = "refuse"
        BY <3>1, <3>3 DEF InviteVerdict
      <4> QED BY <4>1
    <3>4. CASE old.op # "invite" /\ invite[i] = "active" /\ (old.op = "revoke" \/ "invite" \in old.late)
      <4>1. v \in {"revoked", "expired"}
        BY <3>1, <3>4 DEF InviteVerdict
      <4> QED BY <3>4, <4>1
    <3>5. CASE old.op \notin {"invite", "revoke"} /\ invite[i] = "active" /\ "invite" \notin old.late
      <4>1. v = IF \E p \in old.who : MayRedeem(p, i) THEN "open" ELSE "refuse"
        BY <3>1, <3>5 DEF InviteVerdict
      <4>2. CASE \E p \in old.who : MayRedeem(p, i)
        <5>1. v = "open"
          BY <4>1, <4>2
        <5>2. \E p \in Human : old.who = {p} /\ UserLock(p) \in old.held /\ MayRedeem(p, i)
          BY <1>5, <4>2
        <5> QED BY <3>5, <5>1, <5>2
      <4>3. CASE ~ \E p \in old.who : MayRedeem(p, i)
        <5>1. v = "refuse"
          BY <4>1, <4>3
        <5> QED BY <5>1
      <4> QED BY <4>2, <4>3
    <3> QED BY <3>2, <3>3, <3>4, <3>5
  <2>2. CASE old.op \notin InviteOps
    <3>1. v = VisitVerdict(old, i) /\ old.op \in VisitOps
      BY <1>5, <1>6, <2>2
    <3>2. CASE ~VisitIsOpen(i)
      <4>1. v = "refuse"
        BY <3>1, <3>2 DEF VisitVerdict
      <4> QED BY <4>1
    <3>3. CASE VisitIsOpen(i) /\ Parted(Parties(i))
      <4>1. v \in {"refuse", "end"}
        BY <3>1, <3>3 DEF VisitVerdict
      <4> QED BY <3>3, <4>1
    <3>4. CASE VisitIsOpen(i) /\ ~Parted(Parties(i))
      <4>1. v \in {"refuse", "end", "accept", "serve"}
        BY <3>1, <3>4 DEF VisitVerdict
      <4> QED BY <1>5, <3>1, <3>4, <4>1
    <3> QED BY <3>2, <3>3, <3>4
  <2> QED BY <2>1, <2>2
<1>8. CASE v = "refuse"
  BY <1>2, <1>6, <1>8, LeaveKeeps
<1>9. CASE v # "refuse"
  <2>1. PICK c \in JudgedRow :
            /\ c = [NoCall EXCEPT !.pc = "write", !.who = old.who, !.on = {i}, !.held = old.held, !.verdict = v]
            /\ c.who = old.who /\ c.on = {i} /\ c.held = old.held /\ c.want = {} /\ c.verdict = v
    <3> DEFINE s == [NoCall EXCEPT !.pc = "write", !.who = old.who, !.on = {i}, !.held = old.held, !.verdict = v]
    <3>1. /\ s \in CallRow /\ s.pc = "write" /\ s.want = {} /\ s.verdict = v
          /\ s.who = old.who /\ s.on = {i} /\ s.held = old.held
      BY <1>7, <1>9, ZenonT(30) DEF NoCall, CallRow
    <3> HIDE DEF s
    <3>2. v # "none"
      BY <1>7
    <3>3. s \in JudgedRow
      BY <3>1, <3>2 DEF JudgedRow
    <3> QED BY <3>1, <3>3 DEF s
  <2>2. call' = [call EXCEPT ![t] = c]
    BY <1>6, <1>9, <2>1
  <2>3. call'[t] = c
    BY <2>2, VisitFacts DEF VisitTypes
  <2>4. SlotIsFree(OwnerOf[i])' = SlotIsFree(OwnerOf[i]) /\ VisitIsOpen(i)' = VisitIsOpen(i)
    BY <1>2 DEF SlotIsFree, VisitIsOpen
  <2>5. ASSUME NEW p PROVE MayRedeem(p, i)' = MayRedeem(p, i)
    BY <1>2 DEF MayRedeem, Parted, OpenVisitsOf, VisitIsOpen, PairIsOpen
  <2>6. Parted(Parties(i))' = Parted(Parties(i))
    BY <1>2 DEF Parted, Parties
  <2>7. JudgedFor(t, i)'
    BY <1>2, <1>5, <1>7, <2>1, <2>3, <2>4, <2>5, <2>6 DEF JudgedFor
  <2> QED BY <1>1, <1>2, <2>1, <2>2, <2>7, JudgedKeeps
<1> QED BY <1>8, <1>9

(* The writes. *)

\* What a transaction that ends may have changed, as the others see it: rows and
\* slots of worlds it has locked, contact and visits of people it has locked.
WroteUnderLocks(t) ==
    /\ \A j \in Invite : WorldLock(OwnerOf[j]) \notin call[t].held => invite'[j] = invite[j] /\ visit'[j] = visit[j]
    /\ \A p \in Human : WorldLock(p) \notin call[t].held => seats'[p] = seats[p]
    /\ \A j \in Invite : visit[j].status # "none" =>
           visit'[j].status # "none" /\ visit'[j].visitor = visit[j].visitor
    /\ \A p, q \in Human : Parted({p, q})' /\ ~Parted({p, q}) => UserLock(p) \in call[t].held
    /\ \A j \in Invite : VisitIsOpen(j)' /\ ~VisitIsOpen(j) => \A p \in visit'[j].visitor : UserLock(p) \in call[t].held

LEMMA OpenVisitsStay ==
    ASSUME VisitInv, NEW t \in VisitTx, WroteUnderLocks(t), NEW p \in Human, UserLock(p) \notin call[t].held
    PROVE  /\ OpenVisitsOf(p)' \subseteq OpenVisitsOf(p)
           /\ Cardinality(OpenVisitsOf(p)) < VisitorLimit => Cardinality(OpenVisitsOf(p)') < VisitorLimit
           /\ \A i \in Invite : ~PairIsOpen(p, i) => ~PairIsOpen(p, i)'
<1>1. OpenVisitsOf(p)' \subseteq OpenVisitsOf(p)
  <2>1. ASSUME NEW j \in Invite, VisitIsOpen(j)', p \in visit'[j].visitor
        PROVE  VisitIsOpen(j) /\ p \in visit[j].visitor
    <3>1. VisitIsOpen(j)
      BY <2>1 DEF WroteUnderLocks
    <3>2. visit[j].status # "none"
      BY <3>1 DEF VisitIsOpen, OpenVisit
    <3> QED BY <2>1, <3>1, <3>2 DEF WroteUnderLocks
  <2> QED BY <2>1 DEF OpenVisitsOf
<1>2. IsFiniteSet(OpenVisitsOf(p))
  BY VisitFacts DEF SeatInv
<1>3. /\ IsFiniteSet(OpenVisitsOf(p)') /\ Cardinality(OpenVisitsOf(p)') <= Cardinality(OpenVisitsOf(p))
  BY <1>1, <1>2, FS_Subset
<1>4. Cardinality(OpenVisitsOf(p)) \in Nat /\ Cardinality(OpenVisitsOf(p)') \in Nat
  BY <1>2, <1>3, FS_CardinalityType
<1>5. \A i \in Invite : ~PairIsOpen(p, i) => ~PairIsOpen(p, i)'
  BY <1>1 DEF PairIsOpen
<1>6. VisitorLimit \in Nat
  BY VisitBounds
<1> QED BY <1>1, <1>3, <1>4, <1>5, <1>6

LEMMA OthersKeep ==
    ASSUME VisitInv, RowsInv', NEW t \in VisitTx, NEW u \in VisitTx, u # t,
           call' = [call EXCEPT ![t] = NoCall], WroteUnderLocks(t)
    PROVE  CallInv(u)'
<1>1. CallInv(u) /\ call'[u] = call[u] /\ Apart(t, u)
  BY VisitFacts DEF VisitTypes
<1>2. \A l \in call[u].held : l \notin call[t].held
  BY <1>1 DEF Apart
<1>3. Locks(u)' = Locks(u)
  BY <1>1 DEF Locks
<1>4. ASSUME Asked(u) PROVE Asked(u)'
  <2>1. ASSUME NEW i \in Invite, AskedFor(u, i) PROVE AskedFor(u, i)'
    BY <1>1, <1>3, <2>1 DEF AskedFor, WroteUnderLocks
  <2> QED BY <1>1, <1>3, <1>4, <2>1 DEF Asked
<1>5. ASSUME NEW p \in Human, NEW q \in Human, ListedFor(u, p, q) PROVE ListedFor(u, p, q)'
  <2>1. UserLock(p) \notin call[t].held /\ UserLock(q) \notin call[t].held
    BY <1>2, <1>5 DEF ListedFor
  <2>2. ASSUME NEW j \in Invite, VisitIsOpen(j)', Parties(j)' = {p, q}
        PROVE  VisitIsOpen(j) /\ Parties(j) = {p, q}
    <3>1. visit'[j].status # "none" /\ RowInv(j)'
      BY <2>2 DEF VisitIsOpen, OpenVisit, RowsInv
    <3>2. PICK v \in Human : visit'[j].visitor = {v}
      BY <3>1 DEF RowInv
    <3>3. v \in {p, q}
      BY <2>2, <3>2 DEF Parties
    <3>4. VisitIsOpen(j)
      BY <2>1, <2>2, <3>2, <3>3 DEF WroteUnderLocks
    <3>5. visit[j].status # "none"
      BY <3>4 DEF VisitIsOpen, OpenVisit
    <3>6. visit'[j].visitor = visit[j].visitor
      BY <3>5 DEF WroteUnderLocks
    <3> QED BY <2>2, <3>4, <3>6 DEF Parties
  <2>3. OpenBetween({p, q})' \subseteq OpenBetween({p, q})
    BY <2>2 DEF OpenBetween
  <2> QED BY <1>1, <1>3, <1>5, <2>3 DEF ListedFor
<1>6. ASSUME NEW i \in Invite, JudgedFor(u, i) PROVE JudgedFor(u, i)'
  <2>1. WorldLock(OwnerOf[i]) \notin call[t].held /\ OwnerOf[i] \in Human /\ RowInv(i)
    BY <1>2, <1>6, VisitFacts DEF JudgedFor
  <2>2. invite'[i] = invite[i] /\ visit'[i] = visit[i] /\ seats'[OwnerOf[i]] = seats[OwnerOf[i]]
    BY <2>1 DEF WroteUnderLocks
  <2>3. (SlotIsFree(OwnerOf[i]) => SlotIsFree(OwnerOf[i])') /\ VisitIsOpen(i)' = VisitIsOpen(i)
    BY <2>2 DEF SlotIsFree, VisitIsOpen
  <2>4. ASSUME NEW p \in Human, UserLock(p) \in call[u].held, MayRedeem(p, i) PROVE MayRedeem(p, i)'
    <3>1. UserLock(p) \notin call[t].held
      BY <1>2, <2>4
    <3>2. ~Parted({p, OwnerOf[i]})'
      BY <2>1, <2>4, <3>1 DEF MayRedeem, WroteUnderLocks
    <3> QED BY <2>4, <3>1, <3>2, OpenVisitsStay DEF MayRedeem
  <2>5. ASSUME VisitIsOpen(i), ~Parted(Parties(i)), \A p \in visit[i].visitor : UserLock(p) \in call[u].held
        PROVE  ~Parted(Parties(i))'
    <3>1. PICK v \in Human : visit[i].visitor = {v}
      BY <2>1, <2>5 DEF RowInv, VisitIsOpen, OpenVisit
    <3>2. Parties(i) = {v, OwnerOf[i]} /\ Parties(i)' = {v, OwnerOf[i]}
      BY <2>2, <3>1 DEF Parties
    <3>3. UserLock(v) \notin call[t].held
      BY <1>2, <2>5, <3>1
    <3>4. ~Parted({v, OwnerOf[i]})'
      BY <2>1, <2>5, <3>2, <3>3 DEF WroteUnderLocks
    <3> QED BY <3>2, <3>4 DEF Parted
  <2> QED BY <1>1, <1>6, <2>2, <2>3, <2>4, <2>5 DEF JudgedFor
<1> QED BY <1>1, <1>4, <1>5, <1>6 DEF CallInv

LEMMA WriteKeeps ==
    ASSUME VisitInv, NEW t \in VisitTx, call' = [call EXCEPT ![t] = NoCall], WroteUnderLocks(t),
           RowsInv', VisitTypes'
    PROVE  VisitInv'
<1>1. call'[t] = NoCall /\ \A u \in VisitTx \ {t} : call'[u] = call[u]
  BY VisitFacts DEF VisitTypes
<1>2. CallInv(t)'
  BY <1>1 DEF CallInv, NoCall
<1>3. \A u \in VisitTx : CallInv(u)'
  BY <1>2, OthersKeep
<1>4. ASSUME NEW u \in VisitTx, NEW w \in VisitTx, u # w PROVE Apart(u, w)'
  <2>1. CASE u = t \/ w = t
    BY <1>1, <2>1 DEF Apart, NoCall
  <2>2. CASE u # t /\ w # t
    BY <1>1, <1>4, <2>2, VisitFacts DEF Apart
  <2> QED BY <2>1, <2>2
<1> QED BY <1>3, <1>4 DEF VisitInv

LEMMA NoCallIsRow == NoCall \in CallRow
BY DEF NoCall, CallRow

\* Visits end together with their chats and leave their slots.
LEMMA TerminateKeeps ==
    ASSUME VisitInv, NEW t \in VisitTx, NEW V \in SUBSET Invite,
           \A i \in V : VisitIsOpen(i) /\ WorldLock(OwnerOf[i]) \in call[t].held,
           Terminate(V), invite' = invite, call' = [call EXCEPT ![t] = NoCall],
           blocks' \in SUBSET (Human \X Human), \A b \in blocks' : b[1] # b[2],
           \A i \in Invite \ V : VisitIsOpen(i) => ~Parted(Parties(i))',
           \A p, q \in Human : Parted({p, q})' /\ ~Parted({p, q}) => UserLock(p) \in call[t].held
    PROVE  VisitInv'
<1>1. \A i \in V : visit'[i] = [visit[i] EXCEPT !.status = "over"]
  BY DEF Terminate
<1>2. \A i \in Invite \ V : visit'[i] = visit[i] /\ chat'[i] = chat[i]
  BY DEF Terminate
<1>3. \A i \in Invite : visit[i] \in VisitRow /\ RowInv(i)
  BY VisitFacts
<1>4. \A i \in V : visit'[i].status = "over" /\ visit'[i].visitor = visit[i].visitor /\ visit'[i] \in VisitRow
  <2>1. ASSUME NEW r \in VisitRow
        PROVE  /\ [r EXCEPT !.status = "over"] \in VisitRow /\ [r EXCEPT !.status = "over"].status = "over"
               /\ [r EXCEPT !.status = "over"].visitor = r.visitor
    BY DEF VisitRow
  <2>2. ASSUME NEW i \in V
        PROVE  visit'[i].status = "over" /\ visit'[i].visitor = visit[i].visitor /\ visit'[i] \in VisitRow
    <3>1. visit[i] \in VisitRow /\ visit'[i] = [visit[i] EXCEPT !.status = "over"]
      BY <1>1, <1>3
    <3> QED BY <2>1, <3>1
  <2> QED BY <2>2
<1>5. \A p \in Human : seats'[p] = seats[p] \ {<<"visit", i>> : i \in V}
  BY DEF Terminate
<1>6. VisitTypes'
  <2>1. visit' = [i \in Invite |-> visit'[i]] /\ seats' = [p \in Human |-> seats'[p]] /\ chat' = [i \in Invite |-> chat'[i]]
    BY DEF Terminate
  <2>2. \A i \in Invite : visit'[i] \in VisitRow
    BY <1>2, <1>3, <1>4
  <2>3. \A p \in Human : seats'[p] \in SUBSET ({"invite", "visit"} \X Invite)
    BY <1>5, VisitFacts DEF VisitTypes
  <2>4. \A i \in Invite : chat'[i] \in {"none", "active", "read_only"}
    BY VisitFacts DEF VisitTypes, Terminate
  <2>5. visit' \in [Invite -> VisitRow] /\ seats' \in [Human -> SUBSET ({"invite", "visit"} \X Invite)]
    BY <2>1, <2>2, <2>3
  <2>6. chat' \in [Invite -> {"none", "active", "read_only"}] /\ call' \in [VisitTx -> CallRow]
    BY <2>1, <2>4, NoCallIsRow, VisitFacts DEF VisitTypes
  <2> QED BY <2>5, <2>6, VisitFacts DEF VisitTypes
<1>7. \A i \in Invite : VisitIsOpen(i)' <=> VisitIsOpen(i) /\ i \notin V
  BY <1>2, <1>4 DEF VisitIsOpen, OpenVisit
<1>8. ASSUME NEW i \in Invite PROVE RowInv(i)'
  <2>1. CASE i \in V
    <3>1. visit[i].status # "none"
      BY <2>1 DEF VisitIsOpen, OpenVisit
    <3>2. chat'[i] # "active" /\ ~VisitIsOpen(i)'
      BY <1>7, <2>1 DEF Terminate
    <3> QED BY <1>3, <1>4, <2>1, <3>1, <3>2 DEF RowInv
  <2>2. CASE i \notin V
    <3>1. Parted(Parties(i))' => ~VisitIsOpen(i)'
      BY <1>7, <2>2
    <3> QED BY <1>2, <1>3, <2>2, <3>1 DEF RowInv
  <2> QED BY <2>1, <2>2
<1>9. ASSUME NEW p \in Human PROVE SeatInv(p)'
  <2>1. SeatInv(p)
    BY VisitFacts
  <2>2. ASSUME NEW i \in Invite
        PROVE  /\ <<"invite", i>> \in seats'[p] <=> OwnerOf[i] = p /\ invite'[i] = "active"
               /\ <<"visit", i>> \in seats'[p] <=> OwnerOf[i] = p /\ VisitIsOpen(i)'
    BY <1>5, <1>7, <2>1 DEF SeatInv
  <2>3. IsFiniteSet(seats'[p]) /\ Cardinality(seats'[p]) <= Cardinality(seats[p])
    <3>1. seats'[p] \subseteq seats[p] /\ IsFiniteSet(seats[p])
      BY <1>5, <2>1 DEF SeatInv
    <3> QED BY <3>1, FS_Subset
  <2>4. IsFiniteSet(OpenVisitsOf(p)') /\ Cardinality(OpenVisitsOf(p)') <= Cardinality(OpenVisitsOf(p))
    <3>1. OpenVisitsOf(p)' \subseteq OpenVisitsOf(p)
      BY <1>2, <1>7 DEF OpenVisitsOf
    <3>2. IsFiniteSet(OpenVisitsOf(p))
      BY <2>1 DEF SeatInv
    <3> QED BY <3>1, <3>2, FS_Subset
  <2>5. /\ IsFiniteSet(seats[p]) /\ IsFiniteSet(OpenVisitsOf(p))
        /\ Cardinality(seats[p]) <= VisitSlots /\ Cardinality(OpenVisitsOf(p)) <= VisitorLimit
    BY <2>1 DEF SeatInv
  <2>6. /\ Cardinality(seats[p]) \in Nat /\ Cardinality(OpenVisitsOf(p)) \in Nat
        /\ Cardinality(seats'[p]) \in Nat /\ Cardinality(OpenVisitsOf(p)') \in Nat
    BY <2>3, <2>4, <2>5, FS_CardinalityType
  <2>7. Cardinality(seats'[p]) <= VisitSlots /\ Cardinality(OpenVisitsOf(p)') <= VisitorLimit
    BY <2>3, <2>4, <2>5, <2>6, VisitBounds
  <2> QED BY <2>2, <2>3, <2>4, <2>7 DEF SeatInv
<1>10. RowsInv'
  BY <1>8, <1>9 DEF RowsInv
<1>11. WroteUnderLocks(t)
  <2>1. \A j \in Invite : visit[j].status # "none" => visit'[j].status # "none" /\ visit'[j].visitor = visit[j].visitor
    BY <1>2, <1>4
  <2>2. ASSUME NEW p \in Human, WorldLock(p) \notin call[t].held PROVE seats'[p] = seats[p]
    <3>1. \A i \in V : OwnerOf[i] # p
      BY <2>2
    <3>2. \A i \in V : <<"visit", i>> \notin seats[p]
      BY <3>1, VisitFacts DEF SeatInv
    <3>3. \A x \in seats[p] : x \notin {<<"visit", i>> : i \in V}
      BY <3>2
    <3>4. seats'[p] = seats[p] \ {<<"visit", i>> : i \in V}
      BY <1>5
    <3>5. \A x : x \in seats'[p] <=> x \in seats[p]
      BY <3>3, <3>4
    <3> QED BY <3>4, <3>5
  <2> QED BY <1>2, <1>7, <2>1, <2>2 DEF WroteUnderLocks
<1> QED BY <1>6, <1>10, <1>11, WriteKeeps

LEMMA VisitOverKeeps ==
    ASSUME VisitInv, NEW t \in VisitTx, NEW i \in Invite, WriteVisitOver(t, i)
    PROVE  VisitInv'
<1>1. /\ call[t].pc = "write" /\ call[t].verdict = "end" /\ i \in call[t].on /\ CallInv(t)
      /\ call' = [call EXCEPT ![t] = NoCall] /\ Terminate({i}) /\ invite' = invite /\ blocks' = blocks
  BY VisitFacts DEF WriteVisitOver, Writes
<1>2. JudgedFor(t, i)
  BY <1>1 DEF CallInv, JudgedFor
<1>3. VisitIsOpen(i) /\ WorldLock(OwnerOf[i]) \in call[t].held
  BY <1>1, <1>2 DEF JudgedFor
<1>4. blocks' \in SUBSET (Human \X Human) /\ \A b \in blocks' : b[1] # b[2]
  BY <1>1, VisitFacts DEF VisitTypes, RowsInv
<1>5. \A P : Parted(P)' <=> Parted(P)
  BY <1>1 DEF Parted
<1>6. ASSUME NEW j \in Invite \ {i}, VisitIsOpen(j) PROVE ~Parted(Parties(j))'
  <2>1. ~Parted(Parties(j)) /\ visit'[j] = visit[j]
    BY <1>1, <1>6, VisitFacts DEF RowInv, Terminate
  <2> QED BY <1>1, <2>1 DEF Parted, Parties
<1>7. \A p, q \in Human : ~(Parted({p, q})' /\ ~Parted({p, q}))
  BY <1>1 DEF Parted
<1>8. {i} \in SUBSET Invite /\ \A j \in {i} : VisitIsOpen(j) /\ WorldLock(OwnerOf[j]) \in call[t].held
  BY <1>3
<1> QED BY <1>1, <1>4, <1>6, <1>7, <1>8, TerminateKeeps

LEMMA BlockKeeps ==
    ASSUME VisitInv, NEW t \in VisitTx, WriteBlock(t)
    PROVE  VisitInv'
<1>1. /\ call[t].pc = "worlds" /\ call[t].want = {} /\ CallInv(t) /\ invite' = invite
      /\ blocks' = blocks \cup {<<p, q>> : p \in call[t].who, q \in BlockedPair(t) \ call[t].who}
      /\ Terminate({i \in call[t].on : VisitIsOpen(i)}) /\ call' = [call EXCEPT ![t] = NoCall]
  BY VisitFacts DEF WriteBlock
<1>2. PICK p \in Human, q \in Human : ListedFor(t, p, q)
  BY <1>1 DEF CallInv
<1>3. BlockedPair(t) = {p, q} /\ UserLock(p) \in call[t].held /\ UserLock(q) \in call[t].held /\ call[t].who = {p}
  <2>1. {l \in call[t].held : l[1] = 0} = {UserLock(p), UserLock(q)} /\ call[t].who = {p}
    BY <1>2 DEF ListedFor
  <2> QED BY <2>1, LockNames DEF BlockedPair
<1>4. PICK V \in SUBSET Invite : V = {i \in call[t].on : VisitIsOpen(i)}
  <2>1. {i \in call[t].on : VisitIsOpen(i)} \in SUBSET Invite
    BY LocksOf
  <2> QED BY <2>1
<1>5. \A i \in V : VisitIsOpen(i) /\ WorldLock(OwnerOf[i]) \in call[t].held
  BY <1>1, <1>2, <1>4 DEF ListedFor, Locks
<1>6. blocks' = blocks \cup {<<p, r>> : r \in {p, q} \ {p}}
  BY <1>1, <1>3
<1>7. blocks' \in SUBSET (Human \X Human) /\ \A b \in blocks' : b[1] # b[2]
  BY <1>6, VisitFacts DEF VisitTypes, RowsInv
<1>8. ASSUME NEW b \in blocks', b \notin blocks PROVE {b[1], b[2]} = {p, q}
  BY <1>6, <1>8
<1>9. ASSUME NEW i \in Invite \ V, VisitIsOpen(i) PROVE ~Parted(Parties(i))'
  <2>1. ~Parted(Parties(i)) /\ visit'[i] = visit[i]
    BY <1>1, <1>4, <1>9, VisitFacts DEF RowInv, Terminate
  <2>2. Parties(i) # {p, q}
    BY <1>2, <1>4, <1>9 DEF ListedFor, OpenBetween
  <2>3. Parties(i)' = Parties(i)
    BY <2>1 DEF Parties
  <2> QED BY <1>8, <2>1, <2>2, <2>3 DEF Parted
<1>10. ASSUME NEW r \in Human, NEW w \in Human, Parted({r, w})', ~Parted({r, w})
       PROVE  UserLock(r) \in call[t].held
  <2>1. {r, w} = {p, q}
    BY <1>8, <1>10 DEF Parted
  <2> QED BY <1>3, <2>1
<1>11. Terminate(V)
  BY <1>1, <1>4
<1> QED BY <1>1, <1>5, <1>7, <1>9, <1>10, <1>11, TerminateKeeps

\* A write of one row and of the slot it has in its world.
WritesRow(t, i) ==
    /\ call' = [call EXCEPT ![t] = NoCall] /\ WorldLock(OwnerOf[i]) \in call[t].held /\ blocks' = blocks
    /\ \A j \in Invite \ {i} : invite'[j] = invite[j] /\ visit'[j] = visit[j] /\ chat'[j] = chat[j]
    /\ \A p \in Human \ {OwnerOf[i]} : seats'[p] = seats[p]
    /\ \A j \in Invite \ {i} : /\ <<"invite", j>> \in seats'[OwnerOf[i]] <=> <<"invite", j>> \in seats[OwnerOf[i]]
                               /\ <<"visit", j>> \in seats'[OwnerOf[i]] <=> <<"visit", j>> \in seats[OwnerOf[i]]
    /\ <<"invite", i>> \in seats'[OwnerOf[i]] <=> invite'[i] = "active"
    /\ <<"visit", i>> \in seats'[OwnerOf[i]] <=> VisitIsOpen(i)'
    /\ visit[i].status # "none" => visit'[i].status # "none" /\ visit'[i].visitor = visit[i].visitor
    /\ VisitIsOpen(i)' /\ ~VisitIsOpen(i) =>
           \A p \in visit'[i].visitor : UserLock(p) \in call[t].held /\ Cardinality(OpenVisitsOf(p)) < VisitorLimit

LEMMA RowWriteKeeps ==
    ASSUME VisitInv, NEW t \in VisitTx, NEW i \in Invite, WritesRow(t, i), RowInv(i)', VisitTypes',
           IsFiniteSet(seats'[OwnerOf[i]]), Cardinality(seats'[OwnerOf[i]]) <= VisitSlots
    PROVE  VisitInv'
<1>1. \A P : Parted(P)' <=> Parted(P)
  BY DEF WritesRow, Parted
<1>2. ASSUME NEW j \in Invite PROVE RowInv(j)'
  <2>1. CASE j # i
    <3>1. RowInv(j) /\ invite'[j] = invite[j] /\ visit'[j] = visit[j] /\ chat'[j] = chat[j]
      BY <2>1, VisitFacts DEF WritesRow
    <3>2. Parties(j)' = Parties(j) /\ VisitIsOpen(j)' = VisitIsOpen(j)
      BY <3>1 DEF Parties, VisitIsOpen
    <3>3. Parted(Parties(j))' <=> Parted(Parties(j))
      BY <1>1, <3>2 DEF WritesRow, Parted
    <3> QED BY <3>1, <3>2, <3>3 DEF RowInv
  <2> QED BY <2>1
<1>3. ASSUME NEW j \in Invite, j # i PROVE (VisitIsOpen(j)' <=> VisitIsOpen(j)) /\ visit'[j] = visit[j]
  BY <1>3 DEF WritesRow, VisitIsOpen
<1>4. ASSUME NEW p \in Human PROVE SeatInv(p)'
  <2>1. SeatInv(p) /\ SeatInv(OwnerOf[i]) /\ OwnerOf[i] \in Human
    BY VisitFacts
  <2>2. ASSUME NEW j \in Invite
        PROVE  /\ <<"invite", j>> \in seats'[p] <=> OwnerOf[j] = p /\ invite'[j] = "active"
               /\ <<"visit", j>> \in seats'[p] <=> OwnerOf[j] = p /\ VisitIsOpen(j)'
    <3>1. CASE p # OwnerOf[i]
      <4>1. seats'[p] = seats[p]
        BY <3>1 DEF WritesRow
      <4>2. CASE j = i
        BY <2>1, <3>1, <4>1, <4>2 DEF SeatInv
      <4>3. CASE j # i
        BY <1>3, <2>1, <4>1, <4>3 DEF SeatInv, WritesRow
      <4> QED BY <4>2, <4>3
    <3>2. CASE p = OwnerOf[i] /\ j = i
      BY <3>2 DEF WritesRow
    <3>3. CASE p = OwnerOf[i] /\ j # i
      <4>1. /\ <<"invite", j>> \in seats'[p] <=> <<"invite", j>> \in seats[p]
            /\ <<"visit", j>> \in seats'[p] <=> <<"visit", j>> \in seats[p]
            /\ invite'[j] = invite[j]
        BY <3>3 DEF WritesRow
      <4>2. /\ <<"invite", j>> \in seats[p] <=> OwnerOf[j] = p /\ invite[j] = "active"
            /\ <<"visit", j>> \in seats[p] <=> OwnerOf[j] = p /\ VisitIsOpen(j)
        BY <2>1 DEF SeatInv
      <4> QED BY <1>3, <3>3, <4>1, <4>2
    <3> QED BY <3>1, <3>2, <3>3
  <2>3. IsFiniteSet(seats'[p]) /\ Cardinality(seats'[p]) <= VisitSlots
    BY <2>1 DEF SeatInv, WritesRow
  <2>4. IsFiniteSet(OpenVisitsOf(p)) /\ Cardinality(OpenVisitsOf(p)) <= VisitorLimit
    BY <2>1 DEF SeatInv
  <2>5. Cardinality(OpenVisitsOf(p)) \in Nat /\ VisitorLimit \in Nat
    BY <2>4, FS_CardinalityType, VisitBounds
  <2>6. IsFiniteSet(OpenVisitsOf(p)') /\ Cardinality(OpenVisitsOf(p)') <= VisitorLimit
    <3>1. CASE VisitIsOpen(i)' /\ ~VisitIsOpen(i) /\ p \in visit'[i].visitor
      <4>1. OpenVisitsOf(p)' \subseteq OpenVisitsOf(p) \cup {i}
        BY <1>3 DEF OpenVisitsOf
      <4>2. IsFiniteSet(OpenVisitsOf(p) \cup {i}) /\ Cardinality(OpenVisitsOf(p) \cup {i}) <= Cardinality(OpenVisitsOf(p)) + 1
        <5>1. /\ IsFiniteSet(OpenVisitsOf(p) \cup {i})
              /\ Cardinality(OpenVisitsOf(p) \cup {i}) =
                     IF i \in OpenVisitsOf(p) THEN Cardinality(OpenVisitsOf(p)) ELSE Cardinality(OpenVisitsOf(p)) + 1
          BY <2>4, FS_AddElement
        <5> QED BY <2>5, <5>1
      <4>3. /\ IsFiniteSet(OpenVisitsOf(p)')
            /\ Cardinality(OpenVisitsOf(p)') <= Cardinality(OpenVisitsOf(p) \cup {i})
        BY <4>1, <4>2, FS_Subset
      <4>4. Cardinality(OpenVisitsOf(p)') \in Nat /\ Cardinality(OpenVisitsOf(p) \cup {i}) \in Nat
        BY <4>2, <4>3, FS_CardinalityType
      <4>5. Cardinality(OpenVisitsOf(p)) < VisitorLimit
        BY <3>1 DEF WritesRow
      <4> QED BY <2>5, <4>2, <4>3, <4>4, <4>5
    <3>2. CASE ~(VisitIsOpen(i)' /\ ~VisitIsOpen(i) /\ p \in visit'[i].visitor)
      <4>1. VisitIsOpen(i) => visit'[i].visitor = visit[i].visitor
        BY DEF WritesRow, VisitIsOpen, OpenVisit
      <4>2. OpenVisitsOf(p)' \subseteq OpenVisitsOf(p)
        BY <1>3, <3>2, <4>1 DEF OpenVisitsOf
      <4>3. IsFiniteSet(OpenVisitsOf(p)') /\ Cardinality(OpenVisitsOf(p)') <= Cardinality(OpenVisitsOf(p))
        BY <2>4, <4>2, FS_Subset
      <4>4. Cardinality(OpenVisitsOf(p)') \in Nat
        BY <4>3, FS_CardinalityType
      <4> QED BY <2>4, <2>5, <4>3, <4>4
    <3> QED BY <3>1, <3>2
  <2> QED BY <2>2, <2>3, <2>6 DEF SeatInv
<1>5. RowsInv'
  <2>1. \A b \in blocks' : b[1] # b[2]
    BY VisitFacts DEF RowsInv, WritesRow
  <2> QED BY <1>2, <1>4, <2>1 DEF RowsInv
<1>6. WroteUnderLocks(t)
  <2>1. ASSUME NEW j \in Invite, WorldLock(OwnerOf[j]) \notin call[t].held
        PROVE  invite'[j] = invite[j] /\ visit'[j] = visit[j]
    BY <2>1 DEF WritesRow
  <2>2. ASSUME NEW p \in Human, WorldLock(p) \notin call[t].held PROVE seats'[p] = seats[p]
    BY <2>2 DEF WritesRow
  <2>3. ASSUME NEW j \in Invite, visit[j].status # "none"
        PROVE  visit'[j].status # "none" /\ visit'[j].visitor = visit[j].visitor
    BY <2>3 DEF WritesRow
  <2>4. ASSUME NEW j \in Invite, VisitIsOpen(j)', ~VisitIsOpen(j), NEW p \in visit'[j].visitor
        PROVE  UserLock(p) \in call[t].held
    BY <1>3, <2>4 DEF WritesRow
  <2>5. \A p, q \in Human : ~(Parted({p, q})' /\ ~Parted({p, q}))
    BY DEF WritesRow, Parted
  <2> QED BY <2>1, <2>2, <2>3, <2>4, <2>5 DEF WroteUnderLocks
<1>7. call' = [call EXCEPT ![t] = NoCall]
  BY DEF WritesRow
<1> QED BY <1>5, <1>6, <1>7, WriteKeeps

LEMMA InviteKeeps ==
    ASSUME VisitInv, NEW t \in VisitTx, NEW i \in Invite, WriteInvite(t, i)
    PROVE  VisitInv'
<1>1. /\ call[t].pc = "write" /\ call[t].verdict = "issue" /\ i \in call[t].on /\ CallInv(t)
      /\ call' = [call EXCEPT ![t] = NoCall] /\ UNCHANGED <<visit, chat, blocks>>
      /\ invite' = [invite EXCEPT ![i] = "active"]
      /\ seats' = [seats EXCEPT ![OwnerOf[i]] = @ \cup {<<"invite", i>>}]
  BY VisitFacts DEF WriteInvite, Writes
<1>2. JudgedFor(t, i)
  BY <1>1 DEF CallInv, JudgedFor
<1>3. /\ WorldLock(OwnerOf[i]) \in call[t].held /\ invite[i] = "none" /\ SlotIsFree(OwnerOf[i])
      /\ OwnerOf[i] \in Human /\ SeatInv(OwnerOf[i]) /\ RowInv(i)
  BY <1>1, <1>2, VisitFacts DEF JudgedFor
<1>4. /\ invite'[i] = "active" /\ \A j \in Invite \ {i} : invite'[j] = invite[j]
      /\ seats'[OwnerOf[i]] = seats[OwnerOf[i]] \cup {<<"invite", i>>}
      /\ \A p \in Human \ {OwnerOf[i]} : seats'[p] = seats[p]
  BY <1>1, <1>3, VisitFacts DEF VisitTypes
<1>5. VisitTypes'
  BY <1>1, <1>4, NoCallIsRow, VisitFacts DEF VisitTypes
<1>6. visit[i].status = "none" /\ ~VisitIsOpen(i) /\ ~VisitIsOpen(i)'
  BY <1>1, <1>3 DEF RowInv, VisitIsOpen, OpenVisit
<1>7. RowInv(i)'
  BY <1>1, <1>3, <1>4, <1>6 DEF RowInv
<1>8. WritesRow(t, i)
  <2>1. <<"visit", i>> \notin seats[OwnerOf[i]]
    BY <1>3, <1>6 DEF SeatInv
  <2> QED BY <1>1, <1>3, <1>4, <1>6, <2>1 DEF WritesRow
<1>9. IsFiniteSet(seats'[OwnerOf[i]]) /\ Cardinality(seats'[OwnerOf[i]]) <= VisitSlots
  <2>1. IsFiniteSet(seats[OwnerOf[i]]) /\ Cardinality(seats[OwnerOf[i]]) < VisitSlots
    BY <1>3 DEF SeatInv, SlotIsFree
  <2>2. Cardinality(seats[OwnerOf[i]]) \in Nat /\ VisitSlots \in Nat
    BY <2>1, FS_CardinalityType, VisitBounds
  <2>3. /\ IsFiniteSet(seats[OwnerOf[i]] \cup {<<"invite", i>>})
        /\ Cardinality(seats[OwnerOf[i]] \cup {<<"invite", i>>}) =
               IF <<"invite", i>> \in seats[OwnerOf[i]] THEN Cardinality(seats[OwnerOf[i]])
                                                        ELSE Cardinality(seats[OwnerOf[i]]) + 1
    BY <2>1, FS_AddElement
  <2> QED BY <1>4, <2>1, <2>2, <2>3
<1> QED BY <1>5, <1>7, <1>8, <1>9, RowWriteKeeps

LEMMA InviteOverKeeps ==
    ASSUME VisitInv, NEW t \in VisitTx, NEW i \in Invite, NEW target \in {"revoked", "expired"},
           WriteInviteOver(t, i, target)
    PROVE  VisitInv'
<1>1. /\ call[t].pc = "write" /\ call[t].verdict = target /\ i \in call[t].on /\ CallInv(t)
      /\ call' = [call EXCEPT ![t] = NoCall] /\ UNCHANGED <<visit, chat, blocks>>
      /\ invite' = [invite EXCEPT ![i] = target]
      /\ seats' = [seats EXCEPT ![OwnerOf[i]] = @ \ {<<"invite", i>>}]
  BY VisitFacts DEF WriteInviteOver, Writes
<1>2. JudgedFor(t, i)
  BY <1>1 DEF CallInv, JudgedFor
<1>3. /\ WorldLock(OwnerOf[i]) \in call[t].held /\ invite[i] = "active"
      /\ OwnerOf[i] \in Human /\ SeatInv(OwnerOf[i]) /\ RowInv(i)
  BY <1>1, <1>2, VisitFacts DEF JudgedFor
<1>4. /\ invite'[i] = target /\ \A j \in Invite \ {i} : invite'[j] = invite[j]
      /\ seats'[OwnerOf[i]] = seats[OwnerOf[i]] \ {<<"invite", i>>}
      /\ \A p \in Human \ {OwnerOf[i]} : seats'[p] = seats[p]
  BY <1>1, <1>3, VisitFacts DEF VisitTypes
<1>5. VisitTypes'
  BY <1>1, <1>4, NoCallIsRow, VisitFacts DEF VisitTypes
<1>6. visit[i].status = "none" /\ ~VisitIsOpen(i) /\ ~VisitIsOpen(i)'
  BY <1>1, <1>3 DEF RowInv, VisitIsOpen, OpenVisit
<1>7. RowInv(i)'
  BY <1>1, <1>3, <1>4, <1>6 DEF RowInv
<1>8. WritesRow(t, i)
  <2>1. <<"visit", i>> \notin seats[OwnerOf[i]]
    BY <1>3, <1>6 DEF SeatInv
  <2> QED BY <1>1, <1>3, <1>4, <1>6, <2>1 DEF WritesRow
<1>9. IsFiniteSet(seats'[OwnerOf[i]]) /\ Cardinality(seats'[OwnerOf[i]]) <= VisitSlots
  <2>1. IsFiniteSet(seats[OwnerOf[i]]) /\ Cardinality(seats[OwnerOf[i]]) <= VisitSlots
    BY <1>3 DEF SeatInv
  <2>2. seats'[OwnerOf[i]] \subseteq seats[OwnerOf[i]]
    BY <1>4
  <2>3. /\ IsFiniteSet(seats'[OwnerOf[i]])
        /\ Cardinality(seats'[OwnerOf[i]]) <= Cardinality(seats[OwnerOf[i]])
    BY <2>1, <2>2, FS_Subset
  <2>4. Cardinality(seats[OwnerOf[i]]) \in Nat /\ Cardinality(seats'[OwnerOf[i]]) \in Nat /\ VisitSlots \in Nat
    BY <2>1, <2>3, FS_CardinalityType, VisitBounds
  <2> QED BY <2>1, <2>3, <2>4
<1> QED BY <1>5, <1>7, <1>8, <1>9, RowWriteKeeps

LEMMA PendingKeeps ==
    ASSUME VisitInv, NEW t \in VisitTx, NEW i \in Invite, WritePendingVisit(t, i)
    PROVE  VisitInv'
<1>1. /\ call[t].pc = "write" /\ call[t].verdict = "open" /\ i \in call[t].on /\ CallInv(t)
      /\ call' = [call EXCEPT ![t] = NoCall] /\ UNCHANGED <<chat, blocks>>
      /\ invite' = [invite EXCEPT ![i] = "redeemed"]
      /\ seats' = [seats EXCEPT ![OwnerOf[i]] = (@ \ {<<"invite", i>>}) \cup {<<"visit", i>>}]
      /\ visit' = [visit EXCEPT ![i] = [status |-> "pending", visitor |-> call[t].who]]
  BY VisitFacts DEF WritePendingVisit, Writes
<1>2. JudgedFor(t, i)
  BY <1>1 DEF CallInv, JudgedFor
<1>3. /\ WorldLock(OwnerOf[i]) \in call[t].held /\ invite[i] = "active"
      /\ OwnerOf[i] \in Human /\ SeatInv(OwnerOf[i]) /\ RowInv(i)
  BY <1>1, <1>2, VisitFacts DEF JudgedFor
<1>4. PICK p \in Human : call[t].who = {p} /\ UserLock(p) \in call[t].held /\ MayRedeem(p, i)
  BY <1>1, <1>2 DEF JudgedFor
<1>5. /\ invite'[i] = "redeemed" /\ \A j \in Invite \ {i} : invite'[j] = invite[j] /\ visit'[j] = visit[j]
      /\ seats'[OwnerOf[i]] = (seats[OwnerOf[i]] \ {<<"invite", i>>}) \cup {<<"visit", i>>}
      /\ \A q \in Human \ {OwnerOf[i]} : seats'[q] = seats[q]
  BY <1>1, <1>3, VisitFacts DEF VisitTypes
<1>6. visit'[i] = [status |-> "pending", visitor |-> {p}] /\ visit'[i].status = "pending" /\ visit'[i].visitor = {p}
  BY <1>1, <1>4, VisitFacts DEF VisitTypes
<1>7. VisitTypes'
  <2>1. visit' \in [Invite -> VisitRow]
    <3>1. [status |-> "pending", visitor |-> call[t].who] \in VisitRow
      BY <1>4 DEF VisitRow
    <3> QED BY <1>1, <3>1, VisitFacts DEF VisitTypes
  <2>2. seats' \in [Human -> SUBSET ({"invite", "visit"} \X Invite)]
    BY <1>1, <1>3, VisitFacts DEF VisitTypes
  <2>3. invite' \in [Invite -> {"none", "active", "revoked", "expired", "redeemed"}] /\ call' \in [VisitTx -> CallRow]
    BY <1>1, NoCallIsRow, VisitFacts DEF VisitTypes
  <2> QED BY <1>1, <2>1, <2>2, <2>3, VisitFacts DEF VisitTypes
<1>8. visit[i].status = "none" /\ ~VisitIsOpen(i) /\ VisitIsOpen(i)' /\ chat[i] # "active"
  BY <1>3, <1>6 DEF RowInv, VisitIsOpen, OpenVisit
<1>9. OwnerOf[i] # p /\ ~Parted({p, OwnerOf[i]}) /\ Cardinality(OpenVisitsOf(p)) < VisitorLimit
  BY <1>4 DEF MayRedeem
<1>10. RowInv(i)'
  <2>1. Parties(i)' = {p, OwnerOf[i]}
    BY <1>6 DEF Parties
  <2>2. ~Parted(Parties(i))'
    BY <1>1, <1>9, <2>1 DEF Parted
  <2>3. \E v \in Human \ {OwnerOf[i]} : visit'[i].visitor = {v}
    BY <1>4, <1>6, <1>9
  <2> QED BY <1>1, <1>5, <1>6, <1>8, <2>2, <2>3 DEF RowInv
<1>11. WritesRow(t, i)
  <2>1. UNCHANGED <<chat, blocks>>
    BY <1>1
  <2>2. <<"invite", i>> \notin seats'[OwnerOf[i]] /\ <<"visit", i>> \in seats'[OwnerOf[i]]
    BY <1>5
  <2>3. \A j \in Invite \ {i} : /\ <<"invite", j>> \in seats'[OwnerOf[i]] <=> <<"invite", j>> \in seats[OwnerOf[i]]
                                /\ <<"visit", j>> \in seats'[OwnerOf[i]] <=> <<"visit", j>> \in seats[OwnerOf[i]]
    BY <1>5
  <2>4. \A q \in visit'[i].visitor : UserLock(q) \in call[t].held /\ Cardinality(OpenVisitsOf(q)) < VisitorLimit
    BY <1>4, <1>6, <1>9
  <2> QED BY <1>1, <1>3, <1>5, <1>8, <2>1, <2>2, <2>3, <2>4 DEF WritesRow
<1>12. IsFiniteSet(seats'[OwnerOf[i]]) /\ Cardinality(seats'[OwnerOf[i]]) <= VisitSlots
  <2> DEFINE S == seats[OwnerOf[i]] \ {<<"invite", i>>}
  <2>1. IsFiniteSet(seats[OwnerOf[i]]) /\ Cardinality(seats[OwnerOf[i]]) <= VisitSlots
    BY <1>3 DEF SeatInv
  <2>2. <<"invite", i>> \in seats[OwnerOf[i]]
    BY <1>3 DEF SeatInv
  <2>3. IsFiniteSet(S) /\ Cardinality(S) = Cardinality(seats[OwnerOf[i]]) - 1
    BY <2>1, <2>2, FS_RemoveElement
  <2>4. seats'[OwnerOf[i]] = S \cup {<<"visit", i>>}
    BY <1>5
  <2> HIDE DEF S
  <2>5. /\ IsFiniteSet(S \cup {<<"visit", i>>})
        /\ Cardinality(S \cup {<<"visit", i>>}) =
               IF <<"visit", i>> \in S THEN Cardinality(S) ELSE Cardinality(S) + 1
    BY <2>3, FS_AddElement
  <2>6. Cardinality(S) \in Nat /\ Cardinality(seats[OwnerOf[i]]) \in Nat /\ VisitSlots \in Nat
    BY <2>1, <2>3, FS_CardinalityType, VisitBounds
  <2> QED BY <2>1, <2>3, <2>4, <2>5, <2>6
<1> QED BY <1>7, <1>10, <1>11, <1>12, RowWriteKeeps

LEMMA ActiveKeeps ==
    ASSUME VisitInv, NEW t \in VisitTx, NEW i \in Invite, WriteActiveVisit(t, i)
    PROVE  VisitInv'
<1>1. /\ call[t].pc = "write" /\ call[t].verdict = "accept" /\ i \in call[t].on /\ CallInv(t)
      /\ call' = [call EXCEPT ![t] = NoCall] /\ UNCHANGED <<invite, seats, blocks>>
      /\ visit' = [visit EXCEPT ![i] = [visit[i] EXCEPT !.status = "active"]]
      /\ chat' = [chat EXCEPT ![i] = "active"]
  BY VisitFacts DEF WriteActiveVisit, Writes
<1>2. JudgedFor(t, i)
  BY <1>1 DEF CallInv, JudgedFor
<1>3. /\ WorldLock(OwnerOf[i]) \in call[t].held /\ VisitIsOpen(i) /\ ~Parted(Parties(i))
      /\ OwnerOf[i] \in Human /\ SeatInv(OwnerOf[i]) /\ RowInv(i)
  BY <1>1, <1>2, VisitFacts DEF JudgedFor
<1>4. PICK row \in VisitRow : row = [visit[i] EXCEPT !.status = "active"] /\ row.status = "active"
                              /\ row.visitor = visit[i].visitor
  <2>1. PICK old \in VisitRow : old = visit[i]
    BY VisitFacts
  <2>2. [old EXCEPT !.status = "active"] \in VisitRow
    BY DEF VisitRow
  <2>3. [old EXCEPT !.status = "active"].status = "active" /\ [old EXCEPT !.status = "active"].visitor = old.visitor
    BY DEF VisitRow
  <2> QED BY <2>1, <2>2, <2>3
<1>5. /\ visit'[i] = row /\ \A j \in Invite \ {i} : visit'[j] = visit[j] /\ chat'[j] = chat[j]
      /\ chat'[i] = "active"
  BY <1>1, <1>4, VisitFacts DEF VisitTypes
<1>6. VisitTypes'
  <2>1. visit' = [visit EXCEPT ![i] = row]
    BY <1>1, <1>4
  <2>2. visit' \in [Invite -> VisitRow]
    BY <2>1, VisitFacts DEF VisitTypes
  <2> QED BY <1>1, <2>2, NoCallIsRow, VisitFacts DEF VisitTypes
<1>7. VisitIsOpen(i)' /\ visit[i].status # "none"
  BY <1>3, <1>4, <1>5 DEF VisitIsOpen, OpenVisit
<1>8. RowInv(i)'
  <2>1. Parties(i)' = Parties(i)
    BY <1>4, <1>5 DEF Parties
  <2>2. ~Parted(Parties(i))'
    BY <1>1, <1>3, <2>1 DEF Parted
  <2> QED BY <1>1, <1>3, <1>4, <1>5, <1>7, <2>2 DEF RowInv
<1>9. <<"invite", i>> \notin seats[OwnerOf[i]] /\ <<"visit", i>> \in seats[OwnerOf[i]] /\ invite'[i] # "active"
  BY <1>1, <1>3, <1>7 DEF SeatInv, RowInv
<1>10. WritesRow(t, i)
  BY <1>1, <1>3, <1>4, <1>5, <1>7, <1>9 DEF WritesRow
<1>11. IsFiniteSet(seats'[OwnerOf[i]]) /\ Cardinality(seats'[OwnerOf[i]]) <= VisitSlots
  BY <1>1, <1>3 DEF SeatInv
<1> QED BY <1>6, <1>8, <1>10, <1>11, RowWriteKeeps

LEMMA VisitMoves == VisitInv /\ [VisitNext]_visitVars => VisitInv'
<1> SUFFICES ASSUME VisitInv, [VisitNext]_visitVars PROVE VisitInv'
  OBVIOUS
<1>1. ASSUME NEW t \in VisitTx, NEW i \in Invite, VisitWrite(t, i) PROVE VisitInv'
  <2>1. CASE WriteInvite(t, i)
    BY <2>1, InviteKeeps
  <2>2. ASSUME NEW target \in {"revoked", "expired"}, WriteInviteOver(t, i, target) PROVE VisitInv'
    BY <2>2, InviteOverKeeps
  <2>3. CASE WritePendingVisit(t, i)
    BY <2>3, PendingKeeps
  <2>4. CASE WriteActiveVisit(t, i)
    BY <2>4, ActiveKeeps
  <2>5. CASE WriteVisitOver(t, i)
    BY <2>5, VisitOverKeeps
  <2>6. CASE Serve(t, i)
    BY <2>6, LeaveKeeps DEF Serve, Writes
  <2> QED BY <1>1, <2>1, <2>2, <2>3, <2>4, <2>5, <2>6 DEF VisitWrite
<1>2. ASSUME NEW t \in VisitTx, LeaveCall(t) PROVE VisitInv'
  BY <1>2, LeaveKeeps DEF LeaveCall
<1>3. CASE UNCHANGED visitVars
  <2>1. /\ invite' = invite /\ seats' = seats /\ visit' = visit /\ chat' = chat /\ blocks' = blocks /\ call' = call
    BY <1>3 DEF visitVars
  <2>2. VisitTypes'
    BY <2>1, VisitFacts DEF VisitTypes
  <2>3. ASSUME NEW i \in Invite PROVE RowInv(i)' /\ (VisitIsOpen(i)' <=> VisitIsOpen(i))
    BY <2>1, VisitFacts DEF RowInv, Parted, Parties, VisitIsOpen
  <2>4. ASSUME NEW p \in Human PROVE SeatInv(p)' /\ OpenVisitsOf(p)' = OpenVisitsOf(p)
    <3>1. OpenVisitsOf(p)' = OpenVisitsOf(p)
      BY <2>1 DEF OpenVisitsOf, VisitIsOpen
    <3> QED BY <2>1, <2>3, <3>1, VisitFacts DEF SeatInv, VisitIsOpen
  <2>5. RowsInv'
    BY <2>1, <2>3, <2>4, VisitFacts DEF RowsInv
  <2>6. ASSUME NEW t \in VisitTx PROVE CallInv(t)'
    <3>1. Asked(t) => Asked(t)'
      BY <2>1 DEF Asked, AskedFor, Locks
    <3>2. ASSUME NEW p, NEW q, ListedFor(t, p, q) PROVE ListedFor(t, p, q)'
      BY <2>1, <3>2 DEF ListedFor, OpenBetween, VisitIsOpen, Parties, Locks
    <3>3. ASSUME NEW i, JudgedFor(t, i) PROVE JudgedFor(t, i)'
      BY <2>1, <3>3 DEF JudgedFor, SlotIsFree, MayRedeem, Parted, OpenVisitsOf, VisitIsOpen, PairIsOpen, Parties
    <3> QED BY <2>1, <3>1, <3>2, <3>3, VisitFacts DEF CallInv
  <2>7. \A t, u \in VisitTx : t # u => Apart(t, u)'
    BY <2>1, VisitFacts DEF Apart
  <2> QED BY <2>2, <2>5, <2>6, <2>7 DEF VisitInv
<1>4. CASE VisitNext
  BY <1>1, <1>2, <1>4, RequestKeeps, TakeKeeps, ListKeeps, JudgeKeeps, BlockKeeps DEF VisitNext
<1> QED BY <1>3, <1>4

LEMMA VisitStart == VisitInit => VisitInv
<1> SUFFICES ASSUME VisitInit PROVE VisitInv
  OBVIOUS
<1>1. VisitTypes
  <2>1. NoVisit \in VisitRow
    BY DEF NoVisit, VisitRow
  <2> QED BY <2>1, NoCallIsRow DEF VisitInit, VisitTypes
<1>2. ASSUME NEW i \in Invite PROVE invite[i] = "none" /\ visit[i].status = "none" /\ ~VisitIsOpen(i) /\ RowInv(i)
  BY DEF VisitInit, NoVisit, VisitIsOpen, OpenVisit, RowInv
<1>3. ASSUME NEW p \in Human PROVE SeatInv(p)
  <2>1. seats[p] = {} /\ OpenVisitsOf(p) = {}
    BY <1>2 DEF VisitInit, OpenVisitsOf
  <2>2. IsFiniteSet({}) /\ Cardinality({}) = 0
    BY FS_EmptySet
  <2> QED BY <1>2, <2>1, <2>2, VisitBounds DEF SeatInv
<1>4. RowsInv
  BY <1>2, <1>3 DEF RowsInv, VisitInit
<1>5. ASSUME NEW t \in VisitTx PROVE CallInv(t) /\ call[t].held = {}
  BY DEF VisitInit, CallInv, NoCall
<1> QED BY <1>1, <1>4, <1>5 DEF VisitInv, Apart

LEMMA NobodyEmbraces == VisitInv => NoDeadlyEmbrace
<1> SUFFICES ASSUME VisitInv, NEW t \in VisitTx, NEW u \in VisitTx, t # u, call[t].want # {}, call[u].want # {},
                    NextLock(t) \in call[u].held, NextLock(u) \in call[t].held
             PROVE  FALSE
  BY DEF NoDeadlyEmbrace
<1>1. /\ call[t].want \in SUBSET Lock /\ call[u].want \in SUBSET Lock
      /\ NextLock(t) \in call[t].want /\ NextLock(u) \in call[u].want
  BY LocksOf, NextLockIsLeast
<1>2. /\ Before(NextLock(t), NextLock(u)) /\ NextLock(t) # NextLock(u) /\ Before(NextLock(u), NextLock(t))
  BY <1>1, VisitFacts DEF CallInv
<1>3. NextLock(t) \in Lock /\ NextLock(u) \in Lock
  BY <1>1
<1> QED BY <1>2, <1>3, LocksAreOrdered

LEMMA VisitShows == VisitInv => VisitsAreSound
<1> SUFFICES ASSUME VisitInv PROVE VisitsAreSound
  OBVIOUS
<1>1. VisitsTypeOK
  <2>1. ASSUME NEW i \in Invite
        PROVE  /\ visit[i].status \in {"none", "over"} \cup OpenVisit
               /\ visit[i].visitor \subseteq Human
               /\ chat[i] \in {"none", "active", "read_only"}
    BY VisitFacts DEF VisitRow, OpenVisit, VisitTypes
  <2>2. ASSUME NEW t \in VisitTx PROVE call[t].pc \in {"idle", "lock", "worlds", "write"}
    BY VisitFacts DEF CallRow
  <2> QED BY <2>1, <2>2, VisitFacts DEF VisitsTypeOK, VisitTypes
<1>2. BlockEndsContact
  <2>1. ASSUME NEW i \in Invite, Parted(Parties(i)) PROVE ~VisitIsOpen(i) /\ chat[i] # "active"
    BY <2>1, VisitFacts DEF RowInv, VisitIsOpen, OpenVisit
  <2>2. ASSUME NEW i \in Invite, Parted(Parties(i)), NEW t \in VisitTx, call[t].verdict = "serve"
        PROVE  i \notin call[t].on
    <3>1. CallInv(t)
      BY VisitFacts
    <3>2. PICK j \in Invite : JudgedFor(t, j)
      BY <2>2, <3>1 DEF CallInv
    <3>3. call[t].on = {j} /\ ~Parted(Parties(j))
      BY <2>2, <3>2 DEF JudgedFor
    <3> QED BY <2>2, <3>3
  <2> QED BY <2>1, <2>2 DEF BlockEndsContact
<1>3. VisitsFit
  <2>1. ASSUME NEW p \in Human
        PROVE  /\ Cardinality(seats[p]) <= VisitSlots
               /\ Cardinality(OpenVisitsOf(p)) <= VisitorLimit
               /\ seats[p] = {<<"invite", i>> : i \in {j \in Invite : OwnerOf[j] = p /\ invite[j] = "active"}}
                             \cup {<<"visit", i>> : i \in {j \in Invite : OwnerOf[j] = p /\ VisitIsOpen(j)}}
    <3>1. SeatInv(p) /\ seats[p] \in SUBSET ({"invite", "visit"} \X Invite)
      BY VisitFacts DEF VisitTypes
    <3>2. \A i \in Invite : /\ <<"invite", i>> \in seats[p] <=> OwnerOf[i] = p /\ invite[i] = "active"
                            /\ <<"visit", i>> \in seats[p] <=> OwnerOf[i] = p /\ VisitIsOpen(i)
      BY <3>1 DEF SeatInv
    <3> DEFINE I == {<<"invite", i>> : i \in {j \in Invite : OwnerOf[j] = p /\ invite[j] = "active"}}
               V == {<<"visit", i>> : i \in {j \in Invite : OwnerOf[j] = p /\ VisitIsOpen(j)}}
    <3>3. ASSUME NEW x \in seats[p] PROVE x \in I \cup V
      <4>1. PICK kind \in {"invite", "visit"}, i \in Invite : x = <<kind, i>>
        BY <3>1
      <4>2. CASE kind = "invite"
        BY <3>2, <4>1, <4>2
      <4>3. CASE kind = "visit"
        BY <3>2, <4>1, <4>3
      <4> QED BY <4>2, <4>3
    <3>4. ASSUME NEW x \in I \cup V PROVE x \in seats[p]
      BY <3>2
    <3> HIDE DEF I, V
    <3>5. seats[p] = I \cup V
      BY <3>3, <3>4
    <3> QED BY <3>1, <3>5 DEF I, V, SeatInv
  <2>2. \A i \in Invite : chat[i] = "active" <=> visit[i].status = "active"
    BY VisitFacts DEF RowInv
  <2> QED BY <2>1, <2>2 DEF VisitsFit
<1> QED BY <1>1, <1>2, <1>3, NobodyEmbraces DEF VisitsAreSound

\* For any number of people, invites and sessions: two people of whom one has
\* blocked the other have no open visit, no open chat and no message on its
\* way; slots and visits stay within their limits; and the ascending order of
\* the locks keeps any two transactions from waiting for each other.
THEOREM VisitsStaySound == VisitSpec => []VisitsAreSound
<1>1. VisitInv /\ [VisitNext]_visitVars => VisitInv'
  BY VisitMoves
<1> QED BY <1>1, VisitStart, VisitShows, PTL DEF VisitSpec

-----------------------------------------------------------------------------
(***************************************************************************)
(* The feed: WorldFeed.                                                    *)
(***************************************************************************)
PostRow == [status : {"none", "generating", "published", "skipped", "deleted"}, author : SUBSET Author,
            token : SUBSET Ticker, lease : {"none", "fresh", "stale"}, tries : 0 .. MaxTries, deferred : BOOLEAN]
EventRow == [status : {"none", "pending", "processing", "delivered", "dead"}, token : SUBSET Publisher,
             lease : {"none", "fresh", "stale"}, tries : Nat, later : BOOLEAN]
TickRow == [pc : {"idle", "claim", "author", "generate", "publish", "defer", "skip"}, slot : SUBSET Slot]
SendRow == [pc : {"idle", "send", "complete", "fail"}, todo : SUBSET Event, at : SUBSET Event]

Shown(p) == post[p].status \in {"published", "deleted"}
HasEvent(e) == event[e].status # "none"

FeedTypes ==
    /\ post \in [Post -> PostRow] /\ event \in [Event -> EventRow]
    /\ closed \subseteq Slot /\ present \subseteq Author
    /\ ticker \in [Ticker -> TickRow] /\ publisher \in [Publisher -> SendRow]

\* A post has the events of what has happened to it.
Announced(p) ==
    /\ HasEvent(<<p, "published">>) <=> Shown(p)
    /\ HasEvent(<<p, "deleted">>) <=> post[p].status = "deleted"

FeedInv == FeedTypes /\ \A p \in Post : Announced(p)

\* The step of ClaimHolds, for one slot and for one event.
SlotHeld(s) ==
    post[s].status = "generating" /\ post[s].token # {} /\ post[s].lease = "fresh"
      /\ (post'[s].status # "generating" \/ post'[s].token # post[s].token)
    => \/ s \in closed
       \/ \E g \in post[s].token : ticker'[g] # ticker[g]
EventHeld(e) ==
    event[e].status = "processing" /\ event[e].lease = "fresh" /\ event'[e].status # "processing"
    => \E p \in event[e].token : publisher'[p] # publisher[p]
FeedStep == (\A s \in Slot : SlotHeld(s)) /\ \A e \in Event : EventHeld(e)

LEMMA FeedFacts ==
    ASSUME FeedInv
    PROVE  /\ FeedTypes /\ \A p \in Post : post[p] \in PostRow /\ Announced(p)
           /\ \A e \in Event : event[e] \in EventRow
           /\ \A g \in Ticker : ticker[g] \in TickRow /\ ticker[g].slot \in SUBSET Slot
           /\ \A p \in Publisher : publisher[p] \in SendRow /\ publisher[p].todo \in SUBSET Event
                                   /\ publisher[p].at \in SUBSET Event
           /\ \A p \in Post : <<p, "published">> \in Event /\ <<p, "deleted">> \in Event
           /\ \A s \in Slot : s \in Post
<1>1. FeedTypes /\ \A p \in Post : post[p] \in PostRow /\ Announced(p)
  BY DEF FeedInv, FeedTypes
<1>2. ASSUME NEW g \in Ticker PROVE ticker[g] \in TickRow /\ ticker[g].slot \in SUBSET Slot
  BY <1>1 DEF FeedTypes, TickRow
<1>3. ASSUME NEW p \in Publisher
      PROVE  publisher[p] \in SendRow /\ publisher[p].todo \in SUBSET Event /\ publisher[p].at \in SUBSET Event
  BY <1>1 DEF FeedTypes, SendRow
<1>4. \A p \in Post : <<p, "published">> \in Event /\ <<p, "deleted">> \in Event
  BY DEF Event
<1>5. \A s \in Slot : s \in Post
  BY DEF Post
<1>6. \A e \in Event : event[e] \in EventRow
  BY <1>1 DEF FeedTypes
<1> QED BY <1>1, <1>2, <1>3, <1>4, <1>5, <1>6

\* A step of one post that shows and deletes nothing.
LEMMA PostMoves ==
    ASSUME FeedInv, NEW s \in Post, NEW x \in PostRow, post' = [post EXCEPT ![s] = x], event' = event,
           x.status \in {"published", "deleted"} <=> Shown(s),
           x.status = "deleted" <=> post[s].status = "deleted",
           closed' = closed, present' = present, publisher' = publisher,
           ticker' \in [Ticker -> TickRow],
           SlotHeld(s)
    PROVE  FeedInv' /\ FeedStep
<1>1. post'[s] = x /\ \A p \in Post \ {s} : post'[p] = post[p]
  BY FeedFacts DEF FeedTypes
<1>2. FeedTypes'
  BY FeedFacts DEF FeedTypes
<1>3. ASSUME NEW p \in Post PROVE Announced(p)'
  <2>1. Announced(p)
    BY FeedFacts
  <2> QED BY <1>1, <2>1 DEF Announced, HasEvent, Shown
<1>4. ASSUME NEW r \in Slot PROVE SlotHeld(r)
  <2>1. CASE r = s
    BY <2>1
  <2>2. CASE r # s
    <3>1. post'[r] = post[r]
      BY <1>1, <2>2, FeedFacts
    <3> QED BY <3>1 DEF SlotHeld
  <2> QED BY <2>1, <2>2
<1>5. \A e \in Event : EventHeld(e)
  BY DEF EventHeld
<1> QED BY <1>2, <1>3, <1>4, <1>5 DEF FeedInv, FeedStep

\* A step that changes no post and no event.
LEMMA FeedRests ==
    ASSUME FeedInv, post' = post, event' = event, closed' \subseteq Slot, present' \subseteq present,
           ticker' \in [Ticker -> TickRow], publisher' \in [Publisher -> SendRow]
    PROVE  FeedInv' /\ FeedStep
<1>1. FeedTypes'
  BY FeedFacts DEF FeedTypes
<1>2. ASSUME NEW p \in Post PROVE Announced(p)'
  <2>1. Announced(p)
    BY FeedFacts
  <2> QED BY <2>1 DEF Announced, HasEvent, Shown
<1>3. FeedStep
  BY DEF FeedStep, SlotHeld, EventHeld
<1> QED BY <1>1, <1>2, <1>3 DEF FeedInv

LEMMA TickMoves ==
    ASSUME FeedInv, NEW g \in Ticker, NEW pc \in {"idle", "claim", "author", "generate", "publish", "defer", "skip"}
    PROVE  [ticker EXCEPT ![g].pc = pc] \in [Ticker -> TickRow]
<1>1. PICK old \in TickRow : old = ticker[g]
  BY FeedFacts
<1>2. [old EXCEPT !.pc = pc] \in TickRow
  BY DEF TickRow
<1>3. [ticker EXCEPT ![g].pc = pc] = [ticker EXCEPT ![g] = [old EXCEPT !.pc = pc]]
  BY <1>1
<1> QED BY <1>2, <1>3, FeedFacts DEF FeedTypes

LEMMA AsleepIsRow == Asleep \in TickRow /\ Asleep.pc = "idle"
BY DEF Asleep, TickRow

\* The ends of a claim.
OverRow(row, status) ==
    [row EXCEPT !.status = status, !.token = {}, !.lease = "none", !.deferred = FALSE]

LEMMA OverIsRow ==
    ASSUME FeedInv, NEW s \in Post, NEW status \in {"published", "skipped"}
    PROVE  \E x \in PostRow : x.status = status /\ Over(s, status) = [post EXCEPT ![s] = x]
<1>1. PICK old \in PostRow : old = post[s]
  BY FeedFacts
<1>2. [old EXCEPT !.status = status, !.token = {}, !.lease = "none", !.deferred = FALSE] \in PostRow
  BY DEF PostRow
<1>3. PICK x \in PostRow : x = [old EXCEPT !.status = status, !.token = {}, !.lease = "none", !.deferred = FALSE]
  BY <1>2
<1>4. x.status = status
  BY <1>3 DEF PostRow
<1>5. Over(s, status) = [post EXCEPT ![s] = x]
  BY <1>1, <1>3 DEF Over
<1> QED BY <1>4, <1>5

\* A post is shown or deleted together with its event.
LEMMA EventComes ==
    ASSUME FeedInv, NEW e \in Event, event' = WithEvent(e)
    PROVE  /\ event' \in [Event -> EventRow] /\ event'[e].status # "none"
           /\ \A d \in Event \ {e} : event'[d] = event[d]
           /\ \A d \in Event : EventHeld(d)
<1>1. PICK row \in EventRow : row = event[e]
  BY FeedFacts
<1>2. PICK x \in EventRow : x = IF row.status = "none" THEN NewEvent ELSE row
  <2>1. NewEvent \in EventRow
    BY DEF NewEvent, NoEvent, EventRow
  <2> QED BY <2>1
<1>3. x.status # "none" /\ (row.status = "processing" => x.status = "processing")
  BY <1>2 DEF NewEvent, NoEvent
<1>4. event' = [event EXCEPT ![e] = x]
  BY <1>1, <1>2 DEF WithEvent
<1>5. event'[e] = x /\ \A d \in Event \ {e} : event'[d] = event[d]
  BY <1>4, FeedFacts DEF FeedTypes
<1>6. \A d \in Event : EventHeld(d)
  BY <1>1, <1>3, <1>5 DEF EventHeld
<1>7. event' \in [Event -> EventRow]
  BY <1>4, FeedFacts DEF FeedTypes
<1> QED BY <1>3, <1>5, <1>6, <1>7

LEMMA PublishMoves ==
    ASSUME FeedInv, NEW s \in Post, NEW x \in PostRow, post' = [post EXCEPT ![s] = x], x.status = "published",
           event' = WithEvent(<<s, "published">>), post[s].status # "deleted",
           UNCHANGED <<closed, present, publisher>>, ticker' \in [Ticker -> TickRow],
           s \in Slot => SlotHeld(s)
    PROVE  FeedInv' /\ FeedStep
<1>0. <<s, "published">> \in Event
  BY FeedFacts
<1>1. post'[s] = x /\ \A p \in Post \ {s} : post'[p] = post[p]
  BY FeedFacts DEF FeedTypes
<1>2. /\ event' \in [Event -> EventRow] /\ event'[<<s, "published">>].status # "none"
      /\ \A d \in Event \ {<<s, "published">>} : event'[d] = event[d]
      /\ \A d \in Event : EventHeld(d)
  BY <1>0, EventComes
<1>3. FeedTypes'
  BY <1>2, FeedFacts DEF FeedTypes
<1>4. ASSUME NEW p \in Post PROVE Announced(p)'
  <2>1. Announced(p) /\ <<p, "deleted">> \in Event /\ <<p, "published">> \in Event
    BY FeedFacts
  <2>2. event'[<<p, "deleted">>] = event[<<p, "deleted">>]
    BY <1>2, <2>1
  <2>3. CASE p = s
    BY <1>1, <1>2, <2>1, <2>2, <2>3 DEF Announced, HasEvent, Shown
  <2>4. CASE p # s
    BY <1>1, <1>2, <2>1, <2>2, <2>4 DEF Announced, HasEvent, Shown
  <2> QED BY <2>3, <2>4
<1>5. ASSUME NEW r \in Slot PROVE SlotHeld(r)
  <2>1. CASE r # s
    <3>1. post'[r] = post[r]
      BY <1>1, <2>1, FeedFacts
    <3> QED BY <3>1 DEF SlotHeld
  <2> QED BY <2>1
<1> QED BY <1>2, <1>3, <1>4, <1>5 DEF FeedInv, FeedStep

\* A scheduler that skips or gives up its slot, or a window that closes.
LEMMA SkipMoves ==
    ASSUME FeedInv, NEW s \in Slot, post' = Over(s, "skipped"), post[s].status = "generating",
           UNCHANGED <<event, closed, present, publisher>>, ticker' \in [Ticker -> TickRow],
           s \in closed \/ \E g \in post[s].token : ticker'[g] # ticker[g]
    PROVE  FeedInv' /\ FeedStep
<1>1. PICK x \in PostRow : x.status = "skipped" /\ post' = [post EXCEPT ![s] = x]
  BY OverIsRow, FeedFacts
<1>2. x.status \notin {"published", "deleted"} /\ ~Shown(s) /\ post[s].status # "deleted" /\ x.status # "deleted"
  BY <1>1 DEF Shown
<1>3. SlotHeld(s)
  BY DEF SlotHeld
<1>4. s \in Post
  BY FeedFacts
<1> QED BY <1>1, <1>2, <1>3, <1>4, PostMoves

LEMMA TickKeeps ==
    ASSUME FeedInv, NEW g \in Ticker, TickStep(g)
    PROVE  FeedInv' /\ FeedStep
<1>1. ticker[g] \in TickRow /\ ticker[g].slot \in SUBSET Slot /\ [ticker EXCEPT ![g] = Asleep] \in [Ticker -> TickRow]
  BY FeedFacts, AsleepIsRow DEF FeedTypes
<1>2. publisher \in [Publisher -> SendRow] /\ closed \subseteq Slot /\ ticker \in [Ticker -> TickRow]
  BY FeedFacts DEF FeedTypes
<1>3. ASSUME NEW s \in Slot, StartTick(g, s) PROVE FeedInv' /\ FeedStep
  <2>1. [pc |-> "claim", slot |-> {s}] \in TickRow
    BY DEF TickRow
  <2>2. ticker' \in [Ticker -> TickRow]
    BY <1>2, <1>3, <2>1 DEF StartTick
  <2> QED BY <1>2, <1>3, <2>2, FeedRests DEF StartTick
<1>4. CASE CheckAuthor(g)
  <2>1. ticker' = [ticker EXCEPT ![g].pc = "generate"] \/ ticker' = [ticker EXCEPT ![g].pc = "skip"]
    BY <1>4 DEF CheckAuthor
  <2>2. ticker' \in [Ticker -> TickRow]
    BY <2>1, TickMoves
  <2> QED BY <1>2, <1>4, <2>2, FeedRests DEF CheckAuthor
<1>5. CASE Generate(g)
  <2>1. PICK pc \in {"publish", "defer", "skip"} : ticker' = [ticker EXCEPT ![g].pc = pc]
    BY <1>5 DEF Generate
  <2>2. ticker' \in [Ticker -> TickRow]
    BY <2>1, TickMoves
  <2> QED BY <1>2, <1>5, <2>2, FeedRests DEF Generate
<1>6. CASE TickerDies(g)
  BY <1>1, <1>2, <1>6, FeedRests DEF TickerDies
<1>7. ASSUME ticker[g].pc # "idle", ticker' = [ticker EXCEPT ![g] = Asleep], NEW s \in Slot, HoldsSlot(g, s)
      PROVE  \E h \in post[s].token : ticker'[h] # ticker[h]
  BY <1>2, <1>7, AsleepIsRow DEF HoldsSlot
<1>8. CASE SkipSlot(g)
  <2>1. /\ ticker[g].pc # "idle" /\ ticker' = [ticker EXCEPT ![g] = Asleep]
        /\ UNCHANGED <<event, closed, present, publisher>>
    BY <1>8 DEF SkipSlot
  <2>2. PICK s \in Slot : post' = IF HoldsSlot(g, s) THEN Over(s, "skipped") ELSE post
    BY <1>1, <1>8 DEF SkipSlot
  <2>3. CASE HoldsSlot(g, s)
    <3>1. post' = Over(s, "skipped") /\ post[s].status = "generating"
      BY <2>2, <2>3 DEF HoldsSlot
    <3>2. \E h \in post[s].token : ticker'[h] # ticker[h]
      BY <1>7, <2>1, <2>3
    <3> QED BY <1>1, <2>1, <3>1, <3>2, SkipMoves
  <2>4. CASE ~HoldsSlot(g, s)
    BY <1>1, <1>2, <2>1, <2>2, <2>4, FeedRests
  <2> QED BY <2>3, <2>4
<1>9. CASE DeferSlot(g)
  <2>1. /\ ticker[g].pc # "idle" /\ ticker' = [ticker EXCEPT ![g] = Asleep]
        /\ UNCHANGED <<event, closed, present, publisher>>
    BY <1>9 DEF DeferSlot
  <2>2. PICK s \in Slot :
            \/ ~HoldsSlot(g, s) /\ post' = post
            \/ HoldsSlot(g, s) /\ post' = Over(s, "skipped")
            \/ /\ HoldsSlot(g, s)
               /\ post' = [post EXCEPT ![s].token = {}, ![s].lease = "none", ![s].deferred = TRUE]
    BY <1>1, <1>9 DEF DeferSlot
  <2>3. CASE ~HoldsSlot(g, s) /\ post' = post
    BY <1>1, <1>2, <2>1, <2>3, FeedRests
  <2>4. CASE HoldsSlot(g, s) /\ post' = Over(s, "skipped")
    <3>1. post[s].status = "generating"
      BY <2>4 DEF HoldsSlot
    <3>2. \E h \in post[s].token : ticker'[h] # ticker[h]
      BY <1>7, <2>1, <2>4
    <3> QED BY <1>1, <2>1, <2>4, <3>1, <3>2, SkipMoves
  <2>5. CASE /\ HoldsSlot(g, s)
             /\ post' = [post EXCEPT ![s].token = {}, ![s].lease = "none", ![s].deferred = TRUE]
    <3>1. PICK old \in PostRow : old = post[s] /\ s \in Post
      BY FeedFacts
    <3>2. PICK x \in PostRow : x = [old EXCEPT !.token = {}, !.lease = "none", !.deferred = TRUE]
      <4>1. [old EXCEPT !.token = {}, !.lease = "none", !.deferred = TRUE] \in PostRow
        BY DEF PostRow
      <4> QED BY <4>1
    <3>3. x.status = old.status
      BY <3>2 DEF PostRow
    <3>4. post' = [post EXCEPT ![s] = x]
      BY <2>5, <3>1, <3>2
    <3>5. SlotHeld(s)
      BY <1>7, <2>1, <2>5 DEF SlotHeld
    <3> QED BY <1>1, <2>1, <3>1, <3>3, <3>4, <3>5, PostMoves DEF Shown
  <2> QED BY <2>2, <2>3, <2>4, <2>5
<1>10. CASE ClaimSlot(g)
  <2>0. UNCHANGED <<event, closed, present, publisher>>
    BY <1>10 DEF ClaimSlot
  <2>1. PICK s \in Slot :
            \/ \E r \in present :
                 /\ post[s].status = "none"
                 /\ post' = [post EXCEPT ![s] =
                               [status |-> "generating", author |-> {r}, token |-> {g},
                                lease |-> "fresh", tries |-> 1, deferred |-> FALSE]]
                 /\ ticker' = [ticker EXCEPT ![g].pc = "author"]
            \/ /\ Reclaimable(s)
               /\ post' = [post EXCEPT ![s].token = {g}, ![s].lease = "fresh", ![s].tries = @ + 1]
               /\ ticker' = [ticker EXCEPT ![g].pc = "author"]
            \/ ticker' = [ticker EXCEPT ![g] = Asleep] /\ post' = post
    BY <1>1, <1>10 DEF ClaimSlot
  <2>2. PICK old \in PostRow : old = post[s] /\ s \in Post
    BY FeedFacts
  <2>3. ASSUME NEW r \in present, post[s].status = "none",
               post' = [post EXCEPT ![s] = [status |-> "generating", author |-> {r}, token |-> {g},
                                            lease |-> "fresh", tries |-> 1, deferred |-> FALSE]],
               ticker' = [ticker EXCEPT ![g].pc = "author"]
        PROVE  FeedInv' /\ FeedStep
    <3>1. PICK x \in PostRow : x = [status |-> "generating", author |-> {r}, token |-> {g},
                                    lease |-> "fresh", tries |-> 1, deferred |-> FALSE]
      <4>1. r \in Author /\ 1 \in 0 .. MaxTries
        BY FeedFacts, FeedBounds DEF FeedTypes
      <4>2. [status |-> "generating", author |-> {r}, token |-> {g},
             lease |-> "fresh", tries |-> 1, deferred |-> FALSE] \in PostRow
        BY <4>1 DEF PostRow
      <4> QED BY <4>2
    <3>2. x.status = "generating" /\ post' = [post EXCEPT ![s] = x]
      BY <2>3, <3>1
    <3>3. ticker' \in [Ticker -> TickRow]
      BY <2>3, TickMoves
    <3>4. SlotHeld(s)
      BY <2>3 DEF SlotHeld
    <3> QED BY <2>0, <2>2, <2>3, <3>2, <3>3, <3>4, PostMoves DEF Shown
  <2>4. CASE /\ Reclaimable(s)
             /\ post' = [post EXCEPT ![s].token = {g}, ![s].lease = "fresh", ![s].tries = @ + 1]
             /\ ticker' = [ticker EXCEPT ![g].pc = "author"]
    <3>0. post[s].status = "generating" /\ post[s].lease # "fresh" /\ post[s].tries < MaxTries
      BY <2>4 DEF Reclaimable
    <3>1. PICK x \in PostRow : x = [old EXCEPT !.token = {g}, !.lease = "fresh", !.tries = old.tries + 1]
      <4>1. old.tries + 1 \in 0 .. MaxTries
        BY <2>2, <3>0, FeedBounds DEF PostRow
      <4>2. [old EXCEPT !.token = {g}, !.lease = "fresh", !.tries = old.tries + 1] \in PostRow
        BY <4>1 DEF PostRow
      <4> QED BY <4>2
    <3>2. x.status = old.status
      BY <3>1 DEF PostRow
    <3>3. post' = [post EXCEPT ![s] = x]
      BY <2>2, <2>4, <3>1
    <3>4. ticker' \in [Ticker -> TickRow]
      BY <2>4, TickMoves
    <3>5. SlotHeld(s)
      BY <3>0 DEF SlotHeld
    <3> QED BY <2>0, <2>2, <3>2, <3>3, <3>4, <3>5, PostMoves DEF Shown
  <2>5. CASE ticker' = [ticker EXCEPT ![g] = Asleep] /\ post' = post
    BY <1>1, <1>2, <2>0, <2>5, FeedRests
  <2> QED BY <2>1, <2>3, <2>4, <2>5
<1>11. CASE PublishSlot(g)
  <2>0. UNCHANGED <<closed, present, publisher>> /\ ticker[g].pc # "idle"
    BY <1>11 DEF PublishSlot
  <2>1. PICK s \in Slot :
            \/ /\ HoldsSlot(g, s) /\ post' = Over(s, "published")
               /\ event' = WithEvent(<<s, "published">>) /\ ticker' = [ticker EXCEPT ![g] = Asleep]
            \/ /\ ticker' \in {[ticker EXCEPT ![g].pc = "skip"], [ticker EXCEPT ![g] = Asleep]}
               /\ UNCHANGED <<post, event>>
    BY <1>1, <1>11 DEF PublishSlot, Publishable
  <2>2. CASE /\ HoldsSlot(g, s) /\ post' = Over(s, "published")
             /\ event' = WithEvent(<<s, "published">>) /\ ticker' = [ticker EXCEPT ![g] = Asleep]
    <3>1. PICK x \in PostRow : x.status = "published" /\ post' = [post EXCEPT ![s] = x]
      BY <2>2, OverIsRow, FeedFacts
    <3>2. \E h \in post[s].token : ticker'[h] # ticker[h]
      BY <1>7, <2>0, <2>2
    <3>3. s \in Post /\ post[s].status = "generating" /\ ticker' \in [Ticker -> TickRow]
      BY <1>1, <2>2, FeedFacts DEF HoldsSlot
    <3>4. SlotHeld(s)
      BY <3>2 DEF SlotHeld
    <3> QED BY <2>0, <2>2, <3>1, <3>3, <3>4, PublishMoves
  <2>3. CASE /\ ticker' \in {[ticker EXCEPT ![g].pc = "skip"], [ticker EXCEPT ![g] = Asleep]}
             /\ UNCHANGED <<post, event>>
    <3>1. ticker' \in [Ticker -> TickRow]
      BY <1>1, <2>3, TickMoves
    <3> QED BY <1>2, <2>0, <2>3, <3>1, FeedRests
  <2> QED BY <2>1, <2>2, <2>3
<1> QED BY <1>3, <1>4, <1>5, <1>6, <1>8, <1>9, <1>10, <1>11 DEF TickStep

LEMMA RetireKeeps ==
    ASSUME FeedInv, NEW s \in Post, RetirePost(s)
    PROVE  FeedInv' /\ FeedStep
<1>1. PICK old \in PostRow : old = post[s] /\ old.status = "published"
  BY FeedFacts DEF RetirePost
<1>2. PICK x \in PostRow : x = [old EXCEPT !.status = "deleted"] /\ x.status = "deleted"
  <2>1. [old EXCEPT !.status = "deleted"] \in PostRow /\ [old EXCEPT !.status = "deleted"].status = "deleted"
    BY DEF PostRow
  <2> QED BY <2>1
<1>3. /\ post' = [post EXCEPT ![s] = x] /\ event' = WithEvent(<<s, "deleted">>)
      /\ UNCHANGED <<closed, present, ticker, publisher>>
  BY <1>1, <1>2 DEF RetirePost
<1>4. post'[s] = x /\ \A p \in Post \ {s} : post'[p] = post[p]
  BY <1>3, FeedFacts DEF FeedTypes
<1>5. <<s, "deleted">> \in Event
  BY FeedFacts
<1>6. /\ event' \in [Event -> EventRow] /\ event'[<<s, "deleted">>].status # "none"
      /\ \A d \in Event \ {<<s, "deleted">>} : event'[d] = event[d]
      /\ \A d \in Event : EventHeld(d)
  BY <1>3, <1>5, EventComes
<1>7. FeedTypes'
  BY <1>3, <1>6, FeedFacts DEF FeedTypes
<1>8. ASSUME NEW p \in Post PROVE Announced(p)'
  <2>1. Announced(p) /\ <<p, "deleted">> \in Event /\ <<p, "published">> \in Event
    BY FeedFacts
  <2>2. event'[<<p, "published">>] = event[<<p, "published">>]
    BY <1>6, <2>1
  <2>3. CASE p = s
    BY <1>1, <1>2, <1>4, <1>6, <2>1, <2>2, <2>3 DEF Announced, HasEvent, Shown
  <2>4. CASE p # s
    BY <1>4, <1>6, <2>1, <2>2, <2>4 DEF Announced, HasEvent, Shown
  <2> QED BY <2>3, <2>4
<1>9. ASSUME NEW r \in Slot PROVE SlotHeld(r)
  <2>1. CASE r # s
    <3>1. post'[r] = post[r]
      BY <1>4, <2>1, FeedFacts
    <3> QED BY <3>1 DEF SlotHeld
  <2>2. CASE r = s
    BY <1>1, <2>2 DEF SlotHeld
  <2> QED BY <2>1, <2>2
<1> QED BY <1>6, <1>7, <1>8, <1>9 DEF FeedInv, FeedStep

LEMMA OwnerPostKeeps ==
    ASSUME FeedInv, NEW u \in UserPost, PublishUserPost(u)
    PROVE  FeedInv' /\ FeedStep
<1>1. PICK old \in PostRow : old = post[u] /\ old.status = "none" /\ u \in Post
  BY FeedFacts DEF PublishUserPost, Post
<1>2. PICK x \in PostRow : x = [old EXCEPT !.status = "published"] /\ x.status = "published"
  <2>1. [old EXCEPT !.status = "published"] \in PostRow /\ [old EXCEPT !.status = "published"].status = "published"
    BY DEF PostRow
  <2> QED BY <2>1
<1>3. /\ post' = [post EXCEPT ![u] = x] /\ event' = WithEvent(<<u, "published">>)
      /\ UNCHANGED <<closed, present, publisher>> /\ ticker' \in [Ticker -> TickRow]
  BY <1>1, <1>2, FeedFacts DEF PublishUserPost, FeedTypes
<1>4. SlotHeld(u)
  BY <1>1 DEF SlotHeld
<1> QED BY <1>1, <1>2, <1>3, <1>4, PublishMoves

LEMMA TimePassesInFeed ==
    ASSUME FeedInv, NEW s \in Slot, CloseExpired(s) \/ WindowEnds(s) \/ SlotLeaseExpires(s) \/ RetryDue(s)
    PROVE  FeedInv' /\ FeedStep
<1>1. /\ ticker \in [Ticker -> TickRow] /\ publisher \in [Publisher -> SendRow] /\ closed \subseteq Slot /\ s \in Post
  BY FeedFacts DEF FeedTypes
<1>2. PICK old \in PostRow : old = post[s]
  BY <1>1, FeedFacts
<1>3. CASE CloseExpired(s)
  BY <1>1, <1>3, SkipMoves DEF CloseExpired
<1>4. CASE WindowEnds(s)
  BY <1>1, <1>4, FeedRests DEF WindowEnds
<1>5. CASE SlotLeaseExpires(s)
  <2>1. PICK x \in PostRow : x = [old EXCEPT !.lease = "stale"] /\ x.status = old.status /\ x.token = old.token
    <3>1. /\ [old EXCEPT !.lease = "stale"] \in PostRow /\ [old EXCEPT !.lease = "stale"].status = old.status
          /\ [old EXCEPT !.lease = "stale"].token = old.token
      BY DEF PostRow
    <3> QED BY <3>1
  <2>2. post' = [post EXCEPT ![s] = x] /\ UNCHANGED <<event, closed, present, ticker, publisher>>
    BY <1>2, <1>5, <2>1 DEF SlotLeaseExpires
  <2>3. post'[s] = x
    BY <1>1, <2>2, FeedFacts DEF FeedTypes
  <2>4. SlotHeld(s)
    BY <1>2, <2>1, <2>3 DEF SlotHeld
  <2> QED BY <1>1, <1>2, <2>1, <2>2, <2>4, PostMoves DEF Shown
<1>6. CASE RetryDue(s)
  <2>1. PICK x \in PostRow : x = [old EXCEPT !.deferred = FALSE] /\ x.status = old.status /\ x.token = old.token
    <3>1. /\ [old EXCEPT !.deferred = FALSE] \in PostRow /\ [old EXCEPT !.deferred = FALSE].status = old.status
          /\ [old EXCEPT !.deferred = FALSE].token = old.token
      BY DEF PostRow
    <3> QED BY <3>1
  <2>2. post' = [post EXCEPT ![s] = x] /\ UNCHANGED <<event, closed, present, ticker, publisher>>
    BY <1>2, <1>6, <2>1 DEF RetryDue
  <2>3. post'[s] = x
    BY <1>1, <2>2, FeedFacts DEF FeedTypes
  <2>4. SlotHeld(s)
    BY <1>2, <2>1, <2>3 DEF SlotHeld
  <2> QED BY <1>1, <1>2, <2>1, <2>2, <2>4, PostMoves DEF Shown
<1> QED BY <1>3, <1>4, <1>5, <1>6

(* The outbox. *)

LEMMA EventMoves ==
    ASSUME FeedInv, NEW e \in Event, NEW x \in EventRow, event' = [event EXCEPT ![e] = x],
           UNCHANGED <<post, closed, present, ticker>>, publisher' \in [Publisher -> SendRow],
           x.status # "none" <=> event[e].status # "none", EventHeld(e)
    PROVE  FeedInv' /\ FeedStep
<1>1. event'[e] = x /\ \A d \in Event \ {e} : event'[d] = event[d]
  BY FeedFacts DEF FeedTypes
<1>2. FeedTypes'
  BY FeedFacts DEF FeedTypes
<1>3. \A d \in Event : HasEvent(d)' <=> HasEvent(d)
  BY <1>1 DEF HasEvent
<1>4. ASSUME NEW p \in Post PROVE Announced(p)'
  <2>1. Announced(p) /\ <<p, "deleted">> \in Event /\ <<p, "published">> \in Event
    BY FeedFacts
  <2>2. /\ HasEvent(<<p, "published">>)' <=> HasEvent(<<p, "published">>)
        /\ HasEvent(<<p, "deleted">>)' <=> HasEvent(<<p, "deleted">>)
    BY <1>3, <2>1 DEF HasEvent
  <2> QED BY <2>1, <2>2 DEF Announced, Shown
<1>5. ASSUME NEW d \in Event PROVE EventHeld(d)
  <2>1. CASE d # e
    BY <1>1, <2>1 DEF EventHeld
  <2> QED BY <2>1
<1>6. \A s \in Slot : SlotHeld(s)
  BY DEF SlotHeld
<1> QED BY <1>2, <1>4, <1>5, <1>6 DEF FeedInv, FeedStep

LEMMA ClaimKeeps ==
    ASSUME FeedInv, NEW p \in Publisher, NEW batch \in SUBSET Event, ClaimEvents(p, batch)
    PROVE  FeedInv' /\ FeedStep
<1>1. UNCHANGED <<post, closed, present, ticker>>
  BY DEF ClaimEvents
<1>2. ASSUME NEW e \in batch
      PROVE  event'[e] \in EventRow /\ event'[e].status = "processing" /\ event[e].status # "none"
  <2>1. PICK old \in EventRow : old = event[e]
    BY FeedFacts
  <2>2. event'[e] = [old EXCEPT !.status = "processing", !.token = {p}, !.lease = "fresh", !.tries = old.tries + 1]
    BY <2>1 DEF ClaimEvents
  <2>3. PICK n \in Nat : n = old.tries + 1
    BY DEF EventRow
  <2>4. /\ [old EXCEPT !.status = "processing", !.token = {p}, !.lease = "fresh", !.tries = n] \in EventRow
        /\ [old EXCEPT !.status = "processing", !.token = {p}, !.lease = "fresh", !.tries = n].status = "processing"
    BY DEF EventRow
  <2>5. event[e].status # "none"
    BY DEF ClaimEvents, ClaimableEvent
  <2> QED BY <2>2, <2>3, <2>4, <2>5
<1>3. \A e \in Event \ batch : event'[e] = event[e]
  BY DEF ClaimEvents
<1>4. event' \in [Event -> EventRow]
  <2>1. event' = [e \in Event |-> event'[e]]
    BY DEF ClaimEvents
  <2>2. \A e \in Event : event'[e] \in EventRow
    BY <1>2, <1>3, FeedFacts
  <2> QED BY <2>1, <2>2
<1>5. publisher' \in [Publisher -> SendRow]
  <2>1. [pc |-> "send", todo |-> batch, at |-> {}] \in SendRow
    BY DEF SendRow
  <2> QED BY <2>1, FeedFacts DEF ClaimEvents, FeedTypes
<1>6. FeedTypes'
  BY <1>1, <1>4, <1>5, FeedFacts DEF FeedTypes
<1>7. \A d \in Event : HasEvent(d)' <=> HasEvent(d)
  BY <1>2, <1>3 DEF HasEvent
<1>8. ASSUME NEW q \in Post PROVE Announced(q)'
  <2>1. Announced(q) /\ <<q, "deleted">> \in Event /\ <<q, "published">> \in Event
    BY FeedFacts
  <2>2. /\ HasEvent(<<q, "published">>)' <=> HasEvent(<<q, "published">>)
        /\ HasEvent(<<q, "deleted">>)' <=> HasEvent(<<q, "deleted">>)
    BY <1>7, <2>1 DEF HasEvent
  <2> QED BY <1>1, <2>1, <2>2 DEF Announced, Shown
<1>9. \A d \in Event : EventHeld(d)
  BY <1>2, <1>3 DEF EventHeld
<1>10. \A s \in Slot : SlotHeld(s)
  BY <1>1 DEF SlotHeld
<1> QED BY <1>6, <1>8, <1>9, <1>10 DEF FeedInv, FeedStep

\* The publisher that settles the event in its hand goes on to the next one.
LEMMA NextEventMoves ==
    ASSUME FeedInv, NEW p \in Publisher, publisher[p].pc \in {"complete", "fail"}, NEW e, NextEvent(p, e)
    PROVE  publisher' \in [Publisher -> SendRow] /\ publisher'[p] # publisher[p]
<1>1. PICK x \in SendRow : x.pc \in {"idle", "send"} /\ publisher' = [publisher EXCEPT ![p] = x]
  <2> DEFINE left == publisher[p].todo \ {e}
             y == IF left = {} THEN Waiting ELSE [pc |-> "send", todo |-> left, at |-> {}]
  <2>1. left \in SUBSET Event
    BY FeedFacts
  <2>2. publisher' = [publisher EXCEPT ![p] = y]
    BY DEF NextEvent
  <2> HIDE DEF left
  <2>3. CASE left = {}
    <3>1. Waiting \in SendRow /\ Waiting.pc = "idle"
      BY DEF Waiting, SendRow
    <3> QED BY <2>2, <2>3, <3>1
  <2>4. CASE left # {}
    <3>1. PICK x \in SendRow : x = [pc |-> "send", todo |-> left, at |-> {}] /\ x.pc = "send"
      <4>1. [pc |-> "send", todo |-> left, at |-> {}] \in SendRow
        BY <2>1 DEF SendRow
      <4> QED BY <4>1
    <3> QED BY <2>2, <2>4, <3>1
  <2> QED BY <2>3, <2>4
<1>2. publisher'[p] = x
  BY <1>1, FeedFacts DEF FeedTypes
<1> QED BY <1>1, <1>2, FeedFacts DEF FeedTypes

LEMMA SettledIsRow ==
    ASSUME FeedInv, NEW e \in Event, NEW status \in {"pending", "delivered", "dead"}, NEW later \in BOOLEAN
    PROVE  \E x \in EventRow : x.status = status /\ x = Settled(event[e], status, later)
<1>1. PICK old \in EventRow : old = event[e]
  BY FeedFacts
<1>2. [old EXCEPT !.status = status, !.token = {}, !.lease = "none", !.later = later] \in EventRow
  BY DEF EventRow
<1>3. PICK x \in EventRow : x = [old EXCEPT !.status = status, !.token = {}, !.lease = "none", !.later = later]
  BY <1>2
<1>4. x.status = status
  BY <1>3 DEF EventRow
<1> QED BY <1>1, <1>3, <1>4 DEF Settled

LEMMA SettleMoves ==
    ASSUME FeedInv, NEW p \in Publisher, publisher[p].pc \in {"complete", "fail"}, NEW e \in Event, NextEvent(p, e),
           NEW status \in {"pending", "delivered", "dead"}, NEW later \in BOOLEAN, HoldsEvent(p, e),
           event' = [event EXCEPT ![e] = Settled(event[e], status, later)],
           UNCHANGED <<post, closed, present, ticker>>
    PROVE  FeedInv' /\ FeedStep
<1>1. PICK x \in EventRow : x.status = status /\ x = Settled(event[e], status, later)
  BY SettledIsRow
<1>2. publisher' \in [Publisher -> SendRow] /\ publisher'[p] # publisher[p]
  BY NextEventMoves
<1>3. EventHeld(e)
  BY <1>2 DEF EventHeld, HoldsEvent
<1>4. event[e].status # "none" /\ x.status # "none" /\ event' = [event EXCEPT ![e] = x]
  BY <1>1 DEF HoldsEvent
<1> QED BY <1>2, <1>3, <1>4, EventMoves

LEMMA PublisherKeeps ==
    ASSUME FeedInv, NEW p \in Publisher, PublisherStep(p)
    PROVE  FeedInv' /\ FeedStep
<1>1. publisher \in [Publisher -> SendRow] /\ closed \subseteq Slot /\ ticker \in [Ticker -> TickRow]
  BY FeedFacts DEF FeedTypes
<1>2. ASSUME NEW e \in Event, SendEvent(p, e) PROVE FeedInv' /\ FeedStep
  <2>1. PICK pc \in {"complete", "fail"} : publisher' = [publisher EXCEPT ![p].pc = pc, ![p].at = {e}]
    BY <1>2 DEF SendEvent
  <2>2. PICK old \in SendRow : old = publisher[p]
    BY FeedFacts
  <2>3. PICK x \in SendRow : x = [old EXCEPT !.pc = pc, !.at = {e}]
    <3>1. [old EXCEPT !.pc = pc, !.at = {e}] \in SendRow
      BY DEF SendRow
    <3> QED BY <3>1
  <2>4. publisher' = [publisher EXCEPT ![p] = x]
    BY <2>1, <2>2, <2>3
  <2>5. publisher' \in [Publisher -> SendRow] /\ UNCHANGED <<post, event, closed, present, ticker>>
    BY <1>1, <1>2, <2>4 DEF SendEvent
  <2> QED BY <1>1, <2>5, FeedRests
<1>3. CASE CompleteEvent(p)
  <2>1. PICK e \in Event :
            /\ event' = IF HoldsEvent(p, e)
                        THEN [event EXCEPT ![e] = Settled(@, "delivered", @.later)] ELSE event
            /\ NextEvent(p, e)
    BY <1>3, FeedFacts DEF CompleteEvent
  <2>2. publisher[p].pc \in {"complete", "fail"} /\ UNCHANGED <<post, closed, present, ticker>>
    BY <1>3 DEF CompleteEvent
  <2>3. CASE HoldsEvent(p, e)
    <3>1. PICK later \in BOOLEAN : later = event[e].later
      BY FeedFacts DEF EventRow
    <3>2. event' = [event EXCEPT ![e] = Settled(event[e], "delivered", later)]
      BY <2>1, <2>3, <3>1
    <3> QED BY <2>1, <2>2, <2>3, <3>2, SettleMoves
  <2>4. CASE ~HoldsEvent(p, e)
    <3>1. event' = event /\ publisher' \in [Publisher -> SendRow]
      BY <2>1, <2>2, <2>4, NextEventMoves
    <3> QED BY <1>1, <2>2, <3>1, FeedRests
  <2> QED BY <2>3, <2>4
<1>4. CASE FailEvent(p)
  <2>1. PICK e \in Event :
            /\ \/ ~HoldsEvent(p, e) /\ event' = event
               \/ HoldsEvent(p, e) /\ event' = [event EXCEPT ![e] = Settled(event[e], "pending", TRUE)]
               \/ HoldsEvent(p, e) /\ event' = [event EXCEPT ![e] = Settled(event[e], "dead", FALSE)]
            /\ NextEvent(p, e)
    BY <1>4, FeedFacts DEF FailEvent, MayFail
  <2>2. publisher[p].pc \in {"complete", "fail"} /\ UNCHANGED <<post, closed, present, ticker>>
    BY <1>4 DEF FailEvent
  <2>3. CASE ~HoldsEvent(p, e) /\ event' = event
    <3>1. publisher' \in [Publisher -> SendRow]
      BY <2>1, <2>2, NextEventMoves
    <3> QED BY <1>1, <2>2, <2>3, <3>1, FeedRests
  <2>4. CASE HoldsEvent(p, e) /\ event' = [event EXCEPT ![e] = Settled(event[e], "pending", TRUE)]
    BY <2>1, <2>2, <2>4, SettleMoves
  <2>5. CASE HoldsEvent(p, e) /\ event' = [event EXCEPT ![e] = Settled(event[e], "dead", FALSE)]
    BY <2>1, <2>2, <2>5, SettleMoves
  <2> QED BY <2>1, <2>3, <2>4, <2>5
<1>5. CASE PublisherDies(p)
  <2>1. Waiting \in SendRow
    BY DEF Waiting, SendRow
  <2> QED BY <1>1, <1>5, <2>1, FeedRests DEF PublisherDies
<1>6. ASSUME NEW batch \in SUBSET Event, ClaimEvents(p, batch) PROVE FeedInv' /\ FeedStep
  BY <1>6, ClaimKeeps
<1> QED BY <1>2, <1>3, <1>4, <1>5, <1>6 DEF PublisherStep

LEMMA EventTimePasses ==
    ASSUME FeedInv, NEW e \in Event, EventLeaseExpires(e) \/ EventDue(e)
    PROVE  FeedInv' /\ FeedStep
<1>1. publisher \in [Publisher -> SendRow]
  BY FeedFacts DEF FeedTypes
<1>2. PICK old \in EventRow : old = event[e]
  BY FeedFacts
<1>3. PICK x \in EventRow : /\ x = [old EXCEPT !.lease = "stale"] \/ x = [old EXCEPT !.later = FALSE]
                            /\ x.status = old.status /\ event' = [event EXCEPT ![e] = x]
  <2>1. CASE EventLeaseExpires(e)
    <3>1. [old EXCEPT !.lease = "stale"] \in EventRow /\ [old EXCEPT !.lease = "stale"].status = old.status
      BY DEF EventRow
    <3>2. event' = [event EXCEPT ![e] = [old EXCEPT !.lease = "stale"]]
      BY <1>2, <2>1 DEF EventLeaseExpires
    <3> QED BY <3>1, <3>2
  <2>2. CASE EventDue(e)
    <3>1. [old EXCEPT !.later = FALSE] \in EventRow /\ [old EXCEPT !.later = FALSE].status = old.status
      BY DEF EventRow
    <3>2. event' = [event EXCEPT ![e] = [old EXCEPT !.later = FALSE]]
      BY <1>2, <2>2 DEF EventDue
    <3> QED BY <3>1, <3>2
  <2> QED BY <2>1, <2>2
<1>4. UNCHANGED <<post, closed, present, ticker, publisher>>
  BY DEF EventLeaseExpires, EventDue
<1>5. event'[e].status = event[e].status
  BY <1>2, <1>3, FeedFacts DEF FeedTypes
<1>6. EventHeld(e)
  BY <1>5 DEF EventHeld
<1> QED BY <1>1, <1>2, <1>3, <1>4, <1>6, EventMoves

LEMMA FeedNextKeeps == FeedInv /\ [FeedNext]_feedVars => FeedInv' /\ FeedStep
<1> SUFFICES ASSUME FeedInv, [FeedNext]_feedVars PROVE FeedInv' /\ FeedStep
  OBVIOUS
<1>1. closed \subseteq Slot /\ ticker \in [Ticker -> TickRow] /\ publisher \in [Publisher -> SendRow]
  BY FeedFacts DEF FeedTypes
<1>2. ASSUME NEW r \in Author, ResidentLeaves(r) PROVE FeedInv' /\ FeedStep
  BY <1>1, <1>2, FeedRests DEF ResidentLeaves
<1>3. CASE UNCHANGED feedVars
  BY <1>1, <1>3, FeedRests DEF feedVars
<1>4. CASE FeedNext
  BY <1>2, <1>4, TickKeeps, PublisherKeeps, TimePassesInFeed, OwnerPostKeeps, RetireKeeps, EventTimePasses DEF FeedNext
<1> QED BY <1>3, <1>4

LEMMA FeedStart == FeedInit => FeedInv
<1> SUFFICES ASSUME FeedInit PROVE FeedInv
  OBVIOUS
<1>1. NoPost \in PostRow /\ NoPost.status = "none"
  BY FeedBounds DEF NoPost, PostRow
<1>2. NoEvent \in EventRow /\ NoEvent.status = "none"
  BY DEF NoEvent, EventRow
<1>3. Asleep \in TickRow /\ Waiting \in SendRow
  BY AsleepIsRow DEF Waiting, SendRow
<1>4. FeedTypes
  BY <1>1, <1>2, <1>3 DEF FeedInit, FeedTypes
<1>5. ASSUME NEW p \in Post PROVE Announced(p)
  <2>1. <<p, "deleted">> \in Event /\ <<p, "published">> \in Event
    BY DEF Event
  <2> QED BY <1>1, <1>2, <2>1 DEF FeedInit, Announced, HasEvent, Shown
<1> QED BY <1>4, <1>5 DEF FeedInv

LEMMA FeedShows == FeedInv => FeedTypeOK
<1> SUFFICES ASSUME FeedInv PROVE FeedTypeOK
  OBVIOUS
<1>1. ASSUME NEW p \in Post
      PROVE  /\ post[p].status \in {"none", "generating", "published", "skipped", "deleted"}
             /\ post[p].tries \in 0 .. MaxTries
             /\ (event[<<p, "published">>].status # "none")
                   = (post[p].status \in {"published", "deleted"})
             /\ (event[<<p, "deleted">>].status # "none") = (post[p].status = "deleted")
  BY FeedFacts DEF PostRow, Announced, HasEvent, Shown
<1>2. \A e \in Event : event[e].status \in {"none", "pending", "processing", "delivered", "dead"}
  BY FeedFacts DEF EventRow
<1> QED BY <1>1, <1>2, FeedFacts DEF FeedTypeOK, FeedTypes

\* A claim that has not run out is settled by its holder alone, however many
\* schedulers and publishers there are and however late they come back.
THEOREM ClaimsHold == FeedSpec => ClaimHolds
<1>1. FeedInv /\ [FeedNext]_feedVars => FeedInv'
  BY FeedNextKeeps
<1> DEFINE Held ==
             /\ \A s \in Slot :
                  post[s].status = "generating" /\ post[s].token # {} /\ post[s].lease = "fresh"
                    /\ (post'[s].status # "generating" \/ post'[s].token # post[s].token)
                  => \/ s \in closed
                     \/ \E g \in post[s].token : ticker'[g] # ticker[g]
             /\ \A e \in Event :
                  /\ event[e].status = "processing" /\ event[e].lease = "fresh"
                  /\ event'[e].status # "processing"
                  => \E p \in event[e].token : publisher'[p] # publisher[p]
<1>2. FeedInv /\ [FeedNext]_feedVars => [Held]_feedVars
  <2>1. FeedStep => Held
    BY DEF FeedStep, SlotHeld, EventHeld
  <2> HIDE DEF Held
  <2> QED BY <2>1, FeedNextKeeps
<1>3. FeedSpec => []FeedTypeOK
  BY <1>1, FeedStart, FeedShows, PTL DEF FeedSpec
<1>4. FeedSpec => [][Held]_feedVars
  <2> HIDE DEF Held
  <2> QED BY <1>1, <1>2, FeedStart, PTL DEF FeedSpec
<1> QED BY <1>3, <1>4 DEF ClaimHolds
=============================================================================
