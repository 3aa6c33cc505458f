--------------------------- MODULE ReferralProofs ---------------------------
(***************************************************************************)
(* That a reward is paid exactly when it was earned, for any number of     *)
(* relationships, messages and connections.                                *)
(***************************************************************************)
EXTENDS Referral, FiniteSetTheorems, TLAPS

Writing == {"insert", "bind", "count", "hold", "pass", "release", "block", "mark"}

Owned == UNION {[S -> RowType] : S \in SUBSET Rel}

TxType == [op : {"none", "register", "message", "bind", "batch", "retry", "settle"},
           pc : Writing \cup {"idle", "commit", "list", "use", "lock", "judge", "read", "apply",
                              "skip", "credit"},
           todo : Seq(Rel), msg : SUBSET Message, late : BOOLEAN, own : Owned, snap : RowType,
           locks : SUBSET Lock, credited : SUBSET Rel, broken : BOOLEAN]

Types ==
    /\ rel \in [Rel -> RowType] /\ rewards \subseteq Rel /\ hasAccount \in BOOLEAN
    /\ told \subseteq Rel /\ batches \in 0 .. Batches
    /\ tx \in [Tx -> TxType]

Subjects(t) == {tx[t].todo[k] : k \in 1 .. Len(tx[t].todo)}

Owns(t, r) == r \in DOMAIN tx[t].own
-----------------------------------------------------------------------------
(* Rows. *)

\* A row of a relationship, committed or not: what its status says of its messages, and
\* that a reward under soft review waits for its hold.
RowIsSound(row) ==
    /\ row.status \in {"qualified", "rewarded"} => row.count >= Needed
    /\ row.count >= Needed => Cardinality(row.cands) >= Needed
    /\ row.paid => row.status = "rewarded"
    /\ row.soft /\ (row.paid \/ row.review = "passed") => row.hold = "elapsed"

\* What a transaction may make of a row that is there.
Grows(old, new) ==
    old.status # "none" =>
        /\ new.status # "none"
        /\ new.soft = old.soft
        /\ old.count >= Needed => new.count >= Needed
        /\ old.hold = "elapsed" => new.hold = "elapsed"
        /\ old.paid => new.paid

RowsAreSound ==
    /\ \A r \in Rel : RowIsSound(rel[r])
    /\ \A r \in Rel : r \in rewards <=> rel[r].paid
-----------------------------------------------------------------------------
(* What holds of one transaction. *)

\* Only a batch, a retry and what follows it have several subjects.
SubjectsAreListed(t) ==
    /\ tx[t].pc \notin {"idle", "commit", "list"} => tx[t].todo # <<>>
    /\ Len(tx[t].todo) > 1 => tx[t].op \in {"batch", "retry", "settle"}
    /\ tx[t].pc = "insert" => tx[t].op = "register"
    /\ tx[t].op = "register" => /\ tx[t].pc \in {"insert", "use", "commit"}
                                /\ Len(tx[t].todo) = 1
                                /\ rel[Subject(t)].status = "none"

\* It works on rows that are there, except for a registration.
RowsAreThere(t) ==
    \A r \in Rel : r \in Subjects(t) \/ <<"row", r>> \in tx[t].locks =>
        rel[r].status # "none" \/ (tx[t].op = "register" /\ r = Subject(t))

\* What it has written is locked, and follows the row that others see.
OwnRowsGrow(t) ==
    \A r \in Rel : Owns(t, r) =>
        /\ tx[t].pc # "insert"
        /\ <<"row", r>> \in tx[t].locks
        /\ tx[t].own[r].status # "none"
        /\ RowIsSound(tx[t].own[r])
        /\ Grows(rel[r], tx[t].own[r])

\* A row with messages enough, and past its hold if it has one.
Earned(row) ==
    row.count >= Needed /\ (row.soft => row.hold = "elapsed")

\* What it has found out about its subject still holds.
StillTrue(t, pc) ==
    /\ pc \in {"hold", "pass", "release"} => View(t, Subject(t)).count >= Needed
    /\ pc = "pass" => ~View(t, Subject(t)).soft
    /\ pc \in {"apply", "credit", "mark", "block"} => Earned(View(t, Subject(t)))
    /\ pc = "release" => /\ RowIsSound(tx[t].snap) /\ tx[t].snap.count >= Needed
                         /\ tx[t].snap.hold = "elapsed"
    /\ tx[t].op = "settle" => \A r \in Subjects(t) : Earned(View(t, r))

\* The entries it has written are those of the rows it has marked.
CreditsAreMarked(t) ==
    /\ tx[t].broken => tx[t].pc = "commit" /\ \A r \in Rel : ~Owns(t, r)
    /\ ~tx[t].broken => \A r \in tx[t].credited :
          \/ Owns(t, r) /\ tx[t].own[r].paid
          \/ tx[t].pc = "mark" /\ r = Subject(t)
    /\ \A r \in Rel : Owns(t, r) /\ tx[t].own[r].paid => r \in tx[t].credited \/ rel[r].paid
    /\ tx[t].pc = "mark" => Subject(t) \in tx[t].credited

IsSound(t) == /\ SubjectsAreListed(t) /\ RowsAreThere(t) /\ OwnRowsGrow(t)
              /\ StillTrue(t, tx[t].pc) /\ CreditsAreMarked(t)
-----------------------------------------------------------------------------
\* Two transactions neither hold the row of one relationship nor register it.
Apart(t, u) ==
    \A r \in Rel :
        /\ ~(<<"row", r>> \in tx[t].locks /\ <<"row", r>> \in tx[u].locks)
        /\ ~(tx[t].op = "register" /\ tx[u].op = "register" /\ r = Subject(t) /\ r = Subject(u))

IInv == /\ Types /\ RowsAreSound
        /\ \A t \in Tx : IsSound(t)
        /\ \A t, u \in Tx : t # u => Apart(t, u)
-----------------------------------------------------------------------------
(* Data. *)

\* Versions of rows, one for each of some relationships.
LEMMA OwnedRows ==
    ASSUME NEW o \in Owned
    PROVE  DOMAIN o \subseteq Rel /\ \A r \in DOMAIN o : o[r] \in RowType
  BY DEF Owned

With(o, s, row) == [r \in DOMAIN o \cup {s} |-> IF r = s THEN row ELSE o[r]]

LEMMA OwnedGrows ==
    ASSUME NEW o \in Owned, NEW s \in Rel, NEW row \in RowType
    PROVE  /\ With(o, s, row) \in Owned
           /\ DOMAIN With(o, s, row) = DOMAIN o \cup {s}
           /\ With(o, s, row)[s] = row
           /\ \A r \in DOMAIN o : r # s => With(o, s, row)[r] = o[r]
<1> USE DEF With
<1> DEFINE n == With(o, s, row)
<1>1. DOMAIN o \subseteq Rel /\ \A r \in DOMAIN o : o[r] \in RowType
  BY OwnedRows
<1>2. n \in [DOMAIN o \cup {s} -> RowType]
  BY <1>1
<1> QED BY <1>1, <1>2 DEF Owned

\* A list of a set of relationships has all of them.
LEMMA ListOfSet ==
    ASSUME NEW S \in SUBSET Rel
    PROVE  /\ SetToSeq(S) \in Seq(Rel)
           /\ \A k \in 1 .. Len(SetToSeq(S)) : SetToSeq(S)[k] \in S
           /\ S # {} => SetToSeq(S) # <<>>
<1> DEFINE n == Cardinality(S)
<1>1. IsFiniteSet(S) /\ n \in Nat
  BY FS_Subset, FS_CardinalityType, ReferralAssumption
<1>2. \E f \in [1 .. n -> S] : IsInjective(f)
  BY <1>1, FS_CardinalityType DEF ExistsBijection, Bijection, Injection
<1> HIDE DEF n
<1>3. SetToSeq(S) \in [1 .. n -> S]
  BY <1>2 DEF SetToSeq, n
<1>4. S # {} => n # 0
  BY <1>1, FS_EmptySet DEF n
<1>5. SetToSeq(S) \in Seq(Rel) /\ Len(SetToSeq(S)) = n
  BY <1>1, <1>3
<1> QED BY <1>1, <1>3, <1>4, <1>5

LEMMA NewRow ==
    /\ \A status \in {"none", "registered"} : Row(status) \in RowType
    /\ Row("none").status = "none" /\ ~Row("none").paid /\ RowIsSound(Row("none"))
<1>1. Cardinality(Message) \in Nat /\ Cardinality({}) = 0
  BY FS_CardinalityType, FS_EmptySet, ReferralAssumption
<1> QED BY <1>1, ReferralAssumption DEF Row, RowType, RowIsSound

LEMMA IdleHasNothing ==
    /\ Idle \in TxType
    /\ Idle.pc = "idle" /\ Idle.op = "none" /\ Idle.todo = <<>> /\ Idle.locks = {}
    /\ Idle.credited = {} /\ Idle.broken = FALSE /\ DOMAIN Idle.own = {}
<1>1. Idle.own \in Owned /\ DOMAIN Idle.own = {}
  BY DEF Idle, Owned
<1> QED BY <1>1, NewRow DEF Idle, TxType

LEMMA Viewed ==
    ASSUME Types, NEW t \in Tx, NEW r \in Rel
    PROVE  View(t, r) \in RowType
  BY OwnedRows DEF Types, TxType, View

LEMMA SubjectIsListed ==
    ASSUME Types, NEW t \in Tx, tx[t].todo # <<>>
    PROVE  /\ Subject(t) \in Rel /\ Subject(t) \in Subjects(t)
           /\ Len(tx[t].todo) \in Nat \ {0} /\ Subject(t) = tx[t].todo[1]
<1>1. tx[t].todo \in Seq(Rel)
  BY DEF Types, TxType
<1> QED BY <1>1 DEF Subject, Subjects

LEMMA LockOfRow ==
    ASSUME NEW t \in Tx, tx[t].pc \in {"insert", "bind", "hold", "pass", "release", "count", "block",
                                       "mark"}
    PROVE  Wanted(t) = {<<"row", Subject(t)>>}
  BY DEF Wanted

LEMMA OtherLock ==
    ASSUME Types, NEW t \in Tx, tx[t].todo # <<>>, tx[t].pc \in {"lock", "apply", "use", "credit"}
    PROVE  Wanted(t) \subseteq Lock /\ \A r \in Rel : <<"row", r>> \notin Wanted(t)
  BY SubjectIsListed DEF Wanted, Lock

LEMMA Transitive ==
    ASSUME NEW a, NEW b, NEW c, Grows(a, b), Grows(b, c)
    PROVE  Grows(a, c)
  BY DEF Grows

LEMMA EarnedStays ==
    ASSUME NEW a, NEW b, Grows(a, b), Earned(a), a.status # "none"
    PROVE  Earned(b)
  BY DEF Grows, Earned

\* What a transaction sees is sound, and no older than what others see.
LEMMA ViewIsSound ==
    ASSUME IInv, NEW t \in Tx, NEW r \in Rel
    PROVE  /\ View(t, r) \in RowType
           /\ RowIsSound(View(t, r))
           /\ Grows(rel[r], View(t, r))
           /\ Owns(t, r) => View(t, r).status # "none"
           /\ rel[r].status # "none" => View(t, r).status # "none"
<1>1. View(t, r) \in RowType
  BY Viewed DEF IInv
<1>2. CASE Owns(t, r)
  BY <1>1, <1>2 DEF IInv, IsSound, OwnRowsGrow, View, Owns, Grows
<1>3. CASE ~Owns(t, r)
  BY <1>1, <1>3 DEF IInv, RowsAreSound, View, Owns, Grows
<1> QED BY <1>2, <1>3

LEMMA SubjectIsThere ==
    ASSUME IInv, NEW t \in Tx, tx[t].todo # <<>>, tx[t].op # "register"
    PROVE  View(t, Subject(t)).status # "none" /\ rel[Subject(t)].status # "none"
  BY SubjectIsListed, ViewIsSound DEF IInv, IsSound, RowsAreThere
-----------------------------------------------------------------------------
(* What a step does. *)

Others(t) == \A u \in Tx \ {t} : tx'[u] = tx[u]

SameRows(t) == \A r \in Rel : <<"row", r>> \in tx'[t].locks <=> <<"row", r>> \in tx[t].locks

\* t goes on with l; it has written no row.
Moved(t, l, snap, credited) ==
    /\ Types' /\ Others(t) /\ UNCHANGED <<rel, rewards>>
    /\ tx'[t].pc = l /\ tx'[t].snap = snap /\ tx'[t].credited = credited
    /\ tx'[t].op = tx[t].op /\ tx'[t].todo = tx[t].todo
    /\ tx'[t].own = tx[t].own /\ tx'[t].broken = tx[t].broken
    /\ SameRows(t)

\* t goes on with l; it has written and locked the row of its subject.
Wrote(t, row, l) ==
    /\ Types' /\ Others(t) /\ UNCHANGED <<rel, rewards>>
    /\ tx'[t].pc = l /\ tx'[t].credited = tx[t].credited
    /\ tx'[t].op = tx[t].op /\ tx'[t].todo = tx[t].todo /\ tx'[t].broken = tx[t].broken
    /\ \A r \in Rel : <<"row", r>> \in tx'[t].locks <=>
                          <<"row", r>> \in tx[t].locks \/ r = Subject(t)
    /\ \A r \in Rel : r \in DOMAIN tx'[t].own <=> Owns(t, r) \/ r = Subject(t)
    /\ tx'[t].own[Subject(t)] = row
    /\ \A r \in Rel : Owns(t, r) /\ r # Subject(t) => tx'[t].own[r] = tx[t].own[r]

\* A transaction that does not move stays sound when rows change that it has not written.
LEMMA OthersStand ==
    ASSUME IInv, NEW u \in Tx, tx'[u] = tx[u],
           \A r \in Rel : Grows(rel[r], rel'[r]),
           \A r \in Rel : Owns(u, r) => rel'[r] = rel[r],
           tx[u].op = "register" => rel'[Subject(u)].status = rel[Subject(u)].status
    PROVE  IsSound(u)'
<1>0. /\ IsSound(u) /\ Types
      /\ Subject(u)' = Subject(u) /\ Subjects(u)' = Subjects(u)
      /\ \A r : Owns(u, r)' <=> Owns(u, r)
  BY DEF IInv, Subject, Subjects, Owns
<1>1. SubjectsAreListed(u)'
  BY <1>0 DEF IsSound, SubjectsAreListed
<1>2. RowsAreThere(u)'
  BY <1>0 DEF IsSound, RowsAreThere, Grows
<1>3. OwnRowsGrow(u)'
  BY <1>0 DEF IsSound, OwnRowsGrow
<1>4. \A r \in Rel : Grows(View(u, r), View(u, r)')
  BY <1>0 DEF View, Owns, Grows
<1>5. \A r \in Subjects(u) : r \in Rel
  BY <1>0 DEF Subjects, Types, TxType
<1>6. StillTrue(u, tx[u].pc)'
  <2>1. StillTrue(u, tx[u].pc)
    BY <1>0 DEF IsSound
  <2>2. CASE tx[u].pc \in {"hold", "pass", "release", "apply", "credit", "mark", "block"}
    <3>1. tx[u].op # "register" /\ tx[u].todo # <<>>
      BY <1>0, <2>2 DEF IsSound, SubjectsAreListed
    <3>2. View(u, Subject(u)).status # "none" /\ Subject(u) \in Rel
      BY <1>0, <3>1, SubjectIsThere, SubjectIsListed
    <3>3. \A r \in Subjects(u) : View(u, r).status # "none"
      BY <1>0, <1>5, <3>1, ViewIsSound DEF IsSound, RowsAreThere
    <3>4. /\ View(u, Subject(u)).count >= Needed => View(u, Subject(u))'.count >= Needed
          /\ ~View(u, Subject(u)).soft => ~View(u, Subject(u))'.soft
          /\ Earned(View(u, Subject(u))) => Earned(View(u, Subject(u))')
      <4>1. Grows(View(u, Subject(u)), View(u, Subject(u))')
        BY <1>0, <3>2 DEF View, Owns, Grows
      <4>2. Earned(View(u, Subject(u))) => Earned(View(u, Subject(u))')
        BY <3>2, <4>1, EarnedStays
      <4> QED BY <3>2, <4>1, <4>2 DEF Grows
    <3>5. \A r \in Subjects(u) : Earned(View(u, r)) => Earned(View(u, r)')
      BY <1>4, <1>5, <3>3, EarnedStays
    <3> QED BY <1>0, <2>1, <3>4, <3>5 DEF StillTrue, Earned
  <2>3. CASE tx[u].pc \notin {"hold", "pass", "release", "apply", "credit", "mark", "block"}
    <3>1. ASSUME tx[u].op = "settle", NEW r \in Subjects(u) PROVE Earned(View(u, r)')
      <4>1. View(u, r).status # "none"
        BY <1>0, <1>5, <3>1, ViewIsSound DEF IsSound, RowsAreThere
      <4> QED BY <1>4, <1>5, <2>1, <3>1, <4>1, EarnedStays DEF StillTrue
    <3> QED BY <1>0, <2>3, <3>1 DEF StillTrue, Earned
  <2> QED BY <2>2, <2>3
<1>7. CreditsAreMarked(u)'
  BY <1>0 DEF IsSound, CreditsAreMarked
<1> QED BY <1>1, <1>2, <1>3, <1>6, <1>7 DEF IsSound

LEMMA OthersAreSound ==
    ASSUME IInv, NEW t \in Tx, Others(t), UNCHANGED rel, NEW u \in Tx \ {t}
    PROVE  IsSound(u)'
<1>1. \A r \in Rel : Grows(rel[r], rel'[r])
  BY DEF Grows
<1> QED BY <1>1, OthersStand DEF Others

\* Enough for a step of t that changes no row of others.
LEMMA StepOfOne ==
    ASSUME IInv, NEW t \in Tx, Others(t), UNCHANGED <<rel, rewards>>, Types', IsSound(t)',
           \A r \in Rel : <<"row", r>> \in tx'[t].locks =>
               \/ <<"row", r>> \in tx[t].locks
               \/ \A u \in Tx \ {t} : <<"row", r>> \notin tx[u].locks,
           tx'[t].op = "register" =>
               \/ tx[t].op = "register" /\ tx'[t].todo = tx[t].todo
               \/ \A u \in Tx \ {t} : tx[u].op = "register" => Head(tx'[t].todo) # Subject(u)
    PROVE  IInv'
<1>1. \A u \in Tx : IsSound(u)'
  BY OthersAreSound
<1>2. RowsAreSound'
  BY DEF IInv, RowsAreSound
<1>3. ASSUME NEW u \in Tx \ {t} PROVE Apart(t, u)' /\ Apart(u, t)'
  <2>1. Apart(t, u) /\ tx'[u] = tx[u]
    BY DEF IInv, Others
  <2> QED BY <2>1 DEF Apart, Subject
<1>4. ASSUME NEW u \in Tx, NEW v \in Tx, u # v PROVE Apart(u, v)'
  <2>1. CASE u = t \/ v = t
    BY <1>3, <1>4, <2>1
  <2>2. CASE u # t /\ v # t
    BY <1>4, <2>2 DEF IInv, Apart, Others, Subject
  <2> QED BY <2>1, <2>2
<1> QED BY <1>1, <1>2, <1>4 DEF IInv

\* What must hold at l of the row that t sees of its subject.
ReadyFor(l, row) ==
    /\ l \in {"hold", "pass", "release"} => row.count >= Needed
    /\ l = "pass" => ~row.soft
    /\ l \in {"apply", "credit", "mark", "block"} => Earned(row)

LEMMA MovedIsSound ==
    ASSUME IInv, NEW t \in Tx, NEW l, NEW snap, NEW credited, Moved(t, l, snap, credited),
           tx[t].pc \notin {"idle", "commit", "list"}, l \notin {"idle", "list", "insert"},
           tx[t].op = "register" => l = "commit",
           ReadyFor(l, View(t, Subject(t))),
           l = "release" => RowIsSound(snap) /\ snap.count >= Needed /\ snap.hold = "elapsed",
           \/ l = "mark" /\ tx[t].pc # "mark" /\ credited = tx[t].credited \cup {Subject(t)}
           \/ l # "mark" /\ tx[t].pc # "mark" /\ credited = tx[t].credited
    PROVE  IInv'
<1>0. /\ IsSound(t) /\ Types /\ tx[t].todo # <<>>
      /\ Subject(t)' = Subject(t) /\ Subjects(t)' = Subjects(t)
      /\ \A r : Owns(t, r)' <=> Owns(t, r)
      /\ \A r : View(t, r)' = View(t, r)
  BY DEF IInv, IsSound, SubjectsAreListed, Moved, Subject, Subjects, Owns, View
<1>1. SubjectsAreListed(t)'
  BY <1>0 DEF IsSound, SubjectsAreListed, Moved
<1>2. RowsAreThere(t)'
  BY <1>0 DEF IsSound, RowsAreThere, Moved, SameRows
<1>3. OwnRowsGrow(t)'
  BY <1>0 DEF IsSound, OwnRowsGrow, Moved, SameRows
<1>4. StillTrue(t, tx[t].pc)'
  BY <1>0 DEF IsSound, StillTrue, ReadyFor, Moved
<1>5. CreditsAreMarked(t)'
  BY <1>0 DEF IsSound, CreditsAreMarked, Moved
<1>6. IsSound(t)'
  BY <1>1, <1>2, <1>3, <1>4, <1>5 DEF IsSound
<1> QED BY <1>6, StepOfOne DEF Moved, SameRows

LEMMA WroteIsSound ==
    ASSUME IInv, NEW t \in Tx, NEW row \in RowType, NEW l, Wrote(t, row, l),
           tx[t].pc \notin {"idle", "commit", "list"}, l \notin {"idle", "list", "insert", "release", "mark"},
           tx[t].op = "register" => l = "use",
           \A u \in Tx \ {t} : <<"row", Subject(t)>> \notin tx[u].locks,
           RowIsSound(row), row.status # "none", Grows(View(t, Subject(t)), row),
           row.paid => View(t, Subject(t)).paid \/ tx[t].pc = "mark",
           tx[t].pc = "mark" => row.paid,
           ReadyFor(l, row)
    PROVE  IInv'
<1> DEFINE s == Subject(t)
<1>0. /\ IsSound(t) /\ Types /\ tx[t].todo # <<>>
      /\ Subject(t)' = s /\ Subjects(t)' = Subjects(t)
      /\ \A r \in Rel : Owns(t, r)' <=> Owns(t, r) \/ r = s
      /\ \A r \in Rel : Owns(t, r) /\ r # s => tx'[t].own[r] = tx[t].own[r]
      /\ tx'[t].own[s] = row
  BY DEF IInv, IsSound, SubjectsAreListed, Wrote, Subject, Subjects, Owns
<1>1. s \in Rel /\ s \in Subjects(t)
  BY <1>0, SubjectIsListed
<1>2. /\ View(t, s)' = row
      /\ \A r \in Rel : r # s => View(t, r)' = View(t, r)
  <2>1. View(t, s)' = row
    BY <1>0, <1>1 DEF View, Owns
  <2>2. ASSUME NEW r \in Rel, r # s PROVE View(t, r)' = View(t, r)
    BY <1>0, <2>2 DEF View, Owns, Wrote
  <2> QED BY <2>1, <2>2
<1>3. SubjectsAreListed(t)'
  BY <1>0 DEF IsSound, SubjectsAreListed, Wrote
<1>4. RowsAreThere(t)'
  BY <1>0, <1>1 DEF IsSound, RowsAreThere, Wrote
<1>5. OwnRowsGrow(t)'
  <2> SUFFICES ASSUME NEW r \in Rel, Owns(t, r)'
               PROVE  /\ tx'[t].pc # "insert"
                      /\ <<"row", r>> \in tx'[t].locks
                      /\ tx'[t].own[r].status # "none"
                      /\ RowIsSound(tx'[t].own[r])
                      /\ Grows(rel'[r], tx'[t].own[r])
    BY DEF OwnRowsGrow
  <2>1. CASE r = s
    <3>1. Grows(rel[s], row)
      BY <1>1, ViewIsSound, Transitive
    <3> QED BY <1>0, <2>1, <3>1 DEF Wrote
  <2>2. CASE r # s
    BY <1>0, <2>2 DEF IsSound, OwnRowsGrow, Wrote
  <2> QED BY <2>1, <2>2
<1>6. StillTrue(t, tx[t].pc)'
  <2>1. ASSUME tx[t].op = "settle", NEW r \in Subjects(t) PROVE Earned(View(t, r)')
    <3>1. Earned(View(t, r)) /\ r \in Rel
      BY <1>0, <2>1 DEF IsSound, StillTrue, Subjects, Types, TxType
    <3>2. CASE r = s
      BY <1>0, <1>2, <2>1, <3>1, <3>2, SubjectIsThere, EarnedStays
    <3>3. CASE r # s
      BY <1>2, <3>1, <3>3
    <3> QED BY <3>2, <3>3
  <2>2. View(t, Subject(t))' = row
    BY <1>0, <1>1 DEF View, Owns
  <2>3. l = tx'[t].pc /\ tx'[t].op = tx[t].op
    BY DEF Wrote
  <2> QED BY <1>0, <2>1, <2>2, <2>3 DEF StillTrue, ReadyFor, Earned
<1>7. CreditsAreMarked(t)'
  <2>0. CreditsAreMarked(t) /\ ~tx[t].broken /\ ~tx'[t].broken /\ tx'[t].credited = tx[t].credited
    BY <1>0 DEF IsSound, CreditsAreMarked, Wrote
  <2>1. ASSUME NEW r \in tx[t].credited PROVE Owns(t, r)' /\ tx'[t].own[r].paid
    <3>0. r \in Rel
      BY <1>0 DEF Types, TxType
    <3>1. CASE r # s
      BY <1>0, <2>0, <3>0, <3>1 DEF CreditsAreMarked
    <3>2. CASE r = s
      <4>1. CASE tx[t].pc = "mark"
        BY <1>0, <1>1, <3>2, <4>1
      <4>2. CASE tx[t].pc # "mark"
        <5>1. Owns(t, s) /\ tx[t].own[s].paid
          BY <2>0, <3>2, <4>2 DEF CreditsAreMarked
        <5>2. View(t, s).paid /\ View(t, s).status # "none"
          BY <1>1, <5>1, ViewIsSound DEF View, Owns
        <5> QED BY <1>0, <1>1, <3>2, <5>2 DEF Grows
      <4> QED BY <4>1, <4>2
    <3> QED BY <3>1, <3>2
  <2>2. ASSUME NEW r \in Rel, Owns(t, r)', tx'[t].own[r].paid
        PROVE  r \in tx[t].credited \/ rel[r].paid
    <3>1. CASE r # s
      BY <1>0, <2>0, <2>2, <3>1 DEF CreditsAreMarked
    <3>2. CASE r = s
      <4>1. row.paid
        BY <1>0, <2>2, <3>2
      <4>2. CASE tx[t].pc = "mark"
        BY <2>0, <3>2, <4>2 DEF CreditsAreMarked
      <4>3. CASE View(t, s).paid
        BY <1>1, <2>0, <3>2, <4>3 DEF CreditsAreMarked, View, Owns
      <4> QED BY <4>1, <4>2, <4>3
    <3> QED BY <3>1, <3>2
  <2> QED BY <2>0, <2>1, <2>2 DEF CreditsAreMarked, Wrote
<1>8. IsSound(t)'
  BY <1>3, <1>4, <1>5, <1>6, <1>7 DEF IsSound
<1> QED BY <1>8, StepOfOne DEF Wrote
-----------------------------------------------------------------------------
(* Which step does what. *)

Pc == Writing \cup {"idle", "commit", "list", "use", "lock", "judge", "read", "apply", "skip",
                    "credit"}

LEMMA WritesRow ==
    ASSUME Types, NEW t \in Tx, NEW row \in RowType, NEW l \in Pc, tx[t].todo # <<>>,
           Wanted(t) = {<<"row", Subject(t)>>}, Write(t, row, l), UNCHANGED Committed
    PROVE  Wrote(t, row, l)
<1> DEFINE s == Subject(t)
           o == With(tx[t].own, s, row)
           n == [tx[t] EXCEPT !.pc = l, !.locks = @ \cup Wanted(t), !.own = o]
<1>1. s \in Rel /\ tx[t] \in TxType
  BY SubjectIsListed DEF Types
<1>2. /\ o \in Owned /\ DOMAIN o = DOMAIN tx[t].own \cup {s} /\ o[s] = row
      /\ \A r \in DOMAIN tx[t].own : r # s => o[r] = tx[t].own[r]
  <2>1. tx[t].own \in Owned
    BY <1>1 DEF TxType
  <2>2. PICK a \in Owned : a = tx[t].own
    BY <2>1
  <2>3. PICK b \in Rel : b = s
    BY <1>1
  <2>4. /\ With(a, b, row) \in Owned /\ DOMAIN With(a, b, row) = DOMAIN a \cup {b}
        /\ With(a, b, row)[b] = row
        /\ \A r \in DOMAIN a : r # b => With(a, b, row)[r] = a[r]
    BY OwnedGrows
  <2> HIDE DEF s
  <2> QED BY <2>2, <2>3, <2>4
<1>3. tx' = [tx EXCEPT ![t] = n]
  BY DEF Write, With
<1>4. Wanted(t) \subseteq Lock
  BY <1>1 DEF Lock
<1> HIDE DEF s, o
<1>5. n \in TxType
  BY <1>1, <1>2, <1>4 DEF TxType, Pc
<1>6. /\ n.pc = l /\ n.locks = tx[t].locks \cup Wanted(t) /\ n.own = o /\ n.op = tx[t].op
      /\ n.todo = tx[t].todo /\ n.broken = tx[t].broken /\ n.credited = tx[t].credited
  BY <1>1 DEF TxType
<1> HIDE DEF n
<1>7. tx' \in [Tx -> TxType] /\ tx'[t] = n /\ \A u \in Tx \ {t} : tx'[u] = tx[u]
  BY <1>3, <1>5 DEF Types
<1>8. Types' /\ UNCHANGED <<rel, rewards>>
  BY <1>7 DEF Types, Committed
<1>9. \A r : <<"row", r>> \in Wanted(t) <=> r = s
  BY DEF s
<1> QED BY <1>2, <1>6, <1>7, <1>8, <1>9 DEF Wrote, Others, Owns, s

LEMMA GoesOn ==
    ASSUME Types, NEW t \in Tx, NEW l \in Pc, UNCHANGED Committed,
           NEW L \in SUBSET Lock, \A r \in Rel : <<"row", r>> \notin L,
           NEW snap \in RowType, NEW credited \in SUBSET Rel,
           tx' = [tx EXCEPT ![t] = [tx[t] EXCEPT !.pc = l, !.locks = @ \cup L, !.snap = snap,
                                             !.credited = credited]]
    PROVE  Moved(t, l, snap, credited)
<1> DEFINE n == [tx[t] EXCEPT !.pc = l, !.locks = @ \cup L, !.snap = snap, !.credited = credited]
<1>1. tx[t] \in TxType
  BY DEF Types
<1>2. n \in TxType
  BY <1>1 DEF TxType, Pc
<1>3. /\ n.pc = l /\ n.locks = tx[t].locks \cup L /\ n.own = tx[t].own /\ n.op = tx[t].op
      /\ n.todo = tx[t].todo /\ n.broken = tx[t].broken /\ n.credited = credited
      /\ n.snap = snap
  BY <1>1 DEF TxType
<1>4. tx' = [tx EXCEPT ![t] = n]
  OBVIOUS
<1> HIDE DEF n
<1>5. tx' \in [Tx -> TxType] /\ tx'[t] = n /\ \A u \in Tx \ {t} : tx'[u] = tx[u]
  BY <1>2, <1>4 DEF Types
<1>6. Types' /\ UNCHANGED <<rel, rewards>>
  BY <1>5 DEF Types, Committed
<1> QED BY <1>3, <1>5, <1>6 DEF Moved, Others, SameRows

\* A step that only goes to l.
LEMMA JustGoes ==
    ASSUME Types, NEW t \in Tx, NEW l \in Pc, UNCHANGED Committed, tx' = [tx EXCEPT ![t].pc = l]
    PROVE  Moved(t, l, tx[t].snap, tx[t].credited)
<1>1. tx[t] \in TxType
  BY DEF Types
<1>2. [tx[t] EXCEPT !.pc = l]
         = [tx[t] EXCEPT !.pc = l, !.locks = @ \cup {}, !.snap = tx[t].snap,
                         !.credited = tx[t].credited]
  BY <1>1 DEF TxType
<1>3. tx[t].snap \in RowType /\ tx[t].credited \in SUBSET Rel /\ {} \in SUBSET Lock
  BY <1>1 DEF TxType
<1>4. tx' = [tx EXCEPT ![t] = [tx[t] EXCEPT !.pc = l, !.locks = @ \cup {}, !.snap = tx[t].snap,
                                        !.credited = tx[t].credited]]
  BY <1>2
<1> QED BY <1>3, <1>4, GoesOn

\* A step that goes to l with a lock that is not one of a row.
LEMMA GoesWithLock ==
    ASSUME Types, NEW t \in Tx, NEW l \in Pc, UNCHANGED Committed, tx[t].todo # <<>>,
           tx[t].pc \in {"lock", "apply", "use", "credit"}, NEW credited \in SUBSET Rel,
           tx' = [tx EXCEPT ![t] = [tx[t] EXCEPT !.pc = l, !.locks = @ \cup Wanted(t),
                                             !.credited = credited]]
    PROVE  Moved(t, l, tx[t].snap, credited)
<1>1. tx[t] \in TxType
  BY DEF Types
<1>2. [tx[t] EXCEPT !.pc = l, !.locks = @ \cup Wanted(t), !.credited = credited]
         = [tx[t] EXCEPT !.pc = l, !.locks = @ \cup Wanted(t), !.snap = tx[t].snap,
                         !.credited = credited]
  BY <1>1 DEF TxType
<1>3. tx[t].snap \in RowType
  BY <1>1 DEF TxType
<1>4. tx' = [tx EXCEPT ![t] = [tx[t] EXCEPT !.pc = l, !.locks = @ \cup Wanted(t), !.snap = tx[t].snap,
                                        !.credited = credited]]
  BY <1>2
<1> QED BY <1>3, <1>4, GoesOn, OtherLock

LEMMA OnlyLocks ==
    ASSUME Types, NEW t \in Tx, NEW l \in Pc, UNCHANGED Committed, tx[t].todo # <<>>,
           tx[t].pc \in {"lock", "apply", "use", "credit"},
           tx' = [tx EXCEPT ![t] = [tx[t] EXCEPT !.pc = l, !.locks = @ \cup Wanted(t)]]
    PROVE  Moved(t, l, tx[t].snap, tx[t].credited)
<1>1. tx[t] \in TxType
  BY DEF Types
<1>2. [tx[t] EXCEPT !.pc = l, !.locks = @ \cup Wanted(t)]
         = [tx[t] EXCEPT !.pc = l, !.locks = @ \cup Wanted(t), !.credited = tx[t].credited]
  BY <1>1 DEF TxType
<1>3. tx[t].credited \in SUBSET Rel
  BY <1>1 DEF TxType
<1>4. tx' = [tx EXCEPT ![t] = [tx[t] EXCEPT !.pc = l, !.locks = @ \cup Wanted(t),
                                        !.credited = tx[t].credited]]
  BY <1>2
<1> QED BY <1>3, <1>4, GoesWithLock

\* The row of the subject is free when its lock is granted.
LEMMA RowIsFree ==
    ASSUME NEW t \in Tx, Granted(t), Wanted(t) = {<<"row", Subject(t)>>}
    PROVE  \A u \in Tx \ {t} : <<"row", Subject(t)>> \notin tx[u].locks
  BY DEF Granted, WaitsFor

\* Writing a row that somebody has read and may have changed since.
LEMMA WriteIsSound ==
    ASSUME IInv, NEW t \in Tx, NEW row \in RowType, NEW l \in Pc,
           Wanted(t) = {<<"row", Subject(t)>>}, Granted(t), Write(t, row, l), UNCHANGED Committed,
           tx[t].pc \notin {"idle", "commit", "list"},
           l \notin {"idle", "list", "insert", "release", "mark"}, tx[t].op # "register",
           RowIsSound(row), row.status # "none", Grows(View(t, Subject(t)), row),
           row.paid => View(t, Subject(t)).paid \/ tx[t].pc = "mark",
           tx[t].pc = "mark" => row.paid,
           ReadyFor(l, row)
    PROVE  IInv'
<1>1. Types /\ tx[t].todo # <<>>
  BY DEF IInv, IsSound, SubjectsAreListed
<1>2. Wrote(t, row, l)
  BY <1>1, WritesRow
<1>3. \A u \in Tx \ {t} : <<"row", Subject(t)>> \notin tx[u].locks
  BY RowIsFree
<1> QED BY <1>2, <1>3, WroteIsSound

\* Facts about a transaction that works on its subject.
LEMMA AtSubject ==
    ASSUME IInv, NEW t \in Tx, tx[t].pc \notin {"idle", "commit", "list"}
    PROVE  /\ Types /\ IsSound(t) /\ tx[t].todo # <<>>
           /\ tx[t] \in TxType
           /\ Subject(t) \in Rel
           /\ View(t, Subject(t)) \in RowType /\ RowIsSound(View(t, Subject(t)))
           /\ tx[t].pc \notin {"insert", "use"} =>
                 /\ tx[t].op # "register"
                 /\ View(t, Subject(t)).status # "none"
           /\ tx[t].snap \in RowType /\ tx[t].credited \in SUBSET Rel
<1>1. Types /\ IsSound(t) /\ tx[t].todo # <<>>
  BY DEF IInv, IsSound, SubjectsAreListed
<1>2. Subject(t) \in Rel
  BY <1>1, SubjectIsListed
<1>3. tx[t].pc \notin {"insert", "use"} => tx[t].op # "register"
  BY <1>1 DEF IsSound, SubjectsAreListed
<1>4. tx[t] \in TxType
  BY <1>1 DEF Types
<1>5. tx[t].snap \in RowType /\ tx[t].credited \in SUBSET Rel
  BY <1>4 DEF TxType
<1> QED BY <1>1, <1>2, <1>3, <1>4, <1>5, ViewIsSound, SubjectIsThere

LEMMA JustGoesIsSound ==
    ASSUME IInv, NEW t \in Tx, NEW l \in Pc, UNCHANGED Committed, tx' = [tx EXCEPT ![t].pc = l],
           tx[t].pc \notin {"idle", "commit", "list", "mark", "insert", "use"},
           l \notin {"idle", "list", "insert", "release", "mark"},
           ReadyFor(l, View(t, Subject(t)))
    PROVE  IInv'
<1>1. Moved(t, l, tx[t].snap, tx[t].credited)
  BY AtSubject, JustGoes
<1> QED BY <1>1, AtSubject, MovedIsSound

LEMMA LocksIsSound ==
    ASSUME IInv, NEW t \in Tx, NEW l \in Pc, UNCHANGED Committed, Granted(t),
           tx[t].pc \in {"lock", "apply", "use"},
           tx' = [tx EXCEPT ![t] = [tx[t] EXCEPT !.pc = l, !.locks = @ \cup Wanted(t)]],
           l \notin {"idle", "list", "insert", "release", "mark"},
           tx[t].op = "register" => l = "commit",
           ReadyFor(l, View(t, Subject(t)))
    PROVE  IInv'
<1>1. Moved(t, l, tx[t].snap, tx[t].credited)
  BY AtSubject, OnlyLocks
<1> QED BY <1>1, MovedIsSound

\* The next subject, or the end.
LEMMA DoneIsSound ==
    ASSUME IInv, NEW t \in Tx, tx[t].pc \in {"read", "skip"}, Done(t), UNCHANGED Committed
    PROVE  IInv'
<1> DEFINE l == CASE Len(tx[t].todo) > 1 /\ tx[t].op \in {"batch", "retry"} -> "read"
                  [] Len(tx[t].todo) > 1 /\ tx[t].op = "settle" -> "apply"
                  [] Len(tx[t].todo) = 1 /\ tx[t].op = "retry" -> "list"
                  [] Len(tx[t].todo) = 1 /\ tx[t].op # "retry" -> "commit"
           n == [tx[t] EXCEPT !.todo = Tail(@), !.pc = l]
<1>0. /\ Types /\ IsSound(t) /\ tx[t].todo # <<>> /\ tx[t] \in TxType /\ tx[t].op # "register"
      /\ tx[t].todo \in Seq(Rel)
  BY AtSubject DEF TxType
<1>1. /\ Len(tx[t].todo) > 1 => tx[t].op \in {"batch", "retry", "settle"}
      /\ Len(tx[t].todo) \in Nat \ {0}
  BY <1>0, SubjectIsListed DEF IsSound, SubjectsAreListed
<1>2. \/ Len(tx[t].todo) > 1 /\ tx[t].op # "settle" /\ l = "read"
      \/ Len(tx[t].todo) > 1 /\ tx[t].op = "settle" /\ l = "apply"
      \/ Len(tx[t].todo) = 1 /\ l \in {"list", "commit"}
  <2>1. CASE Len(tx[t].todo) > 1 /\ tx[t].op \in {"batch", "retry"}
    BY <2>1
  <2>2. CASE Len(tx[t].todo) > 1 /\ tx[t].op = "settle"
    BY <2>2
  <2>3. CASE Len(tx[t].todo) = 1
    BY <2>3
  <2> HIDE DEF l
  <2>4. \A k \in Nat \ {0} : k > 1 \/ k = 1
    OBVIOUS
  <2> QED BY <1>1, <2>1, <2>2, <2>3, <2>4
<1> HIDE DEF l
<1>3. /\ Tail(tx[t].todo) \in Seq(Rel)
      /\ Len(Tail(tx[t].todo)) = Len(tx[t].todo) - 1
      /\ \A k \in 1 .. Len(Tail(tx[t].todo)) : Tail(tx[t].todo)[k] = tx[t].todo[k + 1]
      /\ Len(tx[t].todo) > 1 => Tail(tx[t].todo) # <<>>
  BY <1>0, <1>1
<1>4. n \in TxType
  BY <1>0, <1>2, <1>3 DEF TxType
<1>5. /\ n.pc = l /\ n.todo = Tail(tx[t].todo) /\ n.locks = tx[t].locks /\ n.own = tx[t].own
      /\ n.op = tx[t].op /\ n.broken = tx[t].broken /\ n.credited = tx[t].credited
      /\ n.snap = tx[t].snap
  BY <1>0 DEF TxType
<1>6. tx' = [tx EXCEPT ![t] = n]
  BY DEF Done, l
<1> HIDE DEF n
<1>7. tx' \in [Tx -> TxType] /\ tx'[t] = n /\ \A u \in Tx \ {t} : tx'[u] = tx[u]
  BY <1>0, <1>4, <1>6 DEF Types
<1>8. Types' /\ UNCHANGED <<rel, rewards>>
  BY <1>0, <1>7 DEF Types, Committed
<1>9. /\ Subjects(t)' \subseteq Subjects(t)
      /\ Len(tx[t].todo) > 1 => Subject(t)' \in Subjects(t)
      /\ \A r : Owns(t, r)' <=> Owns(t, r)
      /\ \A r : View(t, r)' = View(t, r)
      /\ View(t, Subject(t))' = View(t, Subject(t)')
  <2>1. Subjects(t)' \subseteq Subjects(t)
    <3>1. ASSUME NEW k \in 1 .. Len(Tail(tx[t].todo))
          PROVE  Tail(tx[t].todo)[k] \in Subjects(t)
      <4>1. k + 1 \in 1 .. Len(tx[t].todo) /\ Tail(tx[t].todo)[k] = tx[t].todo[k + 1]
        BY <1>1, <1>3
      <4> QED BY <4>1 DEF Subjects
    <3> QED BY <1>5, <1>7, <3>1 DEF Subjects
  <2>2. Len(tx[t].todo) > 1 => Subject(t)' \in Subjects(t)
    <3>1. Subject(t)' = Head(Tail(tx[t].todo))
      BY <1>5, <1>7 DEF Subject
    <3>2. Len(tx[t].todo) > 1 => Head(Tail(tx[t].todo)) = tx[t].todo[2]
      BY <1>1, <1>3
    <3>3. Len(tx[t].todo) > 1 => 2 \in 1 .. Len(tx[t].todo)
      BY <1>1
    <3> QED BY <3>1, <3>2, <3>3 DEF Subjects
  <2> QED BY <2>1, <2>2, <1>5, <1>7, <1>8 DEF Owns, View
<1>10. SubjectsAreListed(t)'
  <2>1. tx'[t].pc = l /\ tx'[t].op = tx[t].op /\ tx'[t].todo = Tail(tx[t].todo)
    BY <1>5, <1>7
  <2>2. Len(Tail(tx[t].todo)) > 1 => Len(tx[t].todo) > 1
    BY <1>1, <1>3
  <2> QED BY <1>0, <1>1, <1>2, <1>3, <2>1, <2>2 DEF SubjectsAreListed
<1>11. RowsAreThere(t)'
  BY <1>0, <1>5, <1>7, <1>8, <1>9 DEF IsSound, RowsAreThere
<1>12. OwnRowsGrow(t)'
  BY <1>0, <1>2, <1>5, <1>7, <1>8, <1>9 DEF IsSound, OwnRowsGrow
<1>13. StillTrue(t, tx[t].pc)'
  BY <1>0, <1>2, <1>5, <1>7, <1>9 DEF IsSound, StillTrue
<1>14. CreditsAreMarked(t)'
  BY <1>0, <1>2, <1>5, <1>7, <1>8, <1>9 DEF IsSound, CreditsAreMarked
<1>15. IsSound(t)'
  BY <1>10, <1>11, <1>12, <1>13, <1>14 DEF IsSound
<1> QED BY <1>0, <1>5, <1>7, <1>8, <1>15, StepOfOne DEF Others
-----------------------------------------------------------------------------
(* The steps of a transaction. *)

\* Beginning: the relationships are there, or one is about to be made.
LEMMA OpenIsSound ==
    ASSUME IInv, NEW t \in Tx, NEW op \in {"register", "message", "bind", "batch", "retry"},
           NEW todo \in Seq(Rel), NEW msg \in SUBSET Message,
           NEW l \in {"insert", "lock", "bind", "read", "list"}, Open(t, op, todo, msg, l),
           Types', UNCHANGED <<rel, rewards>>,
           l # "list" => todo # <<>>,
           Len(todo) > 1 => op \in {"batch", "retry"},
           op = "register" <=> l = "insert",
           op = "register" =>
               /\ Len(todo) = 1 /\ rel[todo[1]].status = "none"
               /\ \A u \in Tx \ {t} : tx[u].op = "register" => todo[1] # Subject(u),
           op # "register" => \A k \in 1 .. Len(todo) : rel[todo[k]].status # "none"
    PROVE  IInv'
<1> DEFINE n == tx'[t]
<1>1. Others(t)
  BY DEF Open, Others, IInv, Types
<1>2. /\ n.op = op /\ n.todo = todo /\ n.pc = l /\ n.locks = {} /\ n.credited = {}
      /\ n.broken = FALSE /\ DOMAIN n.own = {}
  BY IdleHasNothing DEF Open, IInv, Types, TxType
<1> HIDE DEF n
<1>3. SubjectsAreListed(t)'
  BY <1>2 DEF SubjectsAreListed, Subject, n
<1>4. RowsAreThere(t)'
  <2> SUFFICES ASSUME NEW r \in Rel, r \in Subjects(t)' \/ <<"row", r>> \in n.locks
               PROVE  rel'[r].status # "none" \/ (n.op = "register" /\ r = Subject(t)')
    BY DEF RowsAreThere, n
  <2>1. PICK k \in 1 .. Len(todo) : r = todo[k]
    BY <1>2 DEF Subjects, n
  <2>2. CASE op = "register"
    <3>1. k = 1 /\ Subject(t)' = todo[1]
      BY <1>2, <2>2 DEF Subject, n
    <3> QED BY <1>2, <2>1, <2>2, <3>1
  <2>3. CASE op # "register"
    BY <2>1, <2>3
  <2> QED BY <2>2, <2>3
<1>5. OwnRowsGrow(t)' /\ CreditsAreMarked(t)' /\ StillTrue(t, tx[t].pc)'
  BY <1>2 DEF OwnRowsGrow, CreditsAreMarked, StillTrue, Owns, n
<1>6. IsSound(t)'
  BY <1>3, <1>4, <1>5 DEF IsSound
<1>7. op = "register" => Head(n.todo) = todo[1]
  BY <1>2
<1> QED BY <1>1, <1>2, <1>6, <1>7, StepOfOne DEF n

LEMMA OpenTypes ==
    ASSUME Types, NEW t \in Tx, NEW op \in {"register", "message", "bind", "batch", "retry"},
           NEW todo \in Seq(Rel), NEW msg \in SUBSET Message,
           NEW l \in {"insert", "lock", "bind", "read", "list"}, Open(t, op, todo, msg, l)
    PROVE  tx' \in [Tx -> TxType]
<1> DEFINE late == \E r \in Rel : rel[r].hold = "elapsed"
           n == [Idle EXCEPT !.op = op, !.todo = todo, !.msg = msg, !.pc = l, !.late = late]
<1>1. late \in BOOLEAN
  OBVIOUS
<1>2. tx' = [tx EXCEPT ![t] = n]
  BY DEF Open
<1> HIDE DEF late
<1>3. n \in TxType
  BY <1>1, IdleHasNothing DEF TxType, Writing
<1> HIDE DEF n
<1> QED BY <1>2, <1>3 DEF Types

LEMMA BeginIsSound ==
    ASSUME IInv, NEW t \in Tx, Begin(t)
    PROVE  IInv'
<1>0. Types
  BY DEF IInv
<1>1. ASSUME NEW r \in Rel, Register(t, r) PROVE IInv'
  <2>1. <<r>> \in Seq(Rel) /\ Len(<<r>>) = 1 /\ <<r>>[1] = r /\ <<r>> # <<>>
    OBVIOUS
  <2>2. Open(t, "register", <<r>>, {}, "insert") /\ rel[r].status = "none"
    BY <1>1 DEF Register
  <2>3. tx' \in [Tx -> TxType]
    BY <1>0, <2>1, <2>2, OpenTypes
  <2>4. Types' /\ UNCHANGED <<rel, rewards>>
    BY <1>0, <1>1, <2>3 DEF Register, Committed, Types
  <2>5. ASSUME NEW u \in Tx \ {t}, tx[u].op = "register" PROVE r # Subject(u)
    <3>0. Len(tx[u].todo) = 1 /\ tx[u].todo \in Seq(Rel)
      BY <1>0, <2>5 DEF IInv, IsSound, SubjectsAreListed, Types, TxType
    <3>1. tx[u].todo # <<>> /\ Len(tx[u].todo) = 1
      BY <3>0, SMTT(30)
    <3>2. r \notin {tx[u].todo[k] : k \in DOMAIN tx[u].todo}
      BY <1>1, <2>5 DEF Register, Range
    <3>3. Subject(u) = tx[u].todo[1] /\ tx[u].todo \in Seq(Rel)
      BY <1>0, <3>1, SubjectIsListed DEF Types, TxType
    <3>4. 1 \in DOMAIN tx[u].todo
      BY <3>1, <3>3
    <3> QED BY <3>2, <3>3, <3>4
  <2>6. PICK todo \in Seq(Rel) : todo = <<r>>
    BY <2>1
  <2>7. /\ Open(t, "register", todo, {}, "insert") /\ todo # <<>> /\ Len(todo) = 1 /\ ~(Len(todo) > 1)
        /\ rel[todo[1]].status = "none"
        /\ \A u \in Tx \ {t} : tx[u].op = "register" => todo[1] # Subject(u)
    BY <2>1, <2>2, <2>5, <2>6
  <2> QED BY <2>4, <2>7, OpenIsSound
<1>2. ASSUME NEW r \in Rel, MarkBound(t, r) PROVE IInv'
  <2>1. <<r>> \in Seq(Rel) /\ Len(<<r>>) = 1 /\ <<r>>[1] = r /\ <<r>> # <<>>
    OBVIOUS
  <2>2. Open(t, "bind", <<r>>, {}, "bind") /\ rel[r].status # "none"
    BY <1>2 DEF MarkBound
  <2>3. tx' \in [Tx -> TxType]
    BY <1>0, <2>1, <2>2, OpenTypes
  <2>4. Types' /\ UNCHANGED <<rel, rewards>>
    BY <1>0, <1>2, <2>3 DEF MarkBound, Committed, Types
  <2>6. PICK todo \in Seq(Rel) : todo = <<r>>
    BY <2>1
  <2>7. /\ Open(t, "bind", todo, {}, "bind") /\ todo # <<>> /\ Len(todo) = 1 /\ ~(Len(todo) > 1)
        /\ \A k \in 1 .. Len(todo) : rel[todo[k]].status # "none"
    BY <2>1, <2>2, <2>6
  <2>8. {} \in SUBSET Message
    BY ReferralAssumption
  <2> QED BY <2>4, <2>7, <2>8, OpenIsSound
<1>3. ASSUME NEW m \in Message, ReceiveMessage(t, m) PROVE IInv'
  <2> DEFINE r == RelOf[m]
  <2>0. r \in Rel
    BY ReferralAssumption
  <2>2. Open(t, "message", <<r>>, {m}, "lock") /\ rel[r].status # "none"
    BY <1>3 DEF ReceiveMessage
  <2>4. UNCHANGED Committed
    BY <1>3 DEF ReceiveMessage
  <2> HIDE DEF r
  <2>1. <<r>> \in Seq(Rel) /\ Len(<<r>>) = 1 /\ <<r>>[1] = r /\ <<r>> # <<>>
    BY <2>0
  <2>3. tx' \in [Tx -> TxType]
    BY <1>0, <2>1, <2>2, OpenTypes
  <2>5. Types' /\ UNCHANGED <<rel, rewards>>
    BY <1>0, <2>3, <2>4 DEF Committed, Types
  <2>6. PICK todo \in Seq(Rel) : todo = <<r>>
    BY <2>1
  <2>7. /\ Open(t, "message", todo, {m}, "lock") /\ todo # <<>> /\ Len(todo) = 1 /\ ~(Len(todo) > 1)
        /\ \A k \in 1 .. Len(todo) : rel[todo[k]].status # "none"
    BY <2>1, <2>2, <2>6
  <2>8. {m} \in SUBSET Message
    BY ReferralAssumption
  <2> QED BY <2>5, <2>7, <2>8, OpenIsSound
<1>4. Pending \in SUBSET Rel /\ \A r \in Pending : rel[r].status # "none"
  BY DEF Pending
<1>5. /\ SetToSeq(Pending) \in Seq(Rel) /\ (Pending # {} => SetToSeq(Pending) # <<>>)
      /\ \A k \in 1 .. Len(SetToSeq(Pending)) : rel[SetToSeq(Pending)[k]].status # "none"
  BY <1>4, ListOfSet
<1>6. ASSUME ReleaseDue(t) PROVE IInv'
  <2>1. Open(t, "batch", SetToSeq(Pending), {}, "read") /\ Pending # {}
    BY <1>6 DEF ReleaseDue
  <2>2. tx' \in [Tx -> TxType]
    BY <1>0, <1>5, <2>1, OpenTypes
  <2>3. batches' \in 0 .. Batches
    BY <1>0, <1>6, ReferralAssumption DEF ReleaseDue, Types
  <2>4. Types' /\ UNCHANGED <<rel, rewards>>
    BY <1>0, <1>6, <2>2, <2>3 DEF ReleaseDue, Types
  <2> QED BY <1>5, <2>1, <2>4, OpenIsSound
<1>7. ASSUME RetryQualified(t) PROVE IInv'
  <2>1. PICK l \in {"read", "list"} : Open(t, "retry", SetToSeq(Pending), {}, l)
                                     /\ (l # "list" => Pending # {})
    BY <1>7 DEF RetryQualified
  <2>2. tx' \in [Tx -> TxType]
    BY <1>0, <1>5, <2>1, OpenTypes
  <2>3. Types' /\ UNCHANGED <<rel, rewards>>
    BY <1>0, <1>7, <2>2 DEF RetryQualified, Types
  <2> QED BY <1>5, <2>1, <2>3, OpenIsSound
<1> QED BY <1>1, <1>2, <1>3, <1>6, <1>7 DEF Begin

LEMMA InsertIsSound ==
    ASSUME IInv, NEW t \in Tx, InsertRelationship(t)
    PROVE  IInv'
<1> DEFINE s == Subject(t)
<1>0. /\ tx[t].pc = "insert" /\ UNCHANGED Committed
      /\ Types /\ IsSound(t) /\ tx[t].todo # <<>> /\ s \in Rel
  BY AtSubject DEF InsertRelationship
<1>1. /\ tx[t].op = "register" /\ rel[s].status = "none" /\ ~Owns(t, s)
  BY <1>0 DEF IsSound, SubjectsAreListed, OwnRowsGrow
<1>2. View(t, s) = rel[s]
  BY <1>1 DEF View, Owns
<1>3. PICK soft \in BOOLEAN : Write(t, [Row("registered") EXCEPT !.soft = soft], "use")
  <2> DEFINE seen == Cardinality({r \in Rel : rel[r].status # "none"}) + 1
             many == seen > SoftLimit
  <2>1. Write(t, [Row("registered") EXCEPT !.soft = many], "use")
    BY DEF InsertRelationship
  <2>2. many \in BOOLEAN
    OBVIOUS
  <2> HIDE DEF many
  <2> QED BY <2>1, <2>2
<1> DEFINE row == [Row("registered") EXCEPT !.soft = soft]
<1>4. /\ row \in RowType /\ RowIsSound(row) /\ row.status # "none" /\ ~row.paid
  <2>1. Cardinality(Message) \in Nat /\ Cardinality({}) = 0
    BY FS_CardinalityType, FS_EmptySet, ReferralAssumption
  <2>2. /\ row.status = "registered" /\ row.review = "pending" /\ ~row.paid /\ row.count = 0
        /\ row.cands = {}
    BY DEF Row
  <2>3. row \in RowType
    BY NewRow DEF RowType
  <2>4. RowIsSound(row)
    BY <2>1, <2>2, ReferralAssumption DEF RowIsSound
  <2> QED BY <2>2, <2>3, <2>4
<1>5. ASSUME NEW u \in Tx \ {t} PROVE <<"row", s>> \notin tx[u].locks
  <2>1. RowsAreThere(u) /\ Apart(t, u)
    BY DEF IInv, IsSound
  <2> QED BY <1>0, <1>1, <2>1 DEF RowsAreThere, Apart
<1>6. Wanted(t) = {<<"row", s>>}
  BY <1>0, LockOfRow
<1>7. Write(t, row, "use")
  BY <1>3
<1> HIDE DEF row
<1>8. Wrote(t, row, "use")
  BY <1>0, <1>4, <1>6, <1>7, WritesRow DEF Pc
<1>9. Grows(View(t, s), row) /\ ReadyFor("use", row)
  BY <1>1, <1>2 DEF Grows, ReadyFor
<1> QED BY <1>0, <1>1, <1>4, <1>5, <1>8, <1>9, WroteIsSound

LEMMA BindMovesOn ==
    ASSUME IInv, NEW t \in Tx, Bind(t)
    PROVE  IInv'
<1> DEFINE v == View(t, Subject(t))
<1>0. /\ tx[t].pc = "bind" /\ UNCHANGED Committed
  BY DEF Bind
<1>1. v \in RowType /\ RowIsSound(v) /\ tx[t].op # "register" /\ v.status # "none"
  BY <1>0, AtSubject
<1>2. PICK l \in {"commit", "count"} :
         \/ tx' = [tx EXCEPT ![t].pc = l]
         \/ v.status = "registered" /\ Granted(t) /\ Write(t, [v EXCEPT !.status = "bound"], l)
  BY DEF Bind
<1> HIDE DEF v
<1>3. l \in Pc /\ \A row : ReadyFor(l, row)
  BY DEF Pc, Writing, ReadyFor
<1>4. CASE tx' = [tx EXCEPT ![t].pc = l]
  BY <1>0, <1>3, <1>4, JustGoesIsSound
<1>5. CASE v.status = "registered" /\ Granted(t) /\ Write(t, [v EXCEPT !.status = "bound"], l)
  <2> DEFINE row == [v EXCEPT !.status = "bound"]
  <2>1. row \in RowType /\ RowIsSound(row) /\ row.status # "none" /\ ~row.paid /\ Grows(v, row)
    BY <1>1, <1>5 DEF RowType, RowIsSound, Grows
  <2>2. Write(t, row, l) /\ Granted(t)
    BY <1>5
  <2> HIDE DEF row
  <2> QED BY <1>0, <1>1, <1>3, <2>1, <2>2, LockOfRow, WriteIsSound DEF v
<1> QED BY <1>2, <1>4, <1>5

\* One message more.
LEMMA CountedRow ==
    ASSUME NEW row \in RowType, RowIsSound(row), ~row.paid, row.status # "none",
           NEW msg \in SUBSET Message
    PROVE  LET n == Counting(row, msg)
           IN n \in RowType /\ RowIsSound(n) /\ n.status # "none" /\ ~n.paid /\ Grows(row, n)
<1> DEFINE all == row.cands \cup msg
           n == Counting(row, msg)
<1>1. all \in SUBSET Message /\ row.cands \subseteq all
  BY DEF RowType
<1>2. /\ Cardinality(Message) \in Nat
      /\ Cardinality(all) \in Nat /\ Cardinality(all) <= Cardinality(Message)
      /\ Cardinality(row.cands) \in Nat /\ Cardinality(row.cands) <= Cardinality(all)
  BY <1>1, FS_Subset, FS_CardinalityType, ReferralAssumption
<1>3. PICK c \in Nat : c = Cardinality(all)
  BY <1>2
<1>4. PICK status \in {"qualified", "bound"} :
         /\ n = [row EXCEPT !.cands = all, !.count = c, !.status = status]
         /\ status = "qualified" => c >= Needed
  BY <1>1, <1>2, <1>3 DEF Counting, RowType
<1> HIDE DEF n
<1>5. /\ n.cands = all /\ n.count = c /\ n.status = status /\ n.paid = row.paid
      /\ n.soft = row.soft /\ n.review = row.review /\ n.hold = row.hold
  BY <1>4 DEF RowType
<1>6. n \in RowType
  <2>1. c \in 0 .. Cardinality(Message)
    BY <1>2, <1>3
  <2> HIDE DEF all
  <2> QED BY <1>1, <1>4, <2>1 DEF RowType
<1>7. RowIsSound(n)
  BY <1>3, <1>4, <1>5 DEF RowIsSound
<1>8. row.count >= Needed => c >= Needed
  BY <1>2, <1>3, ReferralAssumption DEF RowIsSound
<1>9. Grows(row, n)
  BY <1>4, <1>5, <1>8 DEF Grows
<1> QED BY <1>4, <1>5, <1>6, <1>7, <1>9 DEF n

LEMMA CountIsSound ==
    ASSUME IInv, NEW t \in Tx, CountMessage(t)
    PROVE  IInv'
<1> DEFINE v == View(t, Subject(t))
<1>0. tx[t].pc = "count" /\ UNCHANGED Committed
  BY DEF CountMessage
<1>1. /\ v \in RowType /\ RowIsSound(v) /\ tx[t].op # "register" /\ v.status # "none"
      /\ tx[t].msg \in SUBSET Message
  BY <1>0, AtSubject DEF TxType
<1>2. \/ tx' = [tx EXCEPT ![t].pc = "commit"]
      \/ tx' = [tx EXCEPT ![t].pc = "judge"]
      \/ ~v.paid /\ Granted(t) /\ Write(t, Counting(v, tx[t].msg), "judge")
  BY DEF CountMessage
<1>3. \A l \in {"commit", "judge"} : l \in Pc /\ \A row : ReadyFor(l, row)
  BY DEF Pc, Writing, ReadyFor
<1> HIDE DEF v
<1>4. CASE tx' = [tx EXCEPT ![t].pc = "commit"]
  BY <1>0, <1>3, <1>4, JustGoesIsSound
<1>5. CASE tx' = [tx EXCEPT ![t].pc = "judge"]
  BY <1>0, <1>3, <1>5, JustGoesIsSound
<1>6. CASE ~v.paid /\ Granted(t) /\ Write(t, Counting(v, tx[t].msg), "judge")
  <2> DEFINE row == Counting(v, tx[t].msg)
  <2>1. row \in RowType /\ RowIsSound(row) /\ row.status # "none" /\ ~row.paid /\ Grows(v, row)
    <3>1. PICK a \in RowType : a = v
      BY <1>1
    <3>2. PICK m \in SUBSET Message : m = tx[t].msg
      BY <1>1
    <3> QED BY <1>1, <1>6, <3>1, <3>2, CountedRow
  <2>2. Write(t, row, "judge") /\ Granted(t)
    BY <1>6
  <2> HIDE DEF row
  <2> QED BY <1>0, <1>1, <1>3, <2>1, <2>2, LockOfRow, WriteIsSound DEF v
<1> QED BY <1>2, <1>4, <1>5, <1>6

LEMMA JudgeIsSound ==
    ASSUME IInv, NEW t \in Tx, Judge(t)
    PROVE  IInv'
<1> DEFINE v == View(t, Subject(t))
           l == CASE v.count < Needed -> "commit"
                  [] v.count >= Needed /\ v.soft /\ v.review = "passed" -> "apply"
                  [] v.count >= Needed /\ v.soft /\ v.review = "pending" -> "hold"
                  [] v.count >= Needed /\ ~v.soft -> "pass"
<1>0. tx[t].pc = "judge" /\ UNCHANGED Committed /\ tx' = [tx EXCEPT ![t].pc = l]
  BY DEF Judge
<1>1. v \in RowType /\ RowIsSound(v)
  BY <1>0, AtSubject
<1> HIDE DEF v
<1>2. v.count \in Nat /\ v.review \in {"passed", "pending"} /\ v.soft \in BOOLEAN
  <2>1. Cardinality(Message) \in Nat
    BY FS_CardinalityType, ReferralAssumption
  <2> QED BY <1>1, <2>1 DEF RowType
<1>3. l \in {"commit", "apply", "hold", "pass"} /\ ReadyFor(l, v)
  <2>1. CASE v.count < Needed
    <3>1. l = "commit"
      BY <1>2, <2>1, ReferralAssumption
    <3> QED BY <3>1 DEF ReadyFor
  <2>2. CASE v.count >= Needed /\ v.soft /\ v.review = "passed"
    <3>1. l = "apply"
      BY <1>2, <2>2, ReferralAssumption
    <3> QED BY <1>1, <2>2, <3>1 DEF ReadyFor, Earned, RowIsSound
  <2>3. CASE v.count >= Needed /\ v.soft /\ v.review = "pending"
    <3>1. l = "hold"
      BY <1>2, <2>3, ReferralAssumption
    <3> QED BY <2>3, <3>1 DEF ReadyFor
  <2>4. CASE v.count >= Needed /\ ~v.soft
    <3>1. l = "pass"
      BY <1>2, <2>4, ReferralAssumption
    <3> QED BY <2>4, <3>1 DEF ReadyFor
  <2>5. v.count < Needed \/ v.count >= Needed
    BY <1>2, ReferralAssumption
  <2> QED BY <1>2, <2>1, <2>2, <2>3, <2>4, <2>5
<1> HIDE DEF l
<1>4. l \in Pc
  BY <1>3 DEF Pc, Writing
<1> QED BY <1>0, <1>3, <1>4, JustGoesIsSound DEF v

\* The four steps that set the review, block or mark: the row as it is when it is paid,
\* with a status and a review otherwise.
LEMMA HoldIsSound ==
    ASSUME IInv, NEW t \in Tx, Hold(t)
    PROVE  IInv'
<1> DEFINE v == View(t, Subject(t))
           h == IF v.hold = "none" THEN "running" ELSE v.hold
           row == IF v.paid THEN v ELSE [v EXCEPT !.status = "qualified", !.hold = h]
<1>0. /\ tx[t].pc = "hold" /\ UNCHANGED Committed /\ Granted(t)
      /\ v \in RowType /\ RowIsSound(v) /\ tx[t].op # "register" /\ v.status # "none"
      /\ v.count >= Needed
  BY AtSubject DEF Hold, IsSound, StillTrue
<1>1. Write(t, row, "read")
  BY <1>0 DEF Hold, RowType
<1> HIDE DEF v
<1>2. h \in {"none", "running", "elapsed"} /\ (v.hold = "elapsed" => h = "elapsed")
  BY <1>0 DEF RowType
<1> HIDE DEF h
<1>3. row \in RowType /\ RowIsSound(row) /\ row.status # "none" /\ Grows(v, row)
      /\ (row.paid => v.paid)
  <2>1. CASE v.paid
    BY <1>0, <2>1 DEF Grows
  <2>2. CASE ~v.paid
    BY <1>0, <1>2, <2>2 DEF RowType, RowIsSound, Grows
  <2> QED BY <2>1, <2>2
<1> HIDE DEF row
<1>4. "read" \in Pc /\ ReadyFor("read", row)
  BY DEF Pc, ReadyFor
<1> QED BY <1>0, <1>1, <1>3, <1>4, LockOfRow, WriteIsSound DEF v

LEMMA PassedRow ==
    ASSUME NEW v \in RowType, RowIsSound(v), v.status # "none", Earned(v)
    PROVE  LET row == IF v.paid THEN v
                      ELSE [v EXCEPT !.status = "qualified", !.review = "passed"]
           IN row \in RowType /\ RowIsSound(row) /\ row.status # "none" /\ Grows(v, row)
              /\ (row.paid => v.paid) /\ Earned(row)
<1>1. CASE v.paid
  BY <1>1 DEF Grows
<1>2. CASE ~v.paid
  <2> DEFINE row == [v EXCEPT !.status = "qualified", !.review = "passed"]
  <2>1. row \in RowType
    BY DEF RowType
  <2>2. /\ row.status = "qualified" /\ row.review = "passed" /\ row.paid = v.paid
        /\ row.soft = v.soft /\ row.hold = v.hold /\ row.count = v.count /\ row.cands = v.cands
    BY DEF RowType
  <2> HIDE DEF row
  <2>3. RowIsSound(row) /\ Grows(v, row) /\ Earned(row)
    BY <1>2, <2>2 DEF RowIsSound, Grows, Earned
  <2> QED BY <1>2, <2>1, <2>2, <2>3 DEF row
<1> QED BY <1>1, <1>2

LEMMA PassIsSound ==
    ASSUME IInv, NEW t \in Tx, Pass(t)
    PROVE  IInv'
<1> DEFINE v == View(t, Subject(t))
           row == IF v.paid THEN v ELSE [v EXCEPT !.status = "qualified", !.review = "passed"]
<1>0. /\ tx[t].pc = "pass" /\ UNCHANGED Committed /\ Granted(t) /\ Write(t, row, "apply")
      /\ v \in RowType /\ RowIsSound(v) /\ tx[t].op # "register" /\ v.status # "none"
      /\ Earned(v)
  BY AtSubject DEF Pass, IsSound, StillTrue, Earned
<1>1. PICK w \in RowType : w = v
  BY <1>0
<1>2. row \in RowType /\ RowIsSound(row) /\ row.status # "none" /\ Grows(v, row)
      /\ (row.paid => v.paid) /\ Earned(row)
  BY <1>0, <1>1, PassedRow
<1> HIDE DEF row
<1>3. "apply" \in Pc /\ ReadyFor("apply", row)
  BY <1>2 DEF Pc, ReadyFor
<1> QED BY <1>0, <1>2, <1>3, LockOfRow, WriteIsSound

LEMMA BlockIsSound ==
    ASSUME IInv, NEW t \in Tx, BlockReward(t)
    PROVE  IInv'
<1> DEFINE v == View(t, Subject(t))
           row == IF v.paid THEN v ELSE [v EXCEPT !.status = "qualified", !.review = "passed"]
<1>0. /\ tx[t].pc = "block" /\ UNCHANGED Committed /\ Granted(t) /\ Write(t, row, "skip")
      /\ v \in RowType /\ RowIsSound(v) /\ tx[t].op # "register" /\ v.status # "none"
      /\ Earned(v)
  BY AtSubject DEF BlockReward, IsSound, StillTrue
<1>1. PICK w \in RowType : w = v
  BY <1>0
<1>2. row \in RowType /\ RowIsSound(row) /\ row.status # "none" /\ Grows(v, row)
      /\ (row.paid => v.paid) /\ Earned(row)
  BY <1>0, <1>1, PassedRow
<1> HIDE DEF row
<1>3. "skip" \in Pc /\ ReadyFor("skip", row)
  BY <1>2 DEF Pc, ReadyFor
<1> QED BY <1>0, <1>2, <1>3, LockOfRow, WriteIsSound

LEMMA MarkIsSound ==
    ASSUME IInv, NEW t \in Tx, MarkRewarded(t)
    PROVE  IInv'
<1> DEFINE v == View(t, Subject(t))
           row == [v EXCEPT !.status = "rewarded", !.review = "passed", !.paid = TRUE]
<1>0. /\ tx[t].pc = "mark" /\ UNCHANGED Committed /\ Granted(t) /\ Write(t, row, "skip")
      /\ v \in RowType /\ RowIsSound(v) /\ tx[t].op # "register" /\ v.status # "none"
      /\ Earned(v)
  BY AtSubject DEF MarkRewarded, IsSound, StillTrue
<1> HIDE DEF v
<1>1. row \in RowType
  BY <1>0 DEF RowType
<1>2. /\ row.status = "rewarded" /\ row.review = "passed" /\ row.paid = TRUE
      /\ row.soft = v.soft /\ row.hold = v.hold /\ row.count = v.count /\ row.cands = v.cands
  BY <1>0 DEF RowType
<1> HIDE DEF row
<1>3. RowIsSound(row) /\ Grows(v, row)
  BY <1>0, <1>2 DEF RowIsSound, Grows, Earned
<1>4. "skip" \in Pc /\ ReadyFor("skip", row)
  BY DEF Pc, ReadyFor
<1> QED BY <1>0, <1>1, <1>2, <1>3, <1>4, LockOfRow, WriteIsSound DEF v

LEMMA ReadIsSound ==
    ASSUME IInv, NEW t \in Tx, ReadDelayed(t)
    PROVE  IInv'
<1> DEFINE v == View(t, Subject(t))
<1>0. /\ tx[t].pc = "read" /\ UNCHANGED Committed
      /\ v \in RowType /\ RowIsSound(v) /\ tx[t].op # "register" /\ Types
      /\ tx[t] \in TxType
  BY AtSubject DEF ReadDelayed
<1>1. \/ Due(t, v) /\ tx' = [tx EXCEPT ![t] = [tx[t] EXCEPT !.pc = "release", !.snap = v]]
      \/ Done(t)
  BY DEF ReadDelayed
<1>2. CASE Done(t)
  BY <1>0, <1>2, DoneIsSound
<1>3. CASE Due(t, v) /\ tx' = [tx EXCEPT ![t] = [tx[t] EXCEPT !.pc = "release", !.snap = v]]
  <2> HIDE DEF v
  <2>1. v.hold = "elapsed" /\ v.count >= Needed
    BY <1>0, <1>3 DEF Due, RowIsSound
  <2>2. [tx[t] EXCEPT !.pc = "release", !.snap = v]
           = [tx[t] EXCEPT !.pc = "release", !.locks = @ \cup {}, !.snap = v,
                           !.credited = tx[t].credited]
    BY <1>0 DEF TxType
  <2>3. tx' = [tx EXCEPT ![t] = [tx[t] EXCEPT !.pc = "release", !.locks = @ \cup {}, !.snap = v,
                                          !.credited = tx[t].credited]]
    BY <1>3, <2>2
  <2>4. /\ {} \in SUBSET Lock /\ tx[t].credited \in SUBSET Rel
        /\ "release" \in Pc
    BY <1>0 DEF TxType, Pc, Writing
  <2>5. Moved(t, "release", v, tx[t].credited)
    BY <1>0, <2>3, <2>4, GoesOn
  <2>6. ReadyFor("release", v)
    BY <2>1 DEF ReadyFor
  <2> QED BY <1>0, <2>1, <2>5, <2>6, MovedIsSound DEF v
<1> QED BY <1>1, <1>2, <1>3

\* What has been read before the lock is written back.
LEMMA ReleaseIsSound ==
    ASSUME IInv, NEW t \in Tx, Release(t)
    PROVE  IInv'
<1> DEFINE v == View(t, Subject(t))
           snap == tx[t].snap
           row == [v EXCEPT !.review = "passed", !.cands = snap.cands, !.hold = snap.hold]
<1>0. /\ tx[t].pc = "release" /\ UNCHANGED Committed /\ Granted(t)
      /\ v \in RowType /\ RowIsSound(v) /\ tx[t].op # "register" /\ v.status # "none"
      /\ v.count >= Needed
      /\ snap \in RowType /\ RowIsSound(snap) /\ snap.count >= Needed /\ snap.hold = "elapsed"
  BY AtSubject DEF Release, IsSound, StillTrue
<1>1. \/ ~v.paid /\ Write(t, row, "apply")
      \/ (v.paid \/ v.review # "pending") /\ tx' = [tx EXCEPT ![t].pc = "apply"]
  BY DEF Release
<1>2. "apply" \in Pc
  BY DEF Pc
<1>3. CASE ~v.paid /\ Write(t, row, "apply")
  <2> HIDE DEF v, snap
  <2>1. row \in RowType
    BY <1>0 DEF RowType
  <2>2. /\ row.status = v.status /\ row.review = "passed" /\ row.paid = v.paid
        /\ row.soft = v.soft /\ row.hold = "elapsed" /\ row.count = v.count
        /\ row.cands = snap.cands
    BY <1>0 DEF RowType
  <2> HIDE DEF row
  <2>3. RowIsSound(row) /\ Grows(v, row) /\ ReadyFor("apply", row)
    BY <1>0, <1>3, <2>2 DEF RowIsSound, Grows, Earned, ReadyFor
  <2> QED BY <1>0, <1>2, <1>3, <2>1, <2>2, <2>3, LockOfRow, WriteIsSound DEF v
<1>4. CASE (v.paid \/ v.review # "pending") /\ tx' = [tx EXCEPT ![t].pc = "apply"]
  <2>1. v.paid \/ v.review = "passed"
    BY <1>0, <1>4 DEF RowType
  <2>2. ReadyFor("apply", v)
    BY <1>0, <2>1 DEF ReadyFor, Earned, RowIsSound
  <2> QED BY <1>0, <1>2, <1>4, <2>2, JustGoesIsSound
<1> QED BY <1>1, <1>3, <1>4

LEMMA ApplyIsSound ==
    ASSUME IInv, NEW t \in Tx, Apply(t)
    PROVE  IInv'
<1>0. /\ tx[t].pc = "apply" /\ UNCHANGED Committed /\ Granted(t)
      /\ tx[t].op # "register" /\ Earned(View(t, Subject(t))) /\ tx[t] \in TxType
  BY AtSubject DEF Apply, IsSound, StillTrue
<1>1. PICK l \in {"skip", "credit", "block"} :
         tx' = [tx EXCEPT ![t] = [[tx[t] EXCEPT !.locks = tx[t].locks \cup Wanted(t)]
                                      EXCEPT !.pc = l]]
  BY DEF Apply
<1>2. [[tx[t] EXCEPT !.locks = tx[t].locks \cup Wanted(t)] EXCEPT !.pc = l]
         = [tx[t] EXCEPT !.pc = l, !.locks = @ \cup Wanted(t)]
  BY <1>0 DEF TxType
<1>3. tx' = [tx EXCEPT ![t] = [tx[t] EXCEPT !.pc = l, !.locks = @ \cup Wanted(t)]]
  BY <1>1, <1>2
<1>4. l \in Pc /\ ReadyFor(l, View(t, Subject(t)))
  BY <1>0 DEF Pc, Writing, ReadyFor
<1> QED BY <1>0, <1>3, <1>4, LocksIsSound

LEMMA CreditIsSound ==
    ASSUME IInv, NEW t \in Tx, Credit(t)
    PROVE  IInv'
<1> DEFINE credited == tx[t].credited \cup {Subject(t)}
<1>0. /\ tx[t].pc = "credit" /\ UNCHANGED Committed
      /\ Types /\ tx[t].todo # <<>> /\ Subject(t) \in Rel /\ tx[t].credited \in SUBSET Rel
      /\ tx[t].op # "register" /\ Earned(View(t, Subject(t))) /\ tx[t] \in TxType
  BY AtSubject DEF Credit, IsSound, StillTrue
<1>1. tx' = [tx EXCEPT ![t] = [tx[t] EXCEPT !.pc = "mark", !.locks = @ \cup Wanted(t),
                                        !.credited = credited]]
  <2>1. [tx[t] EXCEPT !.pc = "mark", !.locks = @ \cup Wanted(t),
                      !.credited = @ \cup {Subject(t)}]
           = [tx[t] EXCEPT !.pc = "mark", !.locks = @ \cup Wanted(t), !.credited = credited]
    BY <1>0 DEF TxType
  <2> QED BY <2>1 DEF Credit
<1>2. credited \in SUBSET Rel /\ "mark" \in Pc
  BY <1>0 DEF Pc, Writing
<1>3. ReadyFor("mark", View(t, Subject(t)))
  BY <1>0 DEF ReadyFor
<1>4. Moved(t, "mark", tx[t].snap, credited)
  BY <1>0, <1>1, <1>2, GoesWithLock
<1> QED BY <1>0, <1>3, <1>4, MovedIsSound

LEMMA ListIsSound ==
    ASSUME IInv, NEW t \in Tx, ListQualified(t)
    PROVE  IInv'
<1> DEFINE due == {r \in Rel : /\ View(t, r).status = "qualified"
                               /\ View(t, r).review = "passed"
                               /\ ~View(t, r).paid}
           list == SetToSeq(due)
<1>0. /\ tx[t].pc = "list" /\ UNCHANGED Committed /\ Types /\ IsSound(t) /\ tx[t] \in TxType
      /\ tx[t].op # "register" /\ ~tx[t].broken
  BY DEF ListQualified, IInv, Types, IsSound, SubjectsAreListed, CreditsAreMarked
<1>1. due \in SUBSET Rel /\ \A r \in due : View(t, r).status = "qualified"
                                           /\ View(t, r).review = "passed"
  OBVIOUS
<1>2. PICK l \in {"commit", "apply"} :
         /\ tx' = [tx EXCEPT ![t] = [tx[t] EXCEPT !.op = "settle", !.todo = list, !.pc = l]]
         /\ l # "commit" => due # {}
  BY DEF ListQualified
<1> HIDE DEF due
<1>3. /\ list \in Seq(Rel) /\ (due # {} => list # <<>>)
      /\ \A k \in 1 .. Len(list) : list[k] \in due
  <2>1. PICK S \in SUBSET Rel : S = due
    BY <1>1
  <2> QED BY <2>1, ListOfSet
<1> HIDE DEF list
<1> DEFINE n == [tx[t] EXCEPT !.op = "settle", !.todo = list, !.pc = l]
<1>4. n \in TxType
  BY <1>0, <1>3 DEF TxType
<1>5. /\ n.op = "settle" /\ n.todo = list /\ n.pc = l /\ n.locks = tx[t].locks
      /\ n.own = tx[t].own /\ n.credited = tx[t].credited /\ n.broken = tx[t].broken
  BY <1>0 DEF TxType
<1>6. tx' = [tx EXCEPT ![t] = n]
  BY <1>2
<1> HIDE DEF n
<1>7. tx' \in [Tx -> TxType] /\ tx'[t] = n /\ \A u \in Tx \ {t} : tx'[u] = tx[u]
  BY <1>0, <1>4, <1>6 DEF Types
<1>8. Types' /\ UNCHANGED <<rel, rewards>>
  BY <1>0, <1>7 DEF Types, Committed
<1>9. /\ Subjects(t)' \subseteq due
      /\ l = "apply" => Subject(t)' \in Subjects(t)'
      /\ \A r : Owns(t, r)' <=> Owns(t, r)
      /\ \A r : View(t, r)' = View(t, r)
      /\ View(t, Subject(t))' = View(t, Subject(t)')
  <2>1. Subjects(t)' \subseteq due
    BY <1>3, <1>5, <1>7 DEF Subjects
  <2>2. l = "apply" => Subject(t)' \in Subjects(t)'
    <3>1. l = "apply" => tx'[t].todo # <<>>
      BY <1>2, <1>3, <1>5, <1>7
    <3>2. tx'[t].todo \in Seq(Rel)
      BY <1>3, <1>5, <1>7
    <3> QED BY <3>1, <3>2 DEF Subject, Subjects
  <2> QED BY <2>1, <2>2, <1>5, <1>7, <1>8 DEF Owns, View
<1>10. \A r \in due : Earned(View(t, r)) /\ rel[r].status # "none"
  <2> SUFFICES ASSUME NEW r \in due PROVE Earned(View(t, r)) /\ rel[r].status # "none"
    OBVIOUS
  <2>1. r \in Rel /\ View(t, r).status = "qualified" /\ View(t, r).review = "passed"
    BY <1>1
  <2>2. Earned(View(t, r))
    BY <2>1, ViewIsSound DEF RowIsSound, Earned
  <2>3. rel[r].status # "none"
    BY <1>0, <2>1 DEF View, Owns, IsSound, OwnRowsGrow, RowsAreThere
  <2> QED BY <2>2, <2>3
<1>11. SubjectsAreListed(t)'
  <2>1. tx'[t].pc = l /\ tx'[t].op = "settle" /\ tx'[t].todo = list
    BY <1>5, <1>7
  <2>2. l = "apply" => list # <<>>
    BY <1>2, <1>3
  <2> QED BY <1>2, <2>1, <2>2 DEF SubjectsAreListed
<1>12. RowsAreThere(t)'
  BY <1>0, <1>5, <1>7, <1>8, <1>9, <1>10 DEF IsSound, RowsAreThere
<1>13. OwnRowsGrow(t)'
  BY <1>0, <1>2, <1>5, <1>7, <1>8, <1>9 DEF IsSound, OwnRowsGrow
<1>14. StillTrue(t, tx[t].pc)'
  <2>1. \A r \in Subjects(t)' : Earned(View(t, r)')
    BY <1>9, <1>10
  <2>2. l = "apply" => Earned(View(t, Subject(t))')
    BY <1>9, <1>10
  <2> QED BY <1>2, <1>5, <1>7, <2>1, <2>2 DEF StillTrue, Earned
<1>15. CreditsAreMarked(t)'
  BY <1>0, <1>2, <1>5, <1>7, <1>8, <1>9 DEF IsSound, CreditsAreMarked
<1>16. IsSound(t)'
  BY <1>11, <1>12, <1>13, <1>14, <1>15 DEF IsSound
<1>17. tx'[t].op # "register" /\ tx'[t].locks = tx[t].locks
  BY <1>5, <1>7
<1> QED BY <1>7, <1>8, <1>16, <1>17, StepOfOne DEF Others

\* A transaction that has given up or committed.
Emptied(t) ==
    /\ tx'[t].pc \in {"idle", "commit"} /\ tx'[t].op \in {"none", "batch"}
    /\ tx'[t].todo = <<>> /\ tx'[t].locks = {} /\ DOMAIN tx'[t].own = {}
    /\ tx'[t].broken => tx'[t].pc = "commit"
    /\ ~tx'[t].broken => tx'[t].credited = {}

LEMMA EmptiedIsSound ==
    ASSUME NEW t \in Tx, Emptied(t)
    PROVE  IsSound(t)'
<1>1. Subjects(t)' = {} /\ \A r : ~Owns(t, r)'
  BY DEF Emptied, Subjects, Owns
<1>2. SubjectsAreListed(t)'
  BY DEF Emptied, SubjectsAreListed
<1>3. RowsAreThere(t)' /\ OwnRowsGrow(t)'
  BY <1>1 DEF Emptied, RowsAreThere, OwnRowsGrow
<1>4. StillTrue(t, tx[t].pc)'
  BY DEF Emptied, StillTrue
<1>5. CreditsAreMarked(t)'
  BY <1>1 DEF Emptied, CreditsAreMarked
<1> QED BY <1>2, <1>3, <1>4, <1>5 DEF IsSound

LEMMA VictimIsSound ==
    ASSUME IInv, NEW t \in Tx, Victim(t)
    PROVE  IInv'
<1> DEFINE credited == tx[t].credited
           left == [Idle EXCEPT !.op = "batch", !.pc = "commit", !.broken = TRUE,
                                !.credited = credited]
<1>0. Types /\ UNCHANGED Committed /\ credited \in SUBSET Rel
  BY DEF IInv, Victim, Types, TxType
<1>1. PICK n \in {left, Idle} : tx' = [tx EXCEPT ![t] = n]
  BY DEF Victim
<1> HIDE DEF credited
<1>2. /\ left \in TxType
      /\ left.pc = "commit" /\ left.op = "batch" /\ left.todo = <<>> /\ left.locks = {}
      /\ left.broken = TRUE /\ DOMAIN left.own = {}
  BY <1>0, IdleHasNothing DEF TxType
<1> HIDE DEF left
<1>3. n \in TxType
  BY <1>2, IdleHasNothing
<1>4. tx' \in [Tx -> TxType] /\ tx'[t] = n /\ \A u \in Tx \ {t} : tx'[u] = tx[u]
  BY <1>0, <1>1, <1>3 DEF Types
<1>5. Types' /\ UNCHANGED <<rel, rewards>>
  BY <1>0, <1>4 DEF Types, Committed
<1>6. Emptied(t)
  BY <1>2, <1>4, IdleHasNothing DEF Emptied
<1>7. IsSound(t)'
  BY <1>6, EmptiedIsSound
<1>8. tx'[t].op # "register" /\ tx'[t].locks = {}
  BY <1>6 DEF Emptied
<1> QED BY <1>4, <1>5, <1>7, <1>8, StepOfOne DEF Others

\* What t commits are the rows that it sees.
LEMMA CommitIsSound ==
    ASSUME IInv, NEW t \in Tx, Commit(t)
    PROVE  IInv'
<1>0. /\ tx[t].pc = "commit" /\ tx' = [tx EXCEPT ![t] = Idle]
      /\ Types /\ IsSound(t) /\ tx[t].credited \in SUBSET Rel
      /\ told' \in SUBSET Rel /\ UNCHANGED <<hasAccount, batches>>
  BY DEF Commit, IInv, Types, TxType
<1>1. tx' \in [Tx -> TxType] /\ tx'[t] = Idle /\ \A u \in Tx \ {t} : tx'[u] = tx[u]
  BY <1>0, IdleHasNothing DEF Types
<1>2. \A r \in Rel : /\ Grows(rel[r], rel'[r])
                     /\ ~Owns(t, r) => rel'[r] = rel[r]
                     /\ RowIsSound(rel'[r]) /\ rel'[r] \in RowType
  <2>1. CASE rel' = [r \in Rel |-> View(t, r)]
    BY <2>1, ViewIsSound DEF View, Owns
  <2>2. CASE rel' = rel
    BY <1>0, <2>2 DEF IInv, RowsAreSound, Types, Grows
  <2> QED BY <2>1, <2>2 DEF Commit
<1>3. rel' \in [Rel -> RowType]
  <2>1. CASE rel' = [r \in Rel |-> View(t, r)]
    BY <2>1, ViewIsSound
  <2>2. CASE rel' = rel
    BY <1>0, <2>2 DEF Types
  <2> QED BY <2>1, <2>2 DEF Commit
<1>4. rewards' \in SUBSET Rel /\ \A r \in Rel : r \in rewards' <=> rel'[r].paid
  <2>1. CASE ~tx[t].broken /\ rel' = [r \in Rel |-> View(t, r)]
                           /\ rewards' = rewards \cup tx[t].credited
    <3>1. ASSUME NEW r \in Rel PROVE r \in rewards \cup tx[t].credited <=> View(t, r).paid
      <4>1. r \in rewards => View(t, r).paid
        <5>1. ASSUME rel[r].paid PROVE View(t, r).paid
          <6>1. rel[r].status # "none"
            BY <5>1 DEF IInv, RowsAreSound, RowIsSound
          <6> QED BY <5>1, <6>1, ViewIsSound DEF Grows
        <5> QED BY <5>1 DEF IInv, RowsAreSound
      <4>2. r \in tx[t].credited => View(t, r).paid
        BY <1>0, <2>1 DEF IsSound, CreditsAreMarked, View, Owns
      <4>3. View(t, r).paid => r \in rewards \/ r \in tx[t].credited
        BY <1>0 DEF IsSound, CreditsAreMarked, View, Owns, IInv, RowsAreSound
      <4> QED BY <4>1, <4>2, <4>3
    <3> QED BY <1>0, <2>1, <3>1 DEF Types
  <2>2. CASE UNCHANGED <<rel, rewards>>
    BY <1>0, <2>2 DEF IInv, RowsAreSound, Types
  <2> QED BY <2>1, <2>2 DEF Commit
<1>5. Types' /\ RowsAreSound'
  BY <1>0, <1>1, <1>2, <1>3, <1>4 DEF Types, RowsAreSound
<1>6. ASSUME NEW u \in Tx \ {t} PROVE IsSound(u)'
  <2>1. IsSound(u) /\ Apart(t, u)
    BY DEF IInv
  <2>2. \A r \in Rel : Owns(u, r) => rel'[r] = rel[r]
    BY <1>0, <1>2, <2>1 DEF Apart, IsSound, OwnRowsGrow
  <2>3. ASSUME tx[u].op = "register" PROVE rel'[Subject(u)].status = rel[Subject(u)].status
    <3>1. tx[u].todo \in Seq(Rel) /\ Len(tx[u].todo) = 1
      BY <1>0, <2>1, <2>3 DEF Types, TxType, IsSound, SubjectsAreListed
    <3>2. Subject(u) \in Rel /\ rel[Subject(u)].status = "none"
      BY <2>1, <2>3, <3>1 DEF Subject, IsSound, SubjectsAreListed
    <3>3. ~Owns(t, Subject(u))
      BY <1>0, <2>1, <2>3, <3>2 DEF Apart, IsSound, OwnRowsGrow, RowsAreThere
    <3> QED BY <1>2, <3>2, <3>3
  <2> QED BY <1>1, <1>2, <2>2, <2>3, OthersStand
<1>7. IsSound(t)'
  <2>1. Emptied(t)
    BY <1>1, IdleHasNothing DEF Emptied
  <2> QED BY <2>1, EmptiedIsSound
<1>8. ASSUME NEW u \in Tx, NEW v \in Tx, u # v PROVE Apart(u, v)'
  <2>1. CASE u = t \/ v = t
    BY <1>1, <2>1, IdleHasNothing DEF Apart
  <2>2. CASE u # t /\ v # t
    BY <1>1, <1>8, <2>2 DEF IInv, Apart, Subject
  <2> QED BY <2>1, <2>2
<1> QED BY <1>5, <1>6, <1>7, <1>8 DEF IInv

LEMMA ElapseIsSound ==
    ASSUME IInv, NEW r \in Rel, Elapse(r)
    PROVE  IInv'
<1>0. /\ Types /\ RowsAreSound /\ tx' = tx
      /\ UNCHANGED <<rewards, hasAccount, told, batches>>
      /\ rel' = [rel EXCEPT ![r].hold = "elapsed"] /\ rel[r].hold = "running"
      /\ \A t \in Tx : ~Owns(t, r)
  BY DEF Elapse, IInv, Owns
<1> DEFINE row == [rel[r] EXCEPT !.hold = "elapsed"]
<1>1. rel[r] \in RowType /\ row \in RowType
  BY <1>0 DEF Types, RowType
<1>2. /\ row.status = rel[r].status /\ row.review = rel[r].review /\ row.paid = rel[r].paid
      /\ row.soft = rel[r].soft /\ row.hold = "elapsed" /\ row.count = rel[r].count
      /\ row.cands = rel[r].cands
  BY <1>1 DEF RowType
<1>3. rel' = [rel EXCEPT ![r] = row]
  BY <1>0
<1> HIDE DEF row
<1>4. rel' \in [Rel -> RowType] /\ rel'[r] = row /\ \A q \in Rel : q # r => rel'[q] = rel[q]
  BY <1>0, <1>1, <1>3 DEF Types
<1>5. RowIsSound(row) /\ Grows(rel[r], row)
  BY <1>0, <1>2 DEF RowsAreSound, RowIsSound, Grows
<1>6. Types' /\ RowsAreSound'
  <2>1. Types'
    BY <1>0, <1>4 DEF Types
  <2>2. ASSUME NEW q \in Rel PROVE RowIsSound(rel'[q]) /\ (q \in rewards' <=> rel'[q].paid)
    <3>1. CASE q = r
      BY <1>0, <1>2, <1>4, <1>5, <3>1 DEF RowsAreSound
    <3>2. CASE q # r
      BY <1>0, <1>4, <3>2 DEF RowsAreSound
    <3> QED BY <3>1, <3>2
  <2> QED BY <2>1, <2>2 DEF RowsAreSound
<1>7. \A q \in Rel : Grows(rel[q], rel'[q]) /\ rel'[q].status = rel[q].status
  <2> SUFFICES ASSUME NEW q \in Rel
               PROVE  Grows(rel[q], rel'[q]) /\ rel'[q].status = rel[q].status
    OBVIOUS
  <2>1. CASE q = r
    BY <1>2, <1>4, <1>5, <2>1
  <2>2. CASE q # r
    BY <1>4, <2>2 DEF Grows
  <2> QED BY <2>1, <2>2
<1>8. ASSUME NEW u \in Tx PROVE IsSound(u)'
  <2>1. tx'[u] = tx[u] /\ \A q \in Rel : Owns(u, q) => rel'[q] = rel[q]
    BY <1>0, <1>4
  <2>2. ASSUME tx[u].op = "register" PROVE rel'[Subject(u)].status = rel[Subject(u)].status
    <3>1. tx[u].todo \in Seq(Rel) /\ Len(tx[u].todo) = 1
      BY <1>0, <2>2 DEF IInv, Types, TxType, IsSound, SubjectsAreListed
    <3>2. Subject(u) \in Rel
      BY <3>1 DEF Subject
    <3> QED BY <1>7, <3>2
  <2> QED BY <1>7, <2>1, <2>2, OthersStand
<1>9. \A u, v \in Tx : u # v => Apart(u, v)'
  BY <1>0 DEF IInv, Apart, Subject
<1> QED BY <1>6, <1>8, <1>9 DEF IInv
-----------------------------------------------------------------------------
LEMMA StepIsSound ==
    ASSUME IInv, NEW t \in Tx, Step(t)
    PROVE  IInv'
<1>1. CASE InsertRelationship(t)
  BY <1>1, InsertIsSound
<1>2. CASE UseCode(t)
  <2>1. /\ tx[t].pc = "use" /\ UNCHANGED Committed /\ Granted(t)
        /\ tx' = [tx EXCEPT ![t] = [tx[t] EXCEPT !.pc = "commit", !.locks = @ \cup Wanted(t)]]
    BY <1>2 DEF UseCode, Go
  <2>2. "commit" \in Pc /\ ReadyFor("commit", View(t, Subject(t)))
    BY DEF Pc, ReadyFor
  <2> QED BY <2>1, <2>2, LocksIsSound
<1>3. CASE LockRelationship(t)
  <2>1. /\ tx[t].pc = "lock" /\ UNCHANGED Committed /\ Granted(t)
        /\ tx' = [tx EXCEPT ![t] = [tx[t] EXCEPT !.pc = "bind", !.locks = @ \cup Wanted(t)]]
    BY <1>3 DEF LockRelationship, Go
  <2>2. "bind" \in Pc /\ ReadyFor("bind", View(t, Subject(t)))
    BY DEF Pc, Writing, ReadyFor
  <2>3. tx[t].op # "register"
    BY <2>1, AtSubject
  <2> QED BY <2>1, <2>2, <2>3, LocksIsSound
<1>4. CASE Bind(t)
  BY <1>4, BindMovesOn
<1>5. CASE CountMessage(t)
  BY <1>5, CountIsSound
<1>6. CASE Judge(t)
  BY <1>6, JudgeIsSound
<1>7. CASE Hold(t)
  BY <1>7, HoldIsSound
<1>8. CASE Pass(t)
  BY <1>8, PassIsSound
<1>9. CASE ReadDelayed(t)
  BY <1>9, ReadIsSound
<1>10. CASE Release(t)
  BY <1>10, ReleaseIsSound
<1>11. CASE Apply(t)
  BY <1>11, ApplyIsSound
<1>12. CASE Skip(t)
  BY <1>12, DoneIsSound DEF Skip
<1>13. CASE BlockReward(t)
  BY <1>13, BlockIsSound
<1>14. CASE Credit(t)
  BY <1>14, CreditIsSound
<1>15. CASE MarkRewarded(t)
  BY <1>15, MarkIsSound
<1>16. CASE ListQualified(t)
  BY <1>16, ListIsSound
<1>17. CASE Commit(t)
  BY <1>17, CommitIsSound
<1> QED BY <1>1, <1>2, <1>3, <1>4, <1>5, <1>6, <1>7, <1>8, <1>9, <1>10, <1>11, <1>12, <1>13,
           <1>14, <1>15, <1>16, <1>17 DEF Step

LEMMA Initially == ReferralInit => IInv
<1> SUFFICES ASSUME ReferralInit PROVE IInv
  OBVIOUS
<1>1. /\ \A t \in Tx : tx[t] = Idle
      /\ \A r \in Rel : rel[r] = Row("none")
  BY DEF ReferralInit
<1>2. Types
  BY NewRow, IdleHasNothing, ReferralAssumption DEF ReferralInit, Types
<1>3. RowsAreSound
  BY <1>1, NewRow DEF ReferralInit, RowsAreSound
<1>4. ASSUME NEW t \in Tx PROVE IsSound(t)
  <2>1. Subjects(t) = {} /\ \A r : ~Owns(t, r)
    BY <1>1, IdleHasNothing DEF Subjects, Owns
  <2>2. SubjectsAreListed(t)
    BY <1>1, IdleHasNothing DEF SubjectsAreListed
  <2>3. RowsAreThere(t) /\ OwnRowsGrow(t)
    BY <1>1, <2>1, IdleHasNothing DEF RowsAreThere, OwnRowsGrow
  <2>4. StillTrue(t, tx[t].pc)
    BY <1>1, IdleHasNothing DEF StillTrue
  <2>5. CreditsAreMarked(t)
    BY <1>1, <2>1, IdleHasNothing DEF CreditsAreMarked
  <2> QED BY <2>2, <2>3, <2>4, <2>5 DEF IsSound
<1>5. \A t, u \in Tx : t # u => Apart(t, u)
  BY <1>1, IdleHasNothing DEF Apart
<1> QED BY <1>2, <1>3, <1>4, <1>5 DEF IInv

LEMMA Invariance == IInv /\ [ReferralNext]_referralVars => IInv'
<1> SUFFICES ASSUME IInv, [ReferralNext]_referralVars PROVE IInv'
  OBVIOUS
<1>1. ASSUME NEW t \in Tx, Begin(t) PROVE IInv'
  BY <1>1, BeginIsSound
<1>2. ASSUME NEW t \in Tx, Step(t) PROVE IInv'
  BY <1>2, StepIsSound
<1>3. ASSUME NEW t \in Tx, Victim(t) PROVE IInv'
  BY <1>3, VictimIsSound
<1>4. ASSUME NEW r \in Rel, Elapse(r) PROVE IInv'
  BY <1>4, ElapseIsSound
<1>5. CASE UNCHANGED referralVars
  <2>1. /\ rel' = rel /\ rewards' = rewards /\ hasAccount' = hasAccount /\ told' = told
        /\ batches' = batches /\ tx' = tx
    BY <1>5 DEF referralVars
  <2>2. Types' /\ RowsAreSound'
    BY <2>1 DEF IInv, Types, RowsAreSound
  <2>3. ASSUME NEW u \in Tx PROVE IsSound(u)'
    <3>1. \A r \in Rel : Grows(rel[r], rel'[r])
      BY <2>1 DEF Grows
    <3> QED BY <2>1, <3>1, OthersStand
  <2>4. \A u, v \in Tx : u # v => Apart(u, v)'
    BY <2>1 DEF IInv, Apart, Subject
  <2> QED BY <2>2, <2>3, <2>4 DEF IInv
<1> QED BY <1>1, <1>2, <1>3, <1>4, <1>5 DEF ReferralNext

\* In app/db/billing.py, however registrations, messages, scans, batch releases, retries
\* and aborted transactions interleave: a reward is in the inviter's ledger exactly when
\* its relationship says so, it was earned by enough messages, and one under soft review
\* was paid only after its hold.
THEOREM RewardsAreEarned == ReferralSpec => []RewardIsEarned
<1>1. IInv => RewardIsEarned
  <2> SUFFICES ASSUME IInv PROVE RewardIsEarned
    OBVIOUS
  <2>1. ReferralTypeOK
    BY DEF IInv, Types, TxType, ReferralTypeOK
  <2>2. ASSUME NEW r \in Rel
        PROVE  /\ r \in rewards <=> rel[r].paid
               /\ rel[r].paid => rel[r].count >= Needed /\ rel[r].status = "rewarded"
               /\ rel[r].paid /\ rel[r].soft => rel[r].hold = "elapsed"
    BY DEF IInv, RowsAreSound, RowIsSound
  <2> QED BY <2>1, <2>2 DEF RewardIsEarned
<1> QED BY Initially, Invariance, <1>1, PTL DEF ReferralSpec
=============================================================================
