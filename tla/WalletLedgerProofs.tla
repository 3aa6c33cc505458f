------------------------ MODULE WalletLedgerProofs ------------------------
(***************************************************************************)
(* The safety of the wallet for every number of people, products, keys,    *)
(* amounts, connections and calls.                                         *)
(***************************************************************************)
EXTENDS WalletLedger, SequenceTheorems, TLAPS

Busy(s) == tx[s].pc \notin {"idle", "done"}
-----------------------------------------------------------------------------
LEMMA WalletParts ==
    ASSUME NEW w \in Wallet
    PROVE  /\ w[1] \in User /\ w[2] \in App
           /\ w = <<w[1], w[2]>>
  BY DEF Wallet

LEMMA RequestParts ==
    ASSUME NEW r \in Request
    PROVE  /\ r \in RequestType
           /\ r.op \in Op /\ r.wallet \in Wallet /\ r.key \in Key
           /\ r.amount \in Amount /\ r.amount \in Int /\ r.amount > 0
           /\ LedgerKeyOf(r) \in Book!LedgerKey
           /\ r.wallet[2] \in App
  BY WalletAssumption, WalletParts DEF RequestType, LedgerKeyOf, Book!LedgerKey, Op

LEMMA TypeStep ==
    ASSUME TypeOK, [Next]_vars
    PROVE  TypeOK'
<1> USE DEF TypeOK
<1>0. CASE UNCHANGED vars
  BY <1>0 DEF vars
<1>1. ASSUME NEW s \in Session, NEW r \in Request, NEW o \in Outcome, Answer(s, r, o)
      PROVE  TypeOK'
  BY <1>1 DEF Answer, Ended, TxType, PC
<1>2. ASSUME NEW s \in Session, NEW r \in Request, NEW n \in Int, Start(s, r, n)
      PROVE  TypeOK'
  BY <1>2 DEF Start, Started, TxType, PC, Outcome
<1>3. ASSUME NEW s \in Session, Begin(s)
      PROVE  TypeOK'
  <2> PICK r \in Request : \/ BeginGrant(s, r) \/ BeginCharge(s, r)
                           \/ BeginReserve(s, r) \/ BeginRelease(s, r)
    BY <1>3 DEF Begin
  <2> r.amount \in Int /\ -r.amount \in Int /\ Amount \subseteq Int
    BY RequestParts, WalletAssumption
  <2>1. CASE BeginGrant(s, r)
    BY <2>1, <1>1, <1>2 DEF BeginGrant, Outcome
  <2>2. CASE BeginCharge(s, r)
    BY <2>2, <1>1, <1>2 DEF BeginCharge, Outcome
  <2>3. CASE BeginReserve(s, r)
    BY <2>3, <1>1, <1>2 DEF BeginReserve, Outcome
  <2>4. CASE BeginRelease(s, r)
    BY <2>4, <1>1, <1>2 DEF BeginRelease, Outcome
  <2> QED BY <2>1, <2>2, <2>3, <2>4
<1>4. ASSUME NEW s \in Session, Statement(s) \/ Rollback(s)
      PROVE  TypeOK'
  <2> tx[s] \in TxType
    OBVIOUS
  <2>0. tx[s].pc \notin {"idle", "done"}
    BY <1>4 DEF Statement, EnsureWallet, Recheck, UpdateBalance, InsertLedger,
                InsertCost, Commit, Rollback, Free
  <2>1. /\ tx[s].req \in Request
        /\ tx[s].req.wallet \in Wallet
        /\ LedgerKeyOf(tx[s].req) \in Book!LedgerKey
        /\ tx[s].req.op \in Op
        /\ tx[s].req.wallet[2] \in App /\ tx[s].req.key \in Key
    BY <2>0, RequestParts
  <2>a. ASSUME NEW new \in TxType, new.req = tx[s].req, new.pc # "idle",
               tx' = [tx EXCEPT ![s] = new],
               UNCHANGED <<wallets, balance, ledger, costEvents>>
        PROVE  TypeOK'
    BY <2>a, <2>1 DEF TxType
  <2>b. ASSUME NEW pc \in PC \ {"idle"}, Goto(s, pc)
        PROVE  TypeOK'
    <3>1. [tx[s] EXCEPT !.pc = pc] \in TxType
      BY DEF TxType
    <3>2. [tx[s] EXCEPT !.pc = pc].req = tx[s].req /\ [tx[s] EXCEPT !.pc = pc].pc = pc
      BY DEF TxType
    <3>3. tx' = [tx EXCEPT ![s] = [tx[s] EXCEPT !.pc = pc]]
      BY <2>b DEF Goto
    <3> QED BY <2>a, <2>b, <3>1, <3>2, <3>3 DEF Goto
  <2>2. CASE EnsureWallet(s)
    <3> DEFINE new == [tx[s] EXCEPT
           !.creating = {tx[s].req.wallet} \ wallets,
           !.pc = IF tx[s].req.op = "usage" THEN "recheck" ELSE "update"]
    <3>1. new \in TxType /\ new.req = tx[s].req /\ new.pc # "idle"
      BY <2>1 DEF TxType, PC
    <3>2. tx' = [tx EXCEPT ![s] = new]
      BY <2>2 DEF EnsureWallet
    <3> QED BY <2>a, <2>2, <3>1, <3>2 DEF EnsureWallet
  <2>3. CASE Recheck(s)
    BY <2>1, <2>3, <1>1, <2>b DEF Recheck, PC, Outcome
  <2>4. CASE UpdateBalance(s)
    <3> DEFINE new == [tx[s] EXCEPT
           !.after = balance[tx[s].req.wallet] + tx[s].amount, !.pc = "ledger"]
    <3>0. balance[tx[s].req.wallet] + tx[s].amount \in Int
      BY <2>1 DEF TxType
    <3>1. new \in TxType /\ new.req = tx[s].req /\ new.pc # "idle"
      BY <3>0 DEF TxType, PC
    <3>2. CASE /\ tx' = [tx EXCEPT ![s] = [@ EXCEPT
                    !.after = balance[tx[s].req.wallet] + tx[s].amount,
                    !.pc = "ledger"]]
               /\ UNCHANGED <<wallets, balance, ledger, costEvents>>
      <4>1. tx' = [tx EXCEPT ![s] = new]
        BY <3>2
      <4> QED BY <2>a, <3>1, <3>2, <4>1
    <3>3. CASE Answer(s, tx[s].req, "insufficient")
      BY <3>3, <2>1, <1>1 DEF Outcome
    <3> QED BY <2>4, <3>2, <3>3 DEF UpdateBalance
  <2>5. CASE InsertLedger(s)
    BY <2>1, <2>5, <1>1, <2>b DEF InsertLedger, PC, Outcome
  <2>6. CASE InsertCost(s)
    BY <2>1, <2>6, <1>1, <2>b DEF InsertCost, PC, Outcome
  <2>7. CASE Commit(s)
    <3>1. tx' \in [Session -> TxType]
      <4>1. Ended(tx[s].req, "ok") \in TxType
        BY <2>1 DEF Ended, TxType, PC, Outcome
      <4> QED BY <2>7, <4>1 DEF Commit
    <3>2. NewRow(s) \in Book!Row
      BY <2>1 DEF NewRow, Book!Row, TxType, Op
    <3>3. ledger' \in [Wallet -> Seq(Book!Row)]
      <4> DEFINE w == tx[s].req.wallet
      <4>1. ledger[w] \in Seq(Book!Row)
        BY <2>1
      <4>2. Append(ledger[w], NewRow(s)) \in Seq(Book!Row)
        BY <3>2, <4>1, AppendProperties
      <4>3. \/ UNCHANGED ledger
            \/ ledger' = [ledger EXCEPT ![w] = Append(ledger[w], NewRow(s))]
        BY <2>7 DEF Commit
      <4> HIDE DEF w
      <4> QED BY <4>2, <4>3
    <3> QED BY <2>1, <2>7, <3>1, <3>3 DEF Commit, TxType, Ended
  <2>8. CASE Rollback(s)
    BY <2>1, <2>8, <1>1 DEF Rollback, Outcome
  <2> QED BY <1>4, <2>2, <2>3, <2>4, <2>5, <2>6, <2>7, <2>8 DEF Statement
<1> QED BY <1>0, <1>3, <1>4 DEF Next

\* TypeOK is inductive by itself: no statement of a transaction leaves the types.
THEOREM TypeCorrect == Spec => []TypeOK
<1>1. Init => TypeOK
  BY DEF Init, TypeOK, NoTx, TxType, PC, Outcome
<1> QED BY <1>1, TypeStep, PTL DEF Spec
-----------------------------------------------------------------------------
(***************************************************************************)
(* The inductive invariant: the properties of the committed rows, and what *)
(* every open transaction relies on.                                       *)
(***************************************************************************)
\* A row under the caller's own key that takes from the balance is a reservation.
RowsWellFormed ==
    \A w \in Wallet : \A row \in Entries(w) :
       /\ row.kind = "grant" => row.amount > 0
       /\ row.kind \in {"usage", "release"} => row.key[1] = row.kind

RowsOK == /\ LedgerExplainsBalance
          /\ RowsWellFormed
          /\ KeyRecordedOnce
          /\ ReservationNeverOverdraws
          /\ ReleaseRefundsReservation
          /\ CostEventIffCharged

IInv == TypeOK /\ RowsOK /\ TransactionsIsolated /\ AnswerIsTrue

Db == <<wallets, balance, ledger, costEvents>>

LEMMA InitIInv == Init => IInv
<1> SUFFICES ASSUME Init PROVE IInv
  OBVIOUS
<1>1. TypeOK
  BY DEF Init, TypeOK, NoTx, TxType, PC, Outcome
<1>2. \A w \in Wallet : ledger[w] = <<>> /\ balance[w] = 0 /\ Entries(w) = {}
  BY DEF Init, Entries, Range
<1>3. \A a \in App, k \in Key : ~ Recorded(a, <<"usage", k>>)
  <2> TAKE a \in App, k \in Key
  <2>1. \A u \in User : Entries(<<u, a>>) = {}
    BY <1>2 DEF Wallet
  <2> QED BY <2>1 DEF Recorded
<1>4. RowsOK
  <2>1. LedgerExplainsBalance
    BY <1>2 DEF LedgerExplainsBalance, Book!Balance
  <2>2. KeyRecordedOnce
    BY <1>2 DEF KeyRecordedOnce, Wallet
  <2>3. ReservationNeverOverdraws /\ ReleaseRefundsReservation /\ RowsWellFormed
    BY <1>2 DEF ReservationNeverOverdraws, ReleaseRefundsReservation, RowsWellFormed
  <2>4. CostEventIffCharged
    BY <1>3 DEF CostEventIffCharged, Init
  <2> QED BY <2>1, <2>2, <2>3, <2>4 DEF RowsOK
<1>5. TransactionsIsolated /\ AnswerIsTrue
  BY DEF Init, NoTx, TransactionsIsolated, TransactionOK, LocksExclusive, Holding,
         Inserted, AnswerIsTrue, AnswerIsTrueFor
<1> QED BY <1>1, <1>4, <1>5 DEF IInv

\* A step that touches no row leaves everything said of the rows.
LEMMA RowsUnchanged ==
    ASSUME UNCHANGED Db
    PROVE  /\ RowsOK => RowsOK'
           /\ \A a, k : Recorded(a, k)' = Recorded(a, k)
           /\ \A w, k : Owned(w, k)' = Owned(w, k)
           /\ \A w, k, n : ReservedRow(w, k, n)' = ReservedRow(w, k, n)
<1>0. UNCHANGED ledger /\ UNCHANGED balance /\ UNCHANGED costEvents
  BY DEF Db
<1>1. /\ \A w : Entries(w)' = Entries(w)
      /\ \A w : Book!Balance(w)' = Book!Balance(w)
  BY <1>0 DEF Entries, Book!Balance
<1>2. /\ \A a, k : Recorded(a, k)' = Recorded(a, k)
      /\ \A w, k : Owned(w, k)' = Owned(w, k)
      /\ \A w, k, n : ReservedRow(w, k, n)' = ReservedRow(w, k, n)
  BY <1>1 DEF Recorded, Owned, ReservedRow
<1>3. LedgerExplainsBalance => LedgerExplainsBalance'
  BY <1>0, <1>1 DEF LedgerExplainsBalance
<1>4. KeyRecordedOnce => KeyRecordedOnce'
  BY <1>0 DEF KeyRecordedOnce
<1>5. /\ ReservationNeverOverdraws => ReservationNeverOverdraws'
      /\ RowsWellFormed => RowsWellFormed'
  BY <1>1 DEF ReservationNeverOverdraws, RowsWellFormed
<1>6. ReleaseRefundsReservation => ReleaseRefundsReservation'
  BY <1>0 DEF ReleaseRefundsReservation
<1>7. CostEventIffCharged => CostEventIffCharged'
  BY <1>0, <1>2 DEF CostEventIffCharged
<1> QED BY <1>2, <1>3, <1>4, <1>5, <1>6, <1>7 DEF RowsOK

\* A session that does not move keeps its invariant when the rows do not change.
LEMMA OthersUnchanged ==
    ASSUME UNCHANGED Db, NEW t \in Session, tx'[t] = tx[t]
    PROVE  /\ TransactionOK(t) => TransactionOK(t)'
           /\ AnswerIsTrueFor(t) => AnswerIsTrueFor(t)'
           /\ Holding(t)' = Holding(t) /\ Inserted(t)' = Inserted(t)
<1> DEFINE r == tx[t].req
<1>1. /\ Recorded(r.wallet[2], LedgerKeyOf(r))' = Recorded(r.wallet[2], LedgerKeyOf(r))
      /\ Owned(r.wallet, LedgerKeyOf(r))' = Owned(r.wallet, LedgerKeyOf(r))
      /\ \A n : ReservedRow(r.wallet, r.key, n)' = ReservedRow(r.wallet, r.key, n)
  BY DEF Db, Recorded, Owned, ReservedRow, Entries, LedgerKeyOf
<1>2. AnswerIsTrueFor(t) => AnswerIsTrueFor(t)'
  BY <1>1 DEF AnswerIsTrueFor
<1>3. Holding(t)' = Holding(t) /\ Inserted(t)' = Inserted(t)
  BY DEF Holding, Inserted
<1>4. TransactionOK(t) => TransactionOK(t)'
  BY <1>1, <1>3 DEF TransactionOK, Db
<1> QED BY <1>2, <1>3, <1>4

\* A step of one session that touches no row preserves the invariant when the
\* session itself ends up in order and takes no lock that another one holds.
LEMMA LocalStep ==
    ASSUME IInv, NEW s \in Session, NEW new, tx' = [tx EXCEPT ![s] = new], UNCHANGED Db,
           TransactionOK(s)', AnswerIsTrueFor(s)',
           \A t \in Session \ {s} : LocksExclusive(s, t)'
    PROVE  RowsOK' /\ TransactionsIsolated' /\ AnswerIsTrue'
<1>1. RowsOK'
  BY RowsUnchanged DEF IInv
<1>2. \A t \in Session \ {s} : tx'[t] = tx[t]
  BY DEF IInv, TypeOK
<1>3. ASSUME NEW t \in Session \ {s}
      PROVE  /\ TransactionOK(t)' /\ AnswerIsTrueFor(t)'
             /\ \A v \in Session \ {t} : LocksExclusive(t, v)'
  <2>1. TransactionOK(t)' /\ AnswerIsTrueFor(t)'
    BY <1>2, OthersUnchanged DEF IInv, TransactionsIsolated, AnswerIsTrue
  <2>2. ASSUME NEW v \in Session \ {t} PROVE LocksExclusive(t, v)'
    <3>1. CASE v = s
      <4>1. LocksExclusive(s, t)'
        OBVIOUS
      <4> QED BY <3>1, <4>1 DEF LocksExclusive
    <3>2. CASE v # s
      <4>1. LocksExclusive(t, v)
        BY DEF IInv, TransactionsIsolated
      <4>2. tx'[t] = tx[t] /\ tx'[v] = tx[v]
        BY <1>2, <3>2
      <4> QED BY <4>1, <4>2 DEF LocksExclusive, Holding, Inserted, LedgerKeyOf
    <3> QED BY <3>1, <3>2
  <2> QED BY <2>1, <2>2
<1>4. TransactionsIsolated' /\ AnswerIsTrue'
  BY <1>3 DEF TransactionsIsolated, AnswerIsTrue
<1> QED BY <1>1, <1>4

\* A transaction that ends without a commit leaves only its answer.
LEMMA AnswerStep ==
    ASSUME IInv, NEW s \in Session, NEW r \in Request, NEW o, Answer(s, r, o),
           o = "ok" \/ o = "replayed" =>
              /\ Owned(r.wallet, LedgerKeyOf(r))
              /\ r.op = "reserve" => ReservedRow(r.wallet, r.key, r.amount)
    PROVE  RowsOK' /\ TransactionsIsolated' /\ AnswerIsTrue'
<1>1. tx' = [tx EXCEPT ![s] = Ended(r, o)] /\ UNCHANGED Db
  BY DEF Answer, Db
<1>2. tx'[s] = Ended(r, o)
  BY <1>1 DEF IInv, TypeOK
<1>3. tx'[s].pc = "done" /\ tx'[s].req = r /\ tx'[s].outcome = o
  BY <1>2 DEF Ended
<1>4. TransactionOK(s)' /\ \A t \in Session \ {s} : LocksExclusive(s, t)'
  BY <1>3 DEF TransactionOK, LocksExclusive, Holding, Inserted
<1>5. AnswerIsTrueFor(s)'
  <2>1. /\ Owned(r.wallet, LedgerKeyOf(r))' = Owned(r.wallet, LedgerKeyOf(r))
        /\ ReservedRow(r.wallet, r.key, r.amount)'
               = ReservedRow(r.wallet, r.key, r.amount)
    BY <1>1, RowsUnchanged DEF LedgerKeyOf
  <2> QED BY <1>3, <2>1 DEF AnswerIsTrueFor, LedgerKeyOf
<1> QED BY <1>1, <1>4, <1>5, LocalStep

\* A transaction that starts holds nothing yet.
LEMMA StartStep ==
    ASSUME IInv, NEW s \in Session, NEW r \in Request, NEW n, Start(s, r, n),
           r.op = "grant" => n = r.amount,
           r.op \in {"usage", "reserve"} => n = - r.amount,
           r.op = "release" => n \in Amount /\ ReservedRow(r.wallet, r.key, n)
    PROVE  RowsOK' /\ TransactionsIsolated' /\ AnswerIsTrue'
<1>1. tx' = [tx EXCEPT ![s] = Started(r, n)] /\ UNCHANGED Db
  BY DEF Start, Db
<1>2. tx'[s] = Started(r, n)
  BY <1>1 DEF IInv, TypeOK
<1>3. /\ tx'[s].pc = "ensure" /\ tx'[s].req = r /\ tx'[s].outcome = "none"
      /\ tx'[s].amount = n
  BY <1>2 DEF Started
<1>4. AnswerIsTrueFor(s)' /\ \A t \in Session \ {s} : LocksExclusive(s, t)'
  BY <1>3 DEF AnswerIsTrueFor, LocksExclusive, Holding, Inserted
<1>5. TransactionOK(s)'
  <2>1. ReservedRow(r.wallet, r.key, n)' = ReservedRow(r.wallet, r.key, n)
    BY <1>1, RowsUnchanged
  <2> QED BY <1>3, <2>1 DEF TransactionOK, Holding, Inserted
<1> QED BY <1>1, <1>4, <1>5, LocalStep

\* A transaction that goes on: what its next statement needs is what must hold.
LEMMA MoveStep ==
    ASSUME IInv, NEW s \in Session, Busy(s), NEW new, tx' = [tx EXCEPT ![s] = new],
           UNCHANGED Db,
           new.req = tx[s].req, new.amount = tx[s].amount, new.outcome = tx[s].outcome,
           new.pc # "commitcost",
           new.pc \in {"ledger", "cost", "commit"} =>
              /\ new.after = balance[new.req.wallet] + new.amount
              /\ new.req.op = "reserve" => new.after >= 0
              /\ ~ LockedByOther(s, new.req.wallet),
           new.pc \in {"cost", "commit"} =>
              /\ ~ Recorded(new.req.wallet[2], LedgerKeyOf(new.req))
              /\ ~ KeyPendingByOther(s),
           new.pc \in {"recheck", "cost", "costonly"} => new.req.op = "usage",
           new.pc = "costonly" => <<new.req.wallet[2], new.req.key>> \in costEvents
    PROVE  RowsOK' /\ TransactionsIsolated' /\ AnswerIsTrue'
<1> DEFINE r == tx[s].req
<1>1. tx'[s] = new
  BY DEF IInv, TypeOK
<1>2. TransactionOK(s)
  BY DEF IInv, TransactionsIsolated
<1>3. new.outcome = "none"
  BY <1>2 DEF TransactionOK, Busy
<1>4. AnswerIsTrueFor(s)'
  BY <1>1, <1>3 DEF AnswerIsTrueFor
<1>5. TransactionOK(s)'
  <2>0. ledger' = ledger /\ r' = r /\ tx'[s].amount = tx[s].amount
    BY <1>1 DEF Db
  <2>k. LedgerKeyOf(r)' = LedgerKeyOf(r)
    BY <2>0 DEF LedgerKeyOf
  <2> HIDE DEF r
  <2>1. Recorded(r.wallet[2], LedgerKeyOf(r))' = Recorded(r.wallet[2], LedgerKeyOf(r))
    BY <2>0, <2>k DEF Recorded, Entries
  <2>2. ReservedRow(r.wallet, r.key, tx[s].amount)'
           = ReservedRow(r.wallet, r.key, tx[s].amount)
    BY <2>0 DEF ReservedRow, Entries
  <2> QED BY <1>1, <1>2, <1>3, <2>1, <2>2 DEF r, TransactionOK, Holding, Inserted, Busy, Db
<1>6. ASSUME NEW t \in Session \ {s} PROVE LocksExclusive(s, t)'
  <2>1. tx'[t] = tx[t]
    BY DEF IInv, TypeOK
  <2>2. new.pc \in {"ledger", "cost", "commit"} /\ Holding(t)
           => new.req.wallet # tx[t].req.wallet
    BY DEF LockedByOther
  <2>3. new.pc \in {"cost", "commit"} /\ Inserted(t) =>
           \/ new.req.wallet[2] # tx[t].req.wallet[2]
           \/ LedgerKeyOf(new.req) # LedgerKeyOf(tx[t].req)
    BY DEF KeyPendingByOther
  <2> QED BY <1>1, <2>1, <2>2, <2>3 DEF LocksExclusive, Holding, Inserted, LedgerKeyOf
<1> QED BY <1>4, <1>5, <1>6, LocalStep

\* In a state of the invariant a running transaction has a request of the caller.
LEMMA BusySession ==
    ASSUME IInv, NEW s \in Session, Busy(s)
    PROVE  /\ tx[s].req \in Request /\ tx[s] \in TxType
           /\ tx[s].req.wallet \in Wallet /\ tx[s].req.key \in Key
           /\ tx[s].req.op \in Op /\ tx[s].req.amount \in Int
           /\ tx[s].req.wallet[2] \in App
           /\ TransactionOK(s)
  BY RequestParts DEF IInv, TypeOK, Busy, TransactionsIsolated

LEMMA BeginStep ==
    ASSUME IInv, NEW s \in Session, Begin(s)
    PROVE  RowsOK' /\ TransactionsIsolated' /\ AnswerIsTrue'
<1> PICK r \in Request : \/ BeginGrant(s, r) \/ BeginCharge(s, r)
                         \/ BeginReserve(s, r) \/ BeginRelease(s, r)
  BY DEF Begin
<1>1. CASE BeginGrant(s, r)
  BY <1>1, AnswerStep, StartStep DEF BeginGrant
<1>2. CASE BeginCharge(s, r)
  BY <1>2, AnswerStep, StartStep DEF BeginCharge
<1>3. CASE BeginReserve(s, r)
  <2>1. ASSUME NEW row \in Entries(r.wallet), row.key = LedgerKeyOf(r),
               row.amount = - r.amount
        PROVE  ReservedRow(r.wallet, r.key, r.amount) /\ Owned(r.wallet, LedgerKeyOf(r))
    <3>1. LedgerKeyOf(r) = <<"raw", r.key>>
      BY <1>3 DEF BeginReserve, LedgerKeyOf
    <3>2. r.wallet \in Wallet /\ r.amount \in Int /\ r.amount > 0
      BY RequestParts
    <3>3. row \in Book!Row
      <4>1. ledger[r.wallet] \in Seq(Book!Row)
        BY <3>2 DEF IInv, TypeOK
      <4> QED BY <4>1, RangeOfSeq DEF Entries
    <3>4. row.kind \notin {"grant", "usage", "release"}
      BY <2>1, <3>1, <3>2, <3>3 DEF IInv, RowsOK, RowsWellFormed, Book!Row
    <3>5. row.kind = "reserve"
      BY <3>3, <3>4 DEF Book!Row
    <3> QED BY <2>1, <3>1, <3>5 DEF ReservedRow, Owned
  <2> QED BY <1>3, <2>1, AnswerStep, StartStep DEF BeginReserve
<1>4. CASE BeginRelease(s, r)
  BY <1>4, AnswerStep, StartStep DEF BeginRelease
<1> QED BY <1>1, <1>2, <1>3, <1>4

LEMMA MoveActions ==
    ASSUME IInv, NEW s \in Session,
           \/ EnsureWallet(s) \/ Recheck(s) \/ UpdateBalance(s)
           \/ InsertLedger(s) \/ InsertCost(s) \/ Rollback(s)
    PROVE  RowsOK' /\ TransactionsIsolated' /\ AnswerIsTrue'
<1>0. Busy(s)
  BY DEF EnsureWallet, Recheck, UpdateBalance, InsertLedger, InsertCost, Rollback, Free, Busy
<1>1. CASE EnsureWallet(s)
  <2> DEFINE new == [tx[s] EXCEPT
             !.creating = {tx[s].req.wallet} \ wallets,
             !.pc = IF tx[s].req.op = "usage" THEN "recheck" ELSE "update"]
  <2>1. tx' = [tx EXCEPT ![s] = new] /\ UNCHANGED Db
    BY <1>1 DEF EnsureWallet, Db
  <2>2. /\ new.req = tx[s].req /\ new.amount = tx[s].amount
        /\ new.outcome = tx[s].outcome
        /\ new.pc = IF tx[s].req.op = "usage" THEN "recheck" ELSE "update"
    BY <1>0, BusySession DEF TxType
  <2> HIDE DEF new
  <2> QED BY <1>0, <2>1, <2>2, MoveStep
<1>2. CASE Recheck(s)
  <2>1. ASSUME NEW pc \in {"update", "costonly"}, Goto(s, pc), tx[s].req.op = "usage",
               pc = "costonly" =>
                  <<tx[s].req.wallet[2], tx[s].req.key>> \in costEvents
        PROVE  RowsOK' /\ TransactionsIsolated' /\ AnswerIsTrue'
    <3> DEFINE new == [tx[s] EXCEPT !.pc = pc]
    <3>1. tx' = [tx EXCEPT ![s] = new] /\ UNCHANGED Db
      BY <2>1 DEF Goto, Db
    <3>2. /\ new.req = tx[s].req /\ new.amount = tx[s].amount
          /\ new.outcome = tx[s].outcome /\ new.pc = pc
      BY <1>0, BusySession DEF TxType
    <3> HIDE DEF new
    <3> QED BY <1>0, <2>1, <3>1, <3>2, MoveStep
  <2>2. tx[s].req.op = "usage" /\ LedgerKeyOf(tx[s].req) = <<"usage", tx[s].req.key>>
    BY <1>0, <1>2, BusySession DEF Recheck, TransactionOK, LedgerKeyOf
  <2>3. Recorded(tx[s].req.wallet[2], LedgerKeyOf(tx[s].req)) =>
           <<tx[s].req.wallet[2], tx[s].req.key>> \in costEvents
    BY <1>0, <2>2, BusySession DEF IInv, RowsOK, CostEventIffCharged
  <2> QED BY <1>0, <1>2, <2>1, <2>2, <2>3, BusySession, AnswerStep DEF Recheck
<1>3. CASE UpdateBalance(s)
  <2> DEFINE new == [tx[s] EXCEPT
             !.after = balance[tx[s].req.wallet] + tx[s].amount, !.pc = "ledger"]
  <2>1. /\ new.req = tx[s].req /\ new.amount = tx[s].amount
        /\ new.outcome = tx[s].outcome /\ new.pc = "ledger"
        /\ new.after = balance[tx[s].req.wallet] + tx[s].amount
    BY <1>0, BusySession DEF TxType
  <2>2. CASE tx' = [tx EXCEPT ![s] = new] /\ UNCHANGED Db
    <3>1. tx[s].req.op = "reserve" => new.after >= 0
      <4> SUFFICES ASSUME tx[s].req.op = "reserve" PROVE new.after >= 0
        OBVIOUS
      <4>1. tx[s].amount = - tx[s].req.amount
        BY <1>0, BusySession DEF TransactionOK, Busy
      <4>2. tx[s].req.amount <= balance[tx[s].req.wallet]
        <5>1. tx'[s].pc = "ledger"
          BY <2>1, <2>2 DEF IInv, TypeOK
        <5>2. ~ Answer(s, tx[s].req, "insufficient")
          BY <5>1 DEF Answer, Ended, IInv, TypeOK
        <5> QED BY <1>3, <5>2 DEF UpdateBalance
      <4>3. balance[tx[s].req.wallet] \in Int
        BY <1>0, BusySession DEF IInv, TypeOK
      <4> QED BY <1>0, <2>1, <4>1, <4>2, <4>3, BusySession
    <3>2. ~ LockedByOther(s, tx[s].req.wallet)
      BY <1>3 DEF UpdateBalance
    <3> HIDE DEF new
    <3> QED BY <1>0, <2>1, <2>2, <3>1, <3>2, MoveStep
  <2>3. CASE Answer(s, tx[s].req, "insufficient")
    BY <1>0, <2>3, BusySession, AnswerStep
  <2> QED BY <1>3, <2>2, <2>3 DEF UpdateBalance, Db
<1>4. ASSUME NEW pc \in {"cost", "commit"}, Goto(s, pc), Holding(s),
             ~ Recorded(tx[s].req.wallet[2], LedgerKeyOf(tx[s].req)),
             ~ KeyPendingByOther(s), pc = "cost" => tx[s].req.op = "usage"
      PROVE  RowsOK' /\ TransactionsIsolated' /\ AnswerIsTrue'
  <2> DEFINE new == [tx[s] EXCEPT !.pc = pc]
  <2>1. tx' = [tx EXCEPT ![s] = new] /\ UNCHANGED Db
    BY <1>4 DEF Goto, Db
  <2>2. /\ new.req = tx[s].req /\ new.amount = tx[s].amount
        /\ new.outcome = tx[s].outcome /\ new.pc = pc /\ new.after = tx[s].after
    BY <1>0, BusySession DEF TxType
  <2>3. /\ tx[s].after = balance[tx[s].req.wallet] + tx[s].amount
        /\ tx[s].req.op = "reserve" => tx[s].after >= 0
    BY <1>0, <1>4, BusySession DEF TransactionOK
  <2>4. ~ LockedByOther(s, tx[s].req.wallet)
    BY <1>4 DEF IInv, TransactionsIsolated, LocksExclusive, LockedByOther
  <2> HIDE DEF new
  <2> QED BY <1>0, <1>4, <2>1, <2>2, <2>3, <2>4, MoveStep
<1>5. CASE InsertLedger(s)
  <2>1. Holding(s)
    BY <1>5 DEF InsertLedger, Holding
  <2> QED BY <1>0, <1>4, <1>5, <2>1, BusySession, AnswerStep DEF InsertLedger
<1>6. CASE InsertCost(s)
  <2>1. CASE tx[s].pc = "costonly"
    <3>1. <<tx[s].req.wallet[2], tx[s].req.key>> \in costEvents
      BY <1>0, <2>1, BusySession DEF TransactionOK
    <3> QED BY <1>0, <1>6, <3>1, BusySession, AnswerStep DEF InsertCost
  <2>2. CASE tx[s].pc = "cost"
    <3>1. Holding(s) /\ Inserted(s)
      BY <2>2 DEF Holding, Inserted
    <3>2. ~ Recorded(tx[s].req.wallet[2], LedgerKeyOf(tx[s].req))
      BY <1>0, <3>1, BusySession DEF TransactionOK
    <3>3. ~ KeyPendingByOther(s)
      BY <3>1 DEF IInv, TransactionsIsolated, LocksExclusive, KeyPendingByOther
    <3> QED BY <1>0, <1>4, <1>6, <2>2, <3>1, <3>2, <3>3, BusySession, AnswerStep
            DEF InsertCost
  <2> QED BY <1>6, <2>1, <2>2 DEF InsertCost
<1>7. CASE Rollback(s)
  BY <1>0, <1>7, BusySession, AnswerStep DEF Rollback
<1> QED BY <1>1, <1>2, <1>3, <1>5, <1>6, <1>7

-----------------------------------------------------------------------------
(***************************************************************************)
(* The commit: the one step that changes rows.                             *)
(***************************************************************************)
\* What a commit adds: one row, of a fresh key, on top of the wallet's last one.
LEMMA CommitAdds ==
    ASSUME IInv, NEW s \in Session, Commit(s)
    PROVE  LET r == tx[s].req
               w == r.wallet
           IN /\ Busy(s) /\ tx[s].pc = "commit"
              /\ NewRow(s) \in Book!Row
              /\ ledger[w] \in Seq(Book!Row)
              /\ ledger' = [ledger EXCEPT ![w] = Append(ledger[w], NewRow(s))]
              /\ balance' = [balance EXCEPT ![w] = NewRow(s).after]
              /\ NewRow(s).kind = r.op /\ NewRow(s).key = LedgerKeyOf(r)
              /\ NewRow(s).amount = tx[s].amount
              /\ NewRow(s).after = Book!Balance(w) + NewRow(s).amount
              /\ ~ Recorded(w[2], LedgerKeyOf(r))
<1> DEFINE r == tx[s].req
           w == r.wallet
<1>1. Busy(s)
  BY DEF Commit, Busy
<1>2. tx[s].pc = "commit"
  BY <1>1, BusySession DEF Commit, TransactionOK
<1>3. NewRow(s) \in Book!Row
  BY <1>1, BusySession, RequestParts DEF NewRow, Book!Row, TxType, Op
<1>4. ledger[w] \in Seq(Book!Row)
  BY <1>1, BusySession DEF IInv, TypeOK
<1>5. /\ ledger' = [ledger EXCEPT ![w] = Append(ledger[w], NewRow(s))]
      /\ balance' = [balance EXCEPT ![w] = NewRow(s).after]
  BY <1>2 DEF Commit, NewRow
<1>6. /\ NewRow(s).kind = r.op /\ NewRow(s).key = LedgerKeyOf(r)
      /\ NewRow(s).amount = tx[s].amount /\ NewRow(s).after = tx[s].after
  BY DEF NewRow
<1>7. /\ tx[s].after = balance[w] + tx[s].amount
      /\ ~ Recorded(w[2], LedgerKeyOf(r))
  BY <1>1, <1>2, BusySession DEF TransactionOK, Holding, Inserted
<1>8. balance[w] = Book!Balance(w)
  BY <1>1, BusySession DEF IInv, RowsOK, LedgerExplainsBalance
<1> QED BY <1>1, <1>2, <1>3, <1>4, <1>5, <1>6, <1>7, <1>8

LEMMA RangeOfAppend ==
    ASSUME NEW S, NEW seq \in Seq(S), NEW e \in S
    PROVE  Range(Append(seq, e)) = Range(seq) \cup {e}
<1> DEFINE new == Append(seq, e)
           n == Len(seq)
<1>1. /\ n \in Nat /\ DOMAIN seq = 1..n /\ DOMAIN new = 1..(n + 1)
      /\ \A i \in 1..n : new[i] = seq[i]
      /\ new[n + 1] = e
  BY AppendProperties, LenProperties
<1> HIDE DEF new, n
<1>2. ASSUME NEW i \in DOMAIN new PROVE new[i] \in {seq[j] : j \in DOMAIN seq} \cup {e}
  <2>1. i = n + 1 \/ i \in 1..n
    BY <1>1
  <2> QED BY <1>1, <2>1
<1>3. ASSUME NEW i \in DOMAIN seq PROVE seq[i] \in {new[j] : j \in DOMAIN new}
  <2>1. i \in DOMAIN new /\ new[i] = seq[i]
    BY <1>1
  <2> QED BY <2>1
<1>4. e \in {new[j] : j \in DOMAIN new}
  BY <1>1
<1>5. {new[i] : i \in DOMAIN new} = {seq[i] : i \in DOMAIN seq} \cup {e}
  BY <1>2, <1>3, <1>4
<1> QED BY <1>5 DEF new, Range

\* What a commit does to the rows a SELECT finds.
LEMMA CommitRows ==
    ASSUME IInv, NEW s \in Session, Commit(s), NEW w, w = tx[s].req.wallet
    PROVE  LET n == Len(ledger[w])
           IN /\ \A v \in Wallet \ {w} : ledger'[v] = ledger[v] /\ balance'[v] = balance[v]
              /\ n \in Nat /\ DOMAIN ledger[w] = 1..n
              /\ DOMAIN ledger'[w] = 1..(n + 1)
              /\ \A i \in 1..n : ledger'[w][i] = ledger[w][i]
              /\ ledger'[w][n + 1] = NewRow(s)
              /\ Len(ledger'[w]) = n + 1 /\ ledger'[w] # <<>>
              /\ \A v \in Wallet : Entries(v)' =
                    IF v = w THEN Entries(v) \cup {NewRow(s)} ELSE Entries(v)
<1> DEFINE n == Len(ledger[w])
<1>1. w \in Wallet
  BY CommitAdds, BusySession
<1>2. \A v \in Wallet \ {w} : ledger'[v] = ledger[v] /\ balance'[v] = balance[v]
  BY <1>1, CommitAdds DEF IInv, TypeOK
<1>3. ledger'[w] = Append(ledger[w], NewRow(s))
  BY <1>1, CommitAdds DEF IInv, TypeOK
<1>4. /\ ledger[w] \in Seq(Book!Row) /\ NewRow(s) \in Book!Row
  BY CommitAdds
<1>5. ledger'[w] \in Seq(Book!Row)
  BY <1>3, <1>4, AppendProperties
<1>6. /\ n \in Nat /\ DOMAIN ledger[w] = 1..n
      /\ DOMAIN ledger'[w] = 1..(n + 1)
      /\ \A i \in 1..n : ledger'[w][i] = ledger[w][i]
      /\ ledger'[w][n + 1] = NewRow(s)
      /\ Len(ledger'[w]) = n + 1 /\ ledger'[w] # <<>>
  <2>1. n \in Nat /\ DOMAIN ledger[w] = 1..n
    BY <1>4, LenProperties
  <2>2. /\ \A i \in 1..n : ledger'[w][i] = ledger[w][i]
        /\ ledger'[w][n + 1] = NewRow(s)
        /\ Len(ledger'[w]) = n + 1 /\ ledger'[w] # <<>>
    <3> DEFINE old == ledger[w]
               row == NewRow(s)
    <3>1. /\ \A i \in 1..Len(old) : Append(old, row)[i] = old[i]
          /\ Append(old, row)[Len(old) + 1] = row
          /\ Len(Append(old, row)) = Len(old) + 1 /\ Append(old, row) # <<>>
      <4> HIDE DEF old, row
      <4>1. old \in Seq(Book!Row) /\ row \in Book!Row
        BY <1>4 DEF old, row
      <4> QED BY <4>1, AppendProperties
    <3> QED BY <1>3, <3>1
  <2>3. DOMAIN ledger'[w] = 1..(n + 1)
    BY <1>5, <2>2, LenProperties
  <2> QED BY <2>1, <2>2, <2>3
<1>7. ASSUME NEW v \in Wallet
      PROVE  Entries(v)' = IF v = w THEN Entries(v) \cup {NewRow(s)} ELSE Entries(v)
  <2>1. CASE v # w
    BY <1>2, <2>1 DEF Entries
  <2>2. CASE v = w
    <3>1. Range(Append(ledger[w], NewRow(s))) = Range(ledger[w]) \cup {NewRow(s)}
      BY <1>4, RangeOfAppend
    <3>2. Entries(w)' = Entries(w) \cup {NewRow(s)}
      BY <1>3, <3>1 DEF Entries
    <3> QED BY <2>2, <3>2
  <2> QED BY <2>1, <2>2
<1> QED BY <1>2, <1>6, <1>7

LEMMA CommitLookups ==
    ASSUME IInv, NEW s \in Session, Commit(s), NEW r, r = tx[s].req
    PROVE  /\ \A a \in App : \A k : Recorded(a, k)' <=>
                    Recorded(a, k) \/ (a = r.wallet[2] /\ k = LedgerKeyOf(r))
           /\ \A w \in Wallet : \A k : Owned(w, k) => Owned(w, k)'
           /\ \A w \in Wallet : \A k, n : ReservedRow(w, k, n) => ReservedRow(w, k, n)'
<1>1. r.wallet \in Wallet /\ NewRow(s).key = LedgerKeyOf(r)
  BY CommitAdds, BusySession
<1>2. \A v \in Wallet : Entries(v)' =
         IF v = r.wallet THEN Entries(v) \cup {NewRow(s)} ELSE Entries(v)
  BY CommitRows
<1>3. ASSUME NEW a \in App, NEW k
      PROVE  Recorded(a, k)' <=> Recorded(a, k) \/ (a = r.wallet[2] /\ k = LedgerKeyOf(r))
  <2>1. \A u \in User : <<u, a>> \in Wallet
    BY DEF Wallet
  <2>2. r.wallet[1] \in User /\ r.wallet = <<r.wallet[1], r.wallet[2]>>
    BY <1>1, WalletParts
  <2>3. ASSUME Recorded(a, k)'
        PROVE  Recorded(a, k) \/ (a = r.wallet[2] /\ k = LedgerKeyOf(r))
    <3>1. PICK u \in User : \E row \in Entries(<<u, a>>)' : row.key = k
      BY <2>3 DEF Recorded
    <3>2. PICK row \in Entries(<<u, a>>)' : row.key = k
      BY <3>1
    <3>3. CASE row \in Entries(<<u, a>>)
      BY <3>2, <3>3 DEF Recorded
    <3>4. CASE row \notin Entries(<<u, a>>)
      <4>1. <<u, a>> = r.wallet /\ row = NewRow(s)
        BY <1>2, <2>1, <3>2, <3>4
      <4> QED BY <1>1, <3>2, <4>1
    <3> QED BY <3>3, <3>4
  <2>4. ASSUME Recorded(a, k) PROVE Recorded(a, k)'
    BY <1>2, <2>1, <2>4 DEF Recorded
  <2>5. ASSUME a = r.wallet[2], k = LedgerKeyOf(r) PROVE Recorded(a, k)'
    <3>1. NewRow(s) \in Entries(<<r.wallet[1], a>>)'
      BY <1>1, <1>2, <2>2, <2>5
    <3> QED BY <1>1, <2>2, <2>5, <3>1 DEF Recorded
  <2> QED BY <2>3, <2>4, <2>5
<1>4. \A w \in Wallet : \A k : Owned(w, k) => Owned(w, k)'
  BY <1>2 DEF Owned
<1>5. \A w \in Wallet : \A k, n : ReservedRow(w, k, n) => ReservedRow(w, k, n)'
  BY <1>2 DEF ReservedRow
<1> QED BY <1>3, <1>4, <1>5

LEMMA CommitKeepsRowsOK ==
    ASSUME IInv, NEW s \in Session, Commit(s), NEW r, r = tx[s].req,
           NEW w, w = r.wallet, NEW new, new = NewRow(s), NEW n, n = Len(ledger[w])
    PROVE  RowsOK'
<1>1. /\ w \in Wallet /\ w[1] \in User /\ w[2] \in App /\ w = <<w[1], w[2]>>
      /\ r.op \in Op /\ r \in Request /\ TransactionOK(s) /\ Busy(s)
      /\ tx[s].pc = "commit"
  BY CommitAdds, BusySession, WalletParts
<1>2. /\ new.kind = r.op /\ new.key = LedgerKeyOf(r) /\ new.amount = tx[s].amount
      /\ new.after = Book!Balance(w) + new.amount
      /\ new \in Book!Row /\ balance' = [balance EXCEPT ![w] = new.after]
      /\ ~ Recorded(w[2], new.key)
  BY CommitAdds
<1>3. /\ \A v \in Wallet \ {w} : ledger'[v] = ledger[v] /\ balance'[v] = balance[v]
      /\ n \in Nat /\ DOMAIN ledger[w] = 1..n
      /\ DOMAIN ledger'[w] = 1..(n + 1)
      /\ \A i \in 1..n : ledger'[w][i] = ledger[w][i]
      /\ ledger'[w][n + 1] = new
      /\ Len(ledger'[w]) = n + 1 /\ ledger'[w] # <<>>
      /\ \A v \in Wallet : Entries(v)' =
            IF v = w THEN Entries(v) \cup {new} ELSE Entries(v)
  BY CommitRows, SMTT(30)
<1>4. LedgerExplainsBalance'
  <2> SUFFICES ASSUME NEW v \in Wallet
               PROVE  /\ balance'[v] = Book!Balance(v)'
                      /\ \A i \in DOMAIN ledger'[v] :
                            ledger'[v][i].after = ledger'[v][i].amount
                               + (IF i = 1 THEN 0 ELSE ledger'[v][i - 1].after)
    BY DEF LedgerExplainsBalance
  <2>1. /\ balance[v] = Book!Balance(v)
        /\ \A i \in DOMAIN ledger[v] :
              ledger[v][i].after = ledger[v][i].amount
                 + (IF i = 1 THEN 0 ELSE ledger[v][i - 1].after)
    BY DEF IInv, RowsOK, LedgerExplainsBalance
  <2>2. CASE v # w
    BY <1>3, <2>1, <2>2 DEF Book!Balance
  <2>3. CASE v = w
    <3>1. balance'[w] = new.after
      BY <1>1, <1>2 DEF IInv, TypeOK
    <3>2. Book!Balance(w)' = new.after
      BY <1>3 DEF Book!Balance
    <3>3. ledger[w] \in Seq(Book!Row)
      BY CommitAdds
    <3>4. Book!Balance(w) = IF n = 0 THEN 0 ELSE ledger[w][n].after
      BY <1>3, <3>3, EmptySeq DEF Book!Balance
    <3>5. ASSUME NEW i \in 1..(n + 1)
          PROVE  ledger'[w][i].after = ledger'[w][i].amount
                    + (IF i = 1 THEN 0 ELSE ledger'[w][i - 1].after)
      <4>1. CASE i \in 1..n
        <5>1. ledger'[w][i] = ledger[w][i]
          BY <1>3, <4>1
        <5>2. i # 1 => ledger'[w][i - 1] = ledger[w][i - 1]
          BY <1>3, <4>1
        <5>3. i \in DOMAIN ledger[v]
          BY <1>3, <2>3, <4>1
        <5>4. ledger[w][i].after =
                 ledger[w][i].amount + (IF i = 1 THEN 0 ELSE ledger[w][i - 1].after)
          BY <2>1, <2>3, <5>3
        <5> QED BY <5>1, <5>2, <5>4
      <4>2. CASE i = n + 1
        <5>1. ledger'[w][i] = new
          BY <1>3, <4>2
        <5>2. i # 1 => n # 0 /\ ledger'[w][i - 1] = ledger[w][n]
          BY <1>3, <4>2, SMTT(30)
        <5>3. i = 1 => n = 0
          BY <1>3, <4>2
        <5>4. Book!Balance(w) \in Int /\ new.amount \in Int
          <6>1. n # 0 => ledger[w][n] \in Book!Row
            BY <1>3, <3>3, ElementOfSeq, SMTT(30)
          <6>2. n # 0 => ledger[w][n].after \in Int
            BY <6>1 DEF Book!Row
          <6>3. new.amount \in Int
            BY <1>2 DEF Book!Row
          <6> QED BY <3>4, <6>2, <6>3
        <5>5. new.after = new.amount + Book!Balance(w)
          BY <1>2, <5>4
        <5>6. CASE i = 1
          BY <3>4, <5>1, <5>3, <5>5, <5>6
        <5>7. CASE i # 1
          BY <3>4, <5>1, <5>2, <5>5, <5>7
        <5> QED BY <5>6, <5>7
      <4> QED BY <1>3, <4>1, <4>2, SMTT(30)
    <3>6. \A i \in DOMAIN ledger'[w] :
             ledger'[w][i].after = ledger'[w][i].amount
                + (IF i = 1 THEN 0 ELSE ledger'[w][i - 1].after)
      <4>1. DOMAIN ledger'[w] = 1..(n + 1)
        BY <1>3
      <4> QED BY <3>5, <4>1
    <3> QED BY <2>3, <3>1, <3>2, <3>6
  <2> QED BY <2>2, <2>3
<1>5. RowsWellFormed'
  <2>1. new.kind = "grant" => new.amount > 0
    BY <1>1, <1>2, RequestParts DEF TransactionOK, Busy
  <2>2. new.kind \in {"usage", "release"} => new.key[1] = new.kind
    BY <1>2 DEF LedgerKeyOf
  <2> QED BY <1>3, <2>1, <2>2 DEF IInv, RowsOK, RowsWellFormed
<1>6. ReservationNeverOverdraws'
  <2>1. new.kind = "reserve" => new.after >= 0
    BY <1>1, <1>2 DEF NewRow, TransactionOK, Holding
  <2> QED BY <1>3, <2>1 DEF IInv, RowsOK, ReservationNeverOverdraws
<1>7. KeyRecordedOnce'
  <2> SUFFICES ASSUME NEW a \in App, NEW u \in User, NEW v \in User,
                      NEW i \in DOMAIN ledger'[<<u, a>>], NEW j \in DOMAIN ledger'[<<v, a>>],
                      ledger'[<<u, a>>][i].key = ledger'[<<v, a>>][j].key
               PROVE  u = v /\ i = j
    BY DEF KeyRecordedOnce
  <2>1. <<u, a>> \in Wallet /\ <<v, a>> \in Wallet
    BY DEF Wallet
  <2>2. ASSUME NEW x \in User, NEW k \in DOMAIN ledger'[<<x, a>>]
        PROVE  \/ <<x, a>> = w /\ k = n + 1 /\ ledger'[<<x, a>>][k] = new
               \/ k \in DOMAIN ledger[<<x, a>>] /\ ledger'[<<x, a>>][k] = ledger[<<x, a>>][k]
    <3>1. <<x, a>> \in Wallet
      BY DEF Wallet
    <3>2. CASE <<x, a>> # w
      BY <1>3, <3>1, <3>2
    <3>3. CASE <<x, a>> = w
      <4>0. k \in 1..(n + 1) /\ n \in Nat
        BY <1>3, <3>3
      <4>1. k = n + 1 \/ k \in 1..n
        BY <4>0
      <4>2. CASE k = n + 1
        BY <1>3, <3>3, <4>2
      <4>3. CASE k \in 1..n
        BY <1>3, <3>3, <4>3
      <4> QED BY <4>1, <4>2, <4>3
    <3> QED BY <3>2, <3>3
  <2>3. ASSUME NEW x \in User, NEW k \in DOMAIN ledger[<<x, a>>], a = w[2]
        PROVE  ledger[<<x, a>>][k].key # new.key
    <3>1. ledger[<<x, a>>][k] \in Entries(<<x, a>>)
      BY DEF Entries, Range
    <3> QED BY <1>2, <2>3, <3>1 DEF Recorded
  <2>4. \A x \in User : <<x, a>> = w => a = w[2] /\ x = w[1]
    BY <1>1
  <2>5. CASE i \in DOMAIN ledger[<<u, a>>] /\ j \in DOMAIN ledger[<<v, a>>]
             /\ ledger'[<<u, a>>][i] = ledger[<<u, a>>][i]
             /\ ledger'[<<v, a>>][j] = ledger[<<v, a>>][j]
    BY <2>5 DEF IInv, RowsOK, KeyRecordedOnce
  <2>6. CASE <<u, a>> = w /\ i = n + 1 /\ ledger'[<<u, a>>][i] = new
    BY <2>2, <2>3, <2>4, <2>6
  <2>7. CASE <<v, a>> = w /\ j = n + 1 /\ ledger'[<<v, a>>][j] = new
    BY <2>2, <2>3, <2>4, <2>7
  <2> QED BY <2>2, <2>5, <2>6, <2>7
<1>8. ReleaseRefundsReservation'
  <2> SUFFICES ASSUME NEW v \in Wallet, NEW i \in DOMAIN ledger'[v],
                      ledger'[v][i].kind = "release"
               PROVE  \E j \in 1..(i - 1) :
                         /\ ledger'[v][j].kind = "reserve"
                         /\ ledger'[v][j].key = <<"raw", ledger'[v][i].key[2]>>
                         /\ ledger'[v][j].amount = - ledger'[v][i].amount
    BY DEF ReleaseRefundsReservation
  <2>1. ASSUME NEW k \in DOMAIN ledger[v], ledger[v][k].kind = "release"
        PROVE  \E j \in 1..(k - 1) : /\ ledger[v][j].kind = "reserve"
                                     /\ ledger[v][j].key = <<"raw", ledger[v][k].key[2]>>
                                     /\ ledger[v][j].amount = - ledger[v][k].amount
    BY <2>1 DEF IInv, RowsOK, ReleaseRefundsReservation
  <2>2. CASE v # w
    <3>1. ledger'[v] = ledger[v]
      BY <1>3, <2>2
    <3> QED BY <2>1, <3>1
  <2>3. CASE v = w /\ i \in 1..n
    <3>0. i \in DOMAIN ledger[v] /\ ledger'[v][i] = ledger[v][i]
      BY <1>3, <2>3
    <3>1. PICK j \in 1..(i - 1) : /\ ledger[v][j].kind = "reserve"
                                 /\ ledger[v][j].key = <<"raw", ledger[v][i].key[2]>>
                                 /\ ledger[v][j].amount = - ledger[v][i].amount
      BY <2>1, <3>0
    <3>2. j \in 1..n
      BY <1>3, <2>3
    <3>3. ledger'[v][j] = ledger[v][j]
      BY <1>3, <2>3, <3>2
    <3> QED BY <3>0, <3>1, <3>3
  <2>4. CASE v = w /\ i = n + 1
    <3>1. r.op = "release" /\ new.key = <<"release", r.key>>
      BY <1>2, <1>3, <2>4, SMTT(30) DEF LedgerKeyOf
    <3>2. PICK row \in Entries(w) : /\ row.kind = "reserve" /\ row.key = <<"raw", r.key>>
                                    /\ row.amount = - new.amount
      BY <1>1, <1>2, <3>1 DEF TransactionOK, Busy, ReservedRow
    <3>3. PICK j \in 1..n : ledger[w][j] = row
      BY <1>3, <3>2 DEF Entries, Range
    <3>4. ledger'[w][j] = row /\ ledger'[w][i] = new /\ j \in 1..(i - 1)
      BY <1>3, <2>4, <3>3
    <3> QED BY <2>4, <3>1, <3>2, <3>4
  <2>5. v = w => i = n + 1 \/ i \in 1..n
    BY <1>3, SMTT(30)
  <2> QED BY <2>2, <2>3, <2>4, <2>5
<1>9. CostEventIffCharged'
  <2> SUFFICES ASSUME NEW a \in App, NEW k \in Key
               PROVE  <<a, k>> \in costEvents' <=> Recorded(a, <<"usage", k>>)'
    BY DEF CostEventIffCharged
  <2>1. <<a, k>> \in costEvents <=> Recorded(a, <<"usage", k>>)
    BY DEF IInv, RowsOK, CostEventIffCharged
  <2>2. Recorded(a, <<"usage", k>>)' <=>
           Recorded(a, <<"usage", k>>) \/ (a = w[2] /\ <<"usage", k>> = LedgerKeyOf(r))
    BY CommitLookups
  <2>3. <<"usage", k>> = LedgerKeyOf(r) <=> r.op = "usage" /\ k = r.key
    BY <1>1 DEF LedgerKeyOf, Op
  <2>4. costEvents' = IF r.op = "usage" THEN costEvents \cup {<<w[2], r.key>>} ELSE costEvents
    BY DEF Commit
  <2> QED BY <2>1, <2>2, <2>3, <2>4
<1> QED BY <1>4, <1>5, <1>6, <1>7, <1>8, <1>9 DEF RowsOK

LEMMA CommitKeepsTransactions ==
    ASSUME IInv, NEW s \in Session, Commit(s), NEW r, r = tx[s].req
    PROVE  TransactionsIsolated' /\ AnswerIsTrue'
<1> DEFINE w == r.wallet
<1>1. /\ w \in Wallet /\ r \in Request /\ TransactionOK(s) /\ Busy(s)
      /\ tx[s].pc = "commit" /\ w[2] \in App
      /\ balance' = [balance EXCEPT ![w] = NewRow(s).after]
  BY CommitAdds, BusySession
<1>2. Holding(s) /\ Inserted(s)
  BY <1>1 DEF Holding, Inserted
<1>3. tx' = [tx EXCEPT ![s] = Ended(r, "ok")] /\ costEvents \subseteq costEvents'
  BY DEF Commit
<1>4. tx'[s] = Ended(r, "ok") /\ \A t \in Session \ {s} : tx'[t] = tx[t]
  BY <1>3 DEF IInv, TypeOK
<1>5. /\ tx'[s].pc = "done" /\ tx'[s].req = r /\ tx'[s].outcome = "ok"
  BY <1>4 DEF Ended
<1>6. TransactionOK(s)'
  BY <1>5 DEF TransactionOK, Holding, Inserted
<1>7. AnswerIsTrueFor(s)'
  <2>1. NewRow(s) \in Entries(w)'
    BY <1>1, CommitRows
  <2>2. NewRow(s).key = LedgerKeyOf(r) /\ NewRow(s).kind = r.op /\ NewRow(s).amount = tx[s].amount
    BY CommitAdds
  <2>3. Owned(w, LedgerKeyOf(r))'
    BY <2>1, <2>2 DEF Owned
  <2>4. r.op = "reserve" => ReservedRow(w, r.key, r.amount)'
    BY <1>1, <2>1, <2>2 DEF ReservedRow, TransactionOK, Busy, LedgerKeyOf
  <2> QED BY <1>5, <2>3, <2>4 DEF AnswerIsTrueFor
<1>8. ASSUME NEW t \in Session \ {s}, NEW q, q = tx[t].req
      PROVE  TransactionOK(t)' /\ AnswerIsTrueFor(t)'
  <2>1. /\ TransactionOK(t) /\ AnswerIsTrueFor(t) /\ LocksExclusive(t, s)
    BY DEF IInv, TransactionsIsolated, AnswerIsTrue
  <2>2. tx'[t] = tx[t] /\ tx'[t].req = q
    BY <1>4, <1>8
  <2>3. tx[t].pc # "idle" => /\ q.wallet \in Wallet /\ q.key \in Key
                             /\ q.wallet[2] \in App
    BY <1>8, RequestParts DEF IInv, TypeOK
  <2>4. Holding(t) => balance'[q.wallet] = balance[q.wallet]
    <3>1. Holding(t) => q.wallet # w /\ q.wallet \in Wallet
      BY <1>2, <1>8, <2>1, <2>3 DEF LocksExclusive, Holding
    <3> QED BY <1>1, <3>1 DEF IInv, TypeOK
  <2>5. Inserted(t) => ~ Recorded(q.wallet[2], LedgerKeyOf(q))'
    <3> SUFFICES ASSUME Inserted(t) PROVE ~ Recorded(q.wallet[2], LedgerKeyOf(q))'
      OBVIOUS
    <3>1. ~ Recorded(q.wallet[2], LedgerKeyOf(q)) /\ q.wallet[2] \in App
      BY <1>8, <2>1, <2>3 DEF TransactionOK, Inserted
    <3>2. q.wallet[2] # w[2] \/ LedgerKeyOf(q) # LedgerKeyOf(r)
      BY <1>2, <1>8, <2>1 DEF LocksExclusive
    <3>3. Recorded(q.wallet[2], LedgerKeyOf(q))' <=>
             \/ Recorded(q.wallet[2], LedgerKeyOf(q))
             \/ q.wallet[2] = r.wallet[2] /\ LedgerKeyOf(q) = LedgerKeyOf(r)
      BY <3>1, CommitLookups
    <3> QED BY <3>1, <3>2, <3>3
  <2>6. tx[t].pc # "idle" /\ ReservedRow(q.wallet, q.key, tx[t].amount)
           => ReservedRow(q.wallet, q.key, tx[t].amount)'
    <3>1. ASSUME NEW m, m = tx[t].amount, tx[t].pc # "idle", ReservedRow(q.wallet, q.key, m)
          PROVE  ReservedRow(q.wallet, q.key, m)'
      BY <2>3, <3>1, CommitLookups
    <3>2. tx'[t].amount = tx[t].amount
      BY <2>2
    <3> QED BY <3>1, <3>2 DEF ReservedRow, Entries
  <2>7. TransactionOK(t)'
    BY <1>3, <1>8, <2>1, <2>2, <2>4, <2>5, <2>6
       DEF TransactionOK, Holding, Inserted
  <2>8. AnswerIsTrueFor(t)'
    <3>1. tx[t].pc # "idle" =>
             /\ Owned(q.wallet, LedgerKeyOf(q)) => Owned(q.wallet, LedgerKeyOf(q))'
             /\ ReservedRow(q.wallet, q.key, q.amount)
                  => ReservedRow(q.wallet, q.key, q.amount)'
      BY <2>3, CommitLookups
    <3>2. tx[t].pc = "idle" => tx[t].outcome \notin {"ok", "replayed"}
      BY DEF IInv, TypeOK
    <3> QED BY <1>8, <2>1, <2>2, <3>1, <3>2 DEF AnswerIsTrueFor
  <2> QED BY <2>7, <2>8
<1>9. ASSUME NEW t \in Session, NEW v \in Session \ {t} PROVE LocksExclusive(t, v)'
  <2>1. LocksExclusive(t, v)
    BY DEF IInv, TransactionsIsolated
  <2>2. CASE t # s /\ v # s
    BY <1>4, <2>1, <2>2 DEF LocksExclusive, Holding, Inserted, LedgerKeyOf
  <2>3. CASE t = s \/ v = s
    BY <1>5, <2>3 DEF LocksExclusive, Holding, Inserted
  <2> QED BY <2>2, <2>3
<1> QED BY <1>6, <1>7, <1>8, <1>9 DEF TransactionsIsolated, AnswerIsTrue

-----------------------------------------------------------------------------
(***************************************************************************)
(* The theorems.                                                           *)
(***************************************************************************)
LEMMA NextIInv ==
    ASSUME IInv, [Next]_vars
    PROVE  IInv'
<1>1. TypeOK'
  BY TypeStep DEF IInv
<1>2. CASE UNCHANGED vars
  <2>1. UNCHANGED Db /\ UNCHANGED tx
    BY <1>2 DEF vars, Db
  <2>2. RowsOK'
    BY <2>1, RowsUnchanged DEF IInv
  <2>3. ASSUME NEW t \in Session PROVE TransactionOK(t)' /\ AnswerIsTrueFor(t)'
    BY <2>1, OthersUnchanged DEF IInv, TransactionsIsolated, AnswerIsTrue
  <2>4. ASSUME NEW t \in Session, NEW v \in Session \ {t} PROVE LocksExclusive(t, v)'
    BY <2>1 DEF IInv, TransactionsIsolated, LocksExclusive, Holding, Inserted, LedgerKeyOf
  <2> QED BY <1>1, <2>2, <2>3, <2>4 DEF IInv, TransactionsIsolated, AnswerIsTrue
<1>3. ASSUME NEW s \in Session, Begin(s) PROVE IInv'
  BY <1>1, <1>3, BeginStep DEF IInv
<1>4. ASSUME NEW s \in Session, Commit(s) PROVE IInv'
  BY <1>1, <1>4, CommitKeepsRowsOK, CommitKeepsTransactions DEF IInv
<1>5. ASSUME NEW s \in Session,
             \/ EnsureWallet(s) \/ Recheck(s) \/ UpdateBalance(s)
             \/ InsertLedger(s) \/ InsertCost(s) \/ Rollback(s)
      PROVE  IInv'
  BY <1>1, <1>5, MoveActions DEF IInv
<1> QED BY <1>2, <1>3, <1>4, <1>5 DEF Next, Statement

LEMMA Invariance == Spec => []IInv
  BY InitIInv, NextIInv, PTL DEF Spec

\* The balance of a wallet is always what its ledger says, row by row, however
\* the statements of concurrent transactions interleave.
THEOREM BalanceIsExplained == Spec => []LedgerExplainsBalance
<1>1. IInv => LedgerExplainsBalance
  BY DEF IInv, RowsOK
<1> QED BY <1>1, Invariance, PTL

\* No idempotency key is recorded twice in a product.
THEOREM KeysAreUnique == Spec => []KeyRecordedOnce
<1>1. IInv => KeyRecordedOnce
  BY DEF IInv, RowsOK
<1> QED BY <1>1, Invariance, PTL

\* Fixed reservations never overdraw a wallet.
THEOREM NoOverdraft == Spec => []ReservationNeverOverdraws
<1>1. IInv => ReservationNeverOverdraws
  BY DEF IInv, RowsOK
<1> QED BY <1>1, Invariance, PTL

\* A release gives back one earlier reservation of the same wallet, exactly.
THEOREM ReleasesAreBacked == Spec => []ReleaseRefundsReservation
<1>1. IInv => ReleaseRefundsReservation
  BY DEF IInv, RowsOK
<1> QED BY <1>1, Invariance, PTL

\* Cost events and usage charges come and stay together.
THEOREM CostsMatchCharges == Spec => []CostEventIffCharged
<1>1. IInv => CostEventIffCharged
  BY DEF IInv, RowsOK
<1> QED BY <1>1, Invariance, PTL

\* No open transaction is disturbed by another one.
THEOREM Isolation == Spec => []TransactionsIsolated
<1>1. IInv => TransactionsIsolated
  BY DEF IInv
<1> QED BY <1>1, Invariance, PTL

\* What a caller was told stays true.
THEOREM AnswersAreTrue == Spec => []AnswerIsTrue
<1>1. IInv => AnswerIsTrue
  BY DEF IInv
<1> QED BY <1>1, Invariance, PTL

\* The transactions implement the atomic book of entries: a commit is one entry
\* of the book, every other statement changes nothing that can be seen.
THEOREM Refinement == Spec => ImplementsBook
<1>1. Init => Book!BookInit
  BY DEF Init, Book!BookInit, Wallet, Book!Wallet
<1>2. ASSUME IInv, [Next]_vars
      PROVE  [Book!BookNext]_Book!bookVars
  <2>1. CASE UNCHANGED <<ledger, costEvents>>
    BY <2>1 DEF Book!bookVars
  <2>2. ASSUME NEW s \in Session, Commit(s), NEW r, r = tx[s].req, NEW w, w = r.wallet,
               NEW m, m = tx[s].amount
        PROVE  Book!BookNext
    <3>1. /\ w \in Wallet /\ r.key \in Key /\ r.op \in Op /\ r \in Request
          /\ TransactionOK(s) /\ Busy(s) /\ tx[s].pc = "commit"
          /\ r.amount \in Amount /\ r.amount \in Int
      BY <1>2, <2>2, CommitAdds, BusySession, RequestParts
    <3>2. /\ w \in Book!Wallet
          /\ \A k : Book!Recorded(w[2], k) <=> Recorded(w[2], k)
          /\ Book!Entries(w) = Entries(w)
      BY <3>1 DEF Wallet, Book!Wallet, Book!Recorded, Recorded, Book!Entries, Entries,
                  Book!Range, Range
    <3>3. /\ ledger' = [ledger EXCEPT ![w] = Append(ledger[w], NewRow(s))]
          /\ NewRow(s) = [kind |-> r.op, key |-> LedgerKeyOf(r), amount |-> m,
                          after |-> Book!Balance(w) + m]
          /\ ~ Recorded(w[2], LedgerKeyOf(r))
      <4>1. NewRow(s).after = Book!Balance(w) + m
        BY <1>2, <2>2, CommitAdds
      <4>2. NewRow(s) = [kind |-> r.op, key |-> LedgerKeyOf(r), amount |-> m,
                         after |-> tx[s].after]
        BY <2>2 DEF NewRow
      <4> QED BY <1>2, <2>2, <4>1, <4>2, CommitAdds
    <3>4. Book!Add(w, r.op, LedgerKeyOf(r), m)
      BY <3>2, <3>3 DEF Book!Add
    <3>5. costEvents' = IF r.op = "usage" THEN costEvents \cup {<<w[2], r.key>>} ELSE costEvents
      BY <2>2 DEF Commit
    <3>6. CASE r.op = "grant"
      <4>1. m = r.amount /\ LedgerKeyOf(r) = <<"raw", r.key>>
        BY <2>2, <3>1, <3>6 DEF TransactionOK, Busy, LedgerKeyOf
      <4>2. Book!Grant(w, r.key, r.amount)
        BY <3>4, <3>5, <3>6, <4>1 DEF Book!Grant
      <4> QED BY <3>1, <3>2, <4>2 DEF Book!BookNext
    <3>7. CASE r.op = "usage"
      <4>1. m = - r.amount /\ LedgerKeyOf(r) = <<"usage", r.key>>
        BY <2>2, <3>1, <3>7 DEF TransactionOK, Busy, LedgerKeyOf
      <4>2. Book!Charge(w, r.key, r.amount)
        BY <3>4, <3>5, <3>7, <4>1 DEF Book!Charge
      <4> QED BY <3>1, <3>2, <4>2 DEF Book!BookNext
    <3>8. CASE r.op = "reserve"
      <4>1. m = - r.amount /\ LedgerKeyOf(r) = <<"raw", r.key>>
        BY <2>2, <3>1, <3>8 DEF TransactionOK, Busy, LedgerKeyOf
      <4>2. balance[w] = Book!Balance(w) /\ balance[w] \in Int
        BY <1>2, <3>1 DEF IInv, RowsOK, LedgerExplainsBalance, TypeOK
      <4>3. tx[s].after >= 0 /\ tx[s].after = balance[w] + m
        BY <2>2, <3>1, <3>8 DEF TransactionOK, Holding
      <4>4. r.amount <= Book!Balance(w)
        BY <3>1, <4>1, <4>2, <4>3
      <4>5. Book!Reserve(w, r.key, r.amount)
        BY <3>4, <3>5, <3>8, <4>1, <4>4 DEF Book!Reserve
      <4> QED BY <3>1, <3>2, <4>5 DEF Book!BookNext
    <3>9. CASE r.op = "release"
      <4>1. /\ LedgerKeyOf(r) = <<"release", r.key>>
            /\ m \in Amount /\ ReservedRow(w, r.key, m)
        BY <2>2, <3>1, <3>9 DEF TransactionOK, Busy, LedgerKeyOf
      <4>2. Book!Release(w, r.key, m)
        BY <3>2, <3>4, <3>5, <3>9, <4>1 DEF Book!Release, ReservedRow
      <4> QED BY <3>1, <3>2, <4>1, <4>2 DEF Book!BookNext
    <3> QED BY <3>1, <3>6, <3>7, <3>8, <3>9 DEF Op
  <2>3. ASSUME NEW s \in Session, ~ Commit(s), Begin(s) \/ Statement(s) \/ Rollback(s)
        PROVE  UNCHANGED <<ledger, costEvents>>
    BY <2>3 DEF Begin, BeginGrant, BeginCharge, BeginReserve, BeginRelease, Statement,
                EnsureWallet, Recheck, UpdateBalance, InsertLedger, InsertCost, Rollback,
                Answer, Start, Goto
  <2> QED BY <1>2, <2>1, <2>2, <2>3 DEF Next, vars
<1> QED BY <1>1, <1>2, Invariance, PTL DEF Spec, ImplementsBook, Book!BookSpec
=============================================================================
