--------------------------- MODULE WalletLedger ---------------------------
(***************************************************************************)
(* The shell wallet of app/db/billing.py, one statement at a time.  Every  *)
(* operation is one PostgreSQL transaction at READ COMMITTED, opened by    *)
(* app/db/_core.py connect(): it commits at the end, and rolls back on any *)
(* exception.  A Session is a pooled connection running one operation.     *)
(*                                                                         *)
(* What PostgreSQL contributes is modelled by what it does: a SELECT sees  *)
(* the committed rows (and the session's own), an UPDATE waits for the row *)
(* lock another open transaction holds and then works on the latest row, an *)
(* INSERT waits for an open transaction that inserted the same unique key  *)
(* and fails when that one commits.                                        *)
(***************************************************************************)
EXTENDS Integers, Sequences, Functions

CONSTANTS User,     \* people (platform_user_id)
          App,      \* products (app_id)
          Key,      \* idempotency keys the callers choose
          Amount,   \* sizes of an entry, in shell micros
          Session,  \* pooled database connections
          Request,  \* the calls that may be made, any number of times each
          NoRequest \* the request of a session that has had none

VARIABLES wallets,     \* entitlement_wallets: the wallets that have a row
          balance,     \* balance_shell_micros of each wallet
          ledger,      \* entitlement_ledger: rows of each wallet, in commit order
          costEvents,  \* cost_events: the charged <<app, key>>
          tx           \* the transaction of each session

vars == <<wallets, balance, ledger, costEvents, tx>>

Book == INSTANCE WalletBook WITH ledger <- ledger, costEvents <- costEvents

Wallet == User \X App

Op == {"grant", "usage", "reserve", "release"}

RequestType == [op: Op, wallet: Wallet, key: Key, amount: Amount]

ASSUME WalletAssumption ==
    /\ Amount \subseteq Nat \ {0}
    /\ Request \subseteq RequestType
    /\ NoRequest \notin RequestType
-----------------------------------------------------------------------------
(***************************************************************************)
(* Rows and keys.                                                          *)
(***************************************************************************)
\* Variant: a prefix of its own for the key of a charge.
LedgerKeyOfPrefixed(r) ==
    <<IF r.op = "usage" THEN "charge" ELSE IF r.op = "release" THEN r.op ELSE "raw",
      r.key>>

LedgerKeyOf(r) ==
    <<IF r.op \in {"grant", "reserve"} THEN "raw" ELSE r.op, r.key>>

Entries(w) == Range(ledger[w])

\* SELECT ... FROM entitlement_ledger WHERE app_id = ? AND idempotency_key = ?
Recorded(a, k) == \E u \in User : \E row \in Entries(<<u, a>>) : row.key = k

\* The row found belongs to the caller (the owner checks of the replay paths).
Owned(w, k) == \E row \in Entries(w) : row.key = k

\* Variant: without the owner columns of the SELECT.
ReservedRowOfAnyone(w, k, n) ==
    \E u \in User : \E row \in Entries(<<u, w[2]>>) :
       row.kind = "reserve" /\ row.key = <<"raw", k>> /\ row.amount = -n

ReservedRow(w, k, n) == \E row \in Entries(w) : /\ row.kind = "reserve"
                                                /\ row.key = <<"raw", k>>
                                                /\ row.amount = -n
-----------------------------------------------------------------------------
(***************************************************************************)
(* Transactions.  pc is the next statement, amount what it adds to the     *)
(* balance, after the balance its UPDATE left, creating the wallet rows it *)
(* has inserted, outcome what the caller was told.                         *)
(***************************************************************************)
NoTx == [pc |-> "idle", req |-> NoRequest, amount |-> 0, after |-> 0,
         creating |-> {}, outcome |-> "none"]

Started(r, n) == [pc |-> "ensure", req |-> r, amount |-> n, after |-> 0,
                  creating |-> {}, outcome |-> "none"]

\* Variant: the connection goes back to the pool without a rollback.
EndedOpen(r, o) == [pc |-> "done", req |-> r, amount |-> 0, after |-> 0,
                    creating |-> {r.wallet}, outcome |-> o]

Ended(r, o) == [pc |-> "done", req |-> r, amount |-> 0, after |-> 0,
                creating |-> {}, outcome |-> o]

Answer(s, r, o) == /\ tx' = [tx EXCEPT ![s] = Ended(r, o)]
                   /\ UNCHANGED <<wallets, balance, ledger, costEvents>>

Start(s, r, n) == /\ tx' = [tx EXCEPT ![s] = Started(r, n)]
                  /\ UNCHANGED <<wallets, balance, ledger, costEvents>>

\* From the UPDATE to the end of the transaction the row lock is held.
Holding(s) == tx[s].pc \in {"ledger", "cost", "commit"}

\* The row is inserted and not yet committed.
Inserted(s) == tx[s].pc \in {"cost", "commit"}

LockedByOther(s, w) == \E t \in Session \ {s} : Holding(t) /\ tx[t].req.wallet = w

CreatingByOther(s, w) ==
    \E t \in Session \ {s} : w \in tx[t].creating

\* An open transaction has inserted the same ledger key of the same product.
KeyPendingByOther(s) ==
    \E t \in Session \ {s} : /\ Inserted(t)
                             /\ tx[t].req.wallet[2] = tx[s].req.wallet[2]
                             /\ LedgerKeyOf(tx[t].req) = LedgerKeyOf(tx[s].req)

Free(s) == tx[s].pc \in {"idle", "done"}
-----------------------------------------------------------------------------
(***************************************************************************)
(* The first statements of each operation: has this key been seen?         *)
(***************************************************************************)
\* grant_shells, and every other credit through _apply_wallet_ledger_in_conn.
BeginGrant(s, r) ==
    /\ Free(s) /\ r.op = "grant"
    /\ \/ /\ ~ Recorded(r.wallet[2], LedgerKeyOf(r))
          /\ Start(s, r, r.amount)
       \/ /\ Owned(r.wallet, LedgerKeyOf(r))
          /\ Answer(s, r, "replayed")
       \/ /\ Recorded(r.wallet[2], LedgerKeyOf(r))
          /\ ~ Owned(r.wallet, LedgerKeyOf(r))
          /\ Answer(s, r, "mismatch")

\* record_chat_usage_charge and record_image_understanding_charge look for the
\* cost event, not for the ledger row.
BeginCharge(s, r) ==
    /\ Free(s) /\ r.op = "usage"
    /\ \/ /\ <<r.wallet[2], r.key>> \notin costEvents
          /\ Start(s, r, -r.amount)
       \/ /\ <<r.wallet[2], r.key>> \in costEvents
          /\ Answer(s, r, IF Owned(r.wallet, LedgerKeyOf(r))
                          THEN "replayed" ELSE "mismatch")

\* Variant: a replay is recognised by its key alone.
BeginReserveByKey(s, r) ==
    /\ Free(s) /\ r.op = "reserve"
    /\ IF Recorded(r.wallet[2], LedgerKeyOf(r))
       THEN Answer(s, r, "replayed")
       ELSE Start(s, r, -r.amount)

\* reserve_fixed_shells: a replay must match in owner and amount, and fails
\* when the reservation has been released.
BeginReserve(s, r) ==
    /\ Free(s) /\ r.op = "reserve"
    /\ \/ /\ ~ Recorded(r.wallet[2], LedgerKeyOf(r))
          /\ Start(s, r, -r.amount)
       \/ /\ Recorded(r.wallet[2], LedgerKeyOf(r))
          /\ ~ \E row \in Entries(r.wallet) : /\ row.key = LedgerKeyOf(r)
                                              /\ row.amount = -r.amount
          /\ Answer(s, r, "mismatch")
       \/ /\ \E row \in Entries(r.wallet) : /\ row.key = LedgerKeyOf(r)
                                            /\ row.amount = -r.amount
          /\ Answer(s, r, IF Recorded(r.wallet[2], <<"release", r.key>>)
                          THEN "released" ELSE "replayed")

\* release_fixed_shell_reservation: the amount is the reservation's.
BeginRelease(s, r) ==
    /\ Free(s) /\ r.op = "release"
    /\ \/ /\ ~ \E n \in Amount : ReservedRow(r.wallet, r.key, n)
          /\ Answer(s, r, "not_found")
       \/ \E n \in Amount :
             /\ ReservedRow(r.wallet, r.key, n)
             /\ \/ /\ ~ Recorded(r.wallet[2], LedgerKeyOf(r))
                   /\ Start(s, r, n)
                \/ /\ Recorded(r.wallet[2], LedgerKeyOf(r))
                   /\ Answer(s, r, IF Owned(r.wallet, LedgerKeyOf(r))
                                   THEN "replayed" ELSE "mismatch")
-----------------------------------------------------------------------------
(***************************************************************************)
(* The statements that follow.                                             *)
(***************************************************************************)
Goto(s, pc) == /\ tx' = [tx EXCEPT ![s].pc = pc]
               /\ UNCHANGED <<wallets, balance, ledger, costEvents>>

\* _ensure_wallet_in_conn: INSERT ... ON CONFLICT DO NOTHING waits for another
\* transaction that is creating the same wallet.
EnsureWallet(s) ==
    /\ tx[s].pc = "ensure"
    /\ ~ CreatingByOther(s, tx[s].req.wallet)
    /\ tx' = [tx EXCEPT ![s] = [@ EXCEPT
          !.creating = {tx[s].req.wallet} \ wallets,
          !.pc = IF tx[s].req.op = "usage" THEN "recheck" ELSE "update"]]
    /\ UNCHANGED <<wallets, balance, ledger, costEvents>>

\* A charge looks for its ledger row only inside _apply_wallet_ledger_in_conn.
\* When another charge of the same key has committed meanwhile, it skips the
\* balance and fails at the unique index of cost_events.
Recheck(s) ==
    /\ tx[s].pc = "recheck"
    /\ \/ /\ ~ Recorded(tx[s].req.wallet[2], LedgerKeyOf(tx[s].req))
          /\ Goto(s, "update")
       \/ /\ Recorded(tx[s].req.wallet[2], LedgerKeyOf(tx[s].req))
          /\ IF Owned(tx[s].req.wallet, LedgerKeyOf(tx[s].req))
             THEN Goto(s, "costonly")
             ELSE Answer(s, tx[s].req, "mismatch")

\* Variant: the balance is read before the lock is taken, and overwritten.
UpdateBalanceUnlocked(s) ==
    /\ tx[s].pc = "update"
    /\ tx[s].req.op = "reserve" => tx[s].req.amount <= balance[tx[s].req.wallet]
    /\ tx' = [tx EXCEPT ![s] = [@ EXCEPT
          !.after = balance[tx[s].req.wallet] + tx[s].amount, !.pc = "ledger"]]
    /\ UNCHANGED <<wallets, balance, ledger, costEvents>>

\* Variant: without AND balance_shell_micros >= ? in the WHERE clause.
UpdateBalanceUnguarded(s) ==
    /\ tx[s].pc = "update"
    /\ ~ LockedByOther(s, tx[s].req.wallet)
    /\ tx' = [tx EXCEPT ![s] = [@ EXCEPT
          !.after = balance[tx[s].req.wallet] + tx[s].amount, !.pc = "ledger"]]
    /\ UNCHANGED <<wallets, balance, ledger, costEvents>>

\* UPDATE entitlement_wallets SET balance = balance + ?, and the SELECT of the
\* balance it left.  A reservation updates only a wallet that holds enough.
UpdateBalance(s) ==
    /\ tx[s].pc = "update"
    /\ ~ LockedByOther(s, tx[s].req.wallet)
    /\ \/ /\ tx[s].req.op = "reserve" => tx[s].req.amount <= balance[tx[s].req.wallet]
          /\ tx' = [tx EXCEPT ![s] = [@ EXCEPT
                !.after = balance[tx[s].req.wallet] + tx[s].amount, !.pc = "ledger"]]
          /\ UNCHANGED <<wallets, balance, ledger, costEvents>>
       \/ /\ tx[s].req.op = "reserve"
          /\ balance[tx[s].req.wallet] < tx[s].req.amount
          /\ Answer(s, tx[s].req, "insufficient")

\* Variant: no unique index, the key is checked only at the start.
InsertLedgerUnchecked(s) ==
    /\ tx[s].pc = "ledger"
    /\ Goto(s, IF tx[s].req.op = "usage" THEN "cost" ELSE "commit")

\* INSERT INTO entitlement_ledger: UNIQUE(app_id, idempotency_key) makes the
\* loser of a race fail, and connect() roll its balance change back.
InsertLedger(s) ==
    /\ tx[s].pc = "ledger"
    /\ ~ KeyPendingByOther(s)
    /\ \/ /\ Recorded(tx[s].req.wallet[2], LedgerKeyOf(tx[s].req))
          /\ Answer(s, tx[s].req, "duplicate")
       \/ /\ ~ Recorded(tx[s].req.wallet[2], LedgerKeyOf(tx[s].req))
          /\ Goto(s, IF tx[s].req.op = "usage" THEN "cost" ELSE "commit")

\* INSERT INTO cost_events, UNIQUE(app_id, idempotency_key).
InsertCost(s) ==
    /\ tx[s].pc \in {"cost", "costonly"}
    /\ IF <<tx[s].req.wallet[2], tx[s].req.key>> \in costEvents
       THEN Answer(s, tx[s].req, "duplicate")
       ELSE Goto(s, IF tx[s].pc = "cost" THEN "commit" ELSE "commitcost")

NewRow(s) == [kind |-> tx[s].req.op, key |-> LedgerKeyOf(tx[s].req),
              amount |-> tx[s].amount, after |-> tx[s].after]

\* Variant: the cost event is written after the commit, by a later transaction.
CommitCostLater(s) ==
    /\ tx[s].pc = "commit"
    /\ wallets' = wallets \cup tx[s].creating
    /\ balance' = [balance EXCEPT ![tx[s].req.wallet] = tx[s].after]
    /\ ledger' = [ledger EXCEPT ![tx[s].req.wallet] = Append(@, NewRow(s))]
    /\ tx' = [tx EXCEPT ![s] = Ended(tx[s].req, "ok")]
    /\ UNCHANGED costEvents

\* connect(): conn.commit() makes all of the transaction visible at once.
Commit(s) ==
    /\ tx[s].pc \in {"commit", "commitcost"}
    /\ LET w == tx[s].req.wallet
       IN /\ wallets' = wallets \cup tx[s].creating
          /\ IF tx[s].pc = "commit"
             THEN /\ balance' = [balance EXCEPT ![w] = tx[s].after]
                  /\ ledger' = [ledger EXCEPT ![w] = Append(@, NewRow(s))]
             ELSE UNCHANGED <<balance, ledger>>
          /\ costEvents' = IF tx[s].req.op = "usage"
                           THEN costEvents \cup {<<w[2], tx[s].req.key>>}
                           ELSE costEvents
          /\ tx' = [tx EXCEPT ![s] = Ended(tx[s].req, "ok")]

\* An exception, a lost connection or a crash of the process before the commit:
\* the transaction leaves nothing behind.
Rollback(s) ==
    /\ ~ Free(s)
    /\ Answer(s, tx[s].req, "failed")
-----------------------------------------------------------------------------
Init == /\ wallets = {}
        /\ balance = [w \in Wallet |-> 0]
        /\ ledger = [w \in Wallet |-> <<>>]
        /\ costEvents = {}
        /\ tx = [s \in Session |-> NoTx]

Begin(s) == \E r \in Request : \/ BeginGrant(s, r)
                               \/ BeginCharge(s, r)
                               \/ BeginReserve(s, r)
                               \/ BeginRelease(s, r)

Statement(s) == \/ EnsureWallet(s)
                \/ Recheck(s)
                \/ UpdateBalance(s)
                \/ InsertLedger(s)
                \/ InsertCost(s)
                \/ Commit(s)

Next == \E s \in Session : Begin(s) \/ Statement(s) \/ Rollback(s)

Spec == Init /\ [][Next]_vars

\* A transaction keeps executing its statements; PostgreSQL queues the waiters
\* of a lock, so a session that waits again and again is served in the end.
Fairness == \A s \in Session : SF_vars(Statement(s))

FairSpec == Spec /\ Fairness
-----------------------------------------------------------------------------
(***************************************************************************)
(* Properties.                                                             *)
(***************************************************************************)
PC == {"idle", "ensure", "recheck", "update", "ledger", "cost", "costonly",
       "commit", "commitcost", "done"}

Outcome == {"none", "ok", "replayed", "mismatch", "released", "not_found",
            "insufficient", "duplicate", "failed"}

TxType == [pc: PC, req: Request \cup {NoRequest}, amount: Int, after: Int,
           creating: SUBSET Wallet, outcome: Outcome]

\* The type invariant.
TypeOK == /\ wallets \subseteq Wallet
          /\ balance \in [Wallet -> Int]
          /\ ledger \in [Wallet -> Seq(Book!Row)]
          /\ costEvents \subseteq App \X Key
          /\ tx \in [Session -> TxType]
          /\ \A s \in Session : IF tx[s].pc = "idle" THEN tx[s].outcome = "none"
                                                  ELSE tx[s].req \in Request

\* Every ledger row carries the balance the previous row of the wallet left plus
\* its own amount, and the wallet's balance is what its last row says: no
\* interleaving of transactions loses or doubles a change of the balance
\* (_apply_wallet_ledger_in_conn reads balance_after in a statement of its own).
LedgerExplainsBalance ==
    \A w \in Wallet :
       /\ balance[w] = Book!Balance(w)
       /\ \A i \in DOMAIN ledger[w] :
             ledger[w][i].after =
                ledger[w][i].amount + (IF i = 1 THEN 0 ELSE ledger[w][i - 1].after)

\* An idempotency key of a product is in at most one row, whichever of its
\* wallets the row is in, however often and from wherever the call is retried.
KeyRecordedOnce ==
    \A a \in App, u, v \in User :
       \A i \in DOMAIN ledger[<<u, a>>], j \in DOMAIN ledger[<<v, a>>] :
          ledger[<<u, a>>][i].key = ledger[<<v, a>>][j].key => u = v /\ i = j

\* reserve_fixed_shells: concurrent reservations never take the balance below zero,
\* even next to usage charges, which may.
ReservationNeverOverdraws ==
    \A w \in Wallet : \A row \in Entries(w) :
       row.kind = "reserve" => row.after >= 0

\* release_fixed_shell_reservation gives back only what a reservation of the same
\* wallet took before, and all of it.
ReleaseRefundsReservation ==
    \A w \in Wallet : \A i \in DOMAIN ledger[w] :
       ledger[w][i].kind = "release" =>
          \E j \in 1..(i - 1) : /\ ledger[w][j].kind = "reserve"
                                /\ ledger[w][j].key = <<"raw", ledger[w][i].key[2]>>
                                /\ ledger[w][j].amount = - ledger[w][i].amount

\* A cost event is there exactly when the wallet was charged for it.
CostEventIffCharged ==
    \A a \in App, k \in Key : <<a, k>> \in costEvents <=> Recorded(a, <<"usage", k>>)

\* A caller that was told its call succeeded, now or in an earlier attempt, finds
\* the entry of that call in its own wallet; one whose reservation was replayed
\* finds it with the amount it asked for.
AnswerIsTrueFor(s) ==
    LET r == tx[s].req
    IN tx[s].outcome \in {"ok", "replayed"} =>
          /\ Owned(r.wallet, LedgerKeyOf(r))
          /\ r.op = "reserve" => ReservedRow(r.wallet, r.key, r.amount)

AnswerIsTrue == \A s \in Session : AnswerIsTrueFor(s)

\* What an open transaction relies on while others run: the balance it has read
\* stays the one it updated, its key stays free once inserted, the reservation
\* it releases stays there, and nobody else holds its row or its key.
TransactionOK(s) ==
    LET r == tx[s].req
    IN /\ tx[s].pc \notin {"idle", "done"} =>
             /\ tx[s].outcome = "none"
             /\ r.op = "grant" => tx[s].amount = r.amount
             /\ r.op \in {"usage", "reserve"} => tx[s].amount = - r.amount
             /\ r.op = "release" => /\ tx[s].amount \in Amount
                                    /\ ReservedRow(r.wallet, r.key, tx[s].amount)
       /\ Holding(s) => /\ tx[s].after = balance[r.wallet] + tx[s].amount
                        /\ r.op = "reserve" => tx[s].after >= 0
       /\ Inserted(s) => ~ Recorded(r.wallet[2], LedgerKeyOf(r))
       /\ tx[s].pc \in {"recheck", "cost", "costonly"} => r.op = "usage"
       /\ tx[s].pc = "costonly" => <<r.wallet[2], r.key>> \in costEvents
       /\ tx[s].pc # "commitcost"

LocksExclusive(s, t) ==
    /\ Holding(s) /\ Holding(t) => tx[s].req.wallet # tx[t].req.wallet
    /\ Inserted(s) /\ Inserted(t) =>
          \/ tx[s].req.wallet[2] # tx[t].req.wallet[2]
          \/ LedgerKeyOf(tx[s].req) # LedgerKeyOf(tx[t].req)

TransactionsIsolated ==
    \A s \in Session : /\ TransactionOK(s)
                        /\ \A t \in Session \ {s} : LocksExclusive(s, t)

\* Seen from outside, every operation happens in one step or not at all.
ImplementsBook == Book!BookSpec

\* No operation waits for a lock forever: every call is answered.
EveryCallAnswered ==
    \A s \in Session : tx[s].pc = "ensure" ~> tx[s].pc = "done"
=============================================================================
