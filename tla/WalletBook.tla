---------------------------- MODULE WalletBook ----------------------------
(***************************************************************************)
(* What the shell wallet of AI4ALL promises, whatever the transactions     *)
(* underneath do: one book of entries per wallet (a person in a product),  *)
(* to which an entry is added in one step, at most once for each           *)
(* idempotency key of the product, carrying the balance it leaves.         *)
(* WalletLedger, the statement-level model of app/db/billing.py, is shown  *)
(* to implement this module.                                               *)
(***************************************************************************)
EXTENDS Integers, Sequences, Functions

CONSTANTS User,    \* people (platform_user_id)
          App,     \* products (app_id)
          Key,     \* idempotency keys the callers choose
          Amount   \* sizes of an entry, in shell micros

VARIABLES ledger,      \* entitlement_ledger: the entries of each wallet, in order
          costEvents   \* cost_events: the <<app, key>> that were charged for

bookVars == <<ledger, costEvents>>
-----------------------------------------------------------------------------
Wallet == User \X App

\* reserve and grant store the caller's key as it is; a usage charge and a
\* release derive theirs from it.
LedgerKey == {"raw", "usage", "release"} \X Key

Row == [kind: {"grant", "usage", "reserve", "release"}, key: LedgerKey,
        amount: Int, after: Int]

Entries(w) == Range(ledger[w])

Recorded(a, k) == \E u \in User : \E row \in Entries(<<u, a>>) : row.key = k

Balance(w) == IF ledger[w] = <<>> THEN 0 ELSE ledger[w][Len(ledger[w])].after

Add(w, kind, k, amount) ==
    /\ ~ Recorded(w[2], k)
    /\ ledger' = [ledger EXCEPT ![w] =
          Append(@, [kind |-> kind, key |-> k, amount |-> amount,
                     after |-> Balance(w) + amount])]
-----------------------------------------------------------------------------
BookInit == /\ ledger = [w \in Wallet |-> <<>>]
            /\ costEvents = {}

Grant(w, k, n) == /\ Add(w, "grant", <<"raw", k>>, n)
                  /\ UNCHANGED costEvents

\* A usage charge may leave a debt; its cost event is written with it.
Charge(w, k, n) == /\ Add(w, "usage", <<"usage", k>>, -n)
                   /\ costEvents' = costEvents \cup {<<w[2], k>>}

\* A reservation never leaves a debt.
Reserve(w, k, n) == /\ n <= Balance(w)
                    /\ Add(w, "reserve", <<"raw", k>>, -n)
                    /\ UNCHANGED costEvents

\* A release gives back what the reservation of the same key took.
Release(w, k, n) == /\ \E row \in Entries(w) : /\ row.kind = "reserve"
                                               /\ row.key = <<"raw", k>>
                                               /\ row.amount = -n
                    /\ Add(w, "release", <<"release", k>>, n)
                    /\ UNCHANGED costEvents

BookNext == \E w \in Wallet, k \in Key, n \in Amount :
               \/ Grant(w, k, n)
               \/ Charge(w, k, n)
               \/ Reserve(w, k, n)
               \/ Release(w, k, n)

BookSpec == BookInit /\ [][BookNext]_bookVars
=============================================================================
