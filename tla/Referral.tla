------------------------------ MODULE Referral ------------------------------
(***************************************************************************)
(* Referrals of one inviter in one product (app/db/billing.py): a person   *)
(* registers with the inviter's code, binds an account, writes messages;   *)
(* with the third meaningful one the inviter is rewarded, at once or, when *)
(* the inviter has had too many registrations, after a hold.               *)
(*                                                                         *)
(* Several transactions run at READ COMMITTED.  Each has the rows it has   *)
(* written (own), which others see when it commits, and the locks it       *)
(* takes on the way: the advisory lock of a relationship, the row locks of *)
(* relationships, code and wallet.  PostgreSQL aborts a member of a cycle. *)
(***************************************************************************)
EXTENDS Integers, FiniteSets, Sequences, SequencesExt

CONSTANTS Rel,       \* relationships (one for each invited person)
          Message,   \* inbound messages that pass _is_meaningful_referral_message
          RelOf,     \* the relationship of the writer of each message
          Tx,        \* database connections
          Needed,    \* REFERRAL_QUALIFYING_MESSAGE_COUNT
          SoftLimit, \* REFERRAL_SOFT_REVIEW_REGISTRATION_LIMIT
          Batches    \* bound on the batch releases

ASSUME ReferralAssumption ==
    /\ IsFiniteSet(Rel) /\ IsFiniteSet(Message)
    /\ RelOf \in [Message -> Rel]
    /\ Needed \in Nat /\ SoftLimit \in Nat /\ Batches \in Nat

VARIABLES rel,       \* committed rows of referral_relationships
          rewards,   \* committed referral_reward entries of the wallet's ledger
          hasAccount,\* the inviter has an active account
          told,      \* relationships that a batch has answered it released
          batches,   \* batch releases so far
          tx         \* the transaction of each connection

referralVars == <<rel, rewards, hasAccount, told, batches, tx>>

Row(status) == [status |-> status, review |-> "pending", soft |-> FALSE, hold |-> "none",
                count |-> 0, cands |-> {}, paid |-> FALSE]

Lock == ({"code", "wallet"} \X {"inviter"}) \cup ({"advisory", "row"} \X Rel)

Idle == [op |-> "none", pc |-> "idle", todo |-> <<>>, msg |-> {}, late |-> FALSE,
         own |-> [r \in {} |-> Row("none")], snap |-> Row("none"), locks |-> {},
         credited |-> {}, broken |-> FALSE]
-----------------------------------------------------------------------------
(***************************************************************************)
(* Statements of a transaction.                                            *)
(***************************************************************************)
\* What a SELECT of t returns: its own version of a row, or the committed one.
View(t, r) == IF r \in DOMAIN tx[t].own THEN tx[t].own[r] ELSE rel[r]

Subject(t) == Head(tx[t].todo)

\* The lock that the next statement of t needs.
Wanted(t) ==
    CASE tx[t].pc \in {"lock", "apply"} -> {<<"advisory", Subject(t)>>}
      [] tx[t].pc \in {"insert", "bind", "count", "hold", "pass", "release", "block", "mark"} ->
            {<<"row", Subject(t)>>}
      [] tx[t].pc = "use" -> {<<"code", "inviter">>}
      [] tx[t].pc = "credit" -> {<<"wallet", "inviter">>}
      [] OTHER -> {}

WaitsFor(t, u) == t # u /\ Wanted(t) \cap tx[u].locks # {}

Granted(t) == \A u \in Tx : ~WaitsFor(t, u)

\* t goes on with pc, having written `row` of its subject.
Write(t, row, pc) ==
    tx' = [tx EXCEPT ![t] = [tx[t] EXCEPT !.pc = pc, !.locks = @ \cup Wanted(t),
                 !.own = [r \in DOMAIN @ \cup {Subject(t)} |->
                             IF r = Subject(t) THEN row ELSE @[r]]]]

Go(t, pc) == tx' = [tx EXCEPT ![t] = [tx[t] EXCEPT !.pc = pc, !.locks = @ \cup Wanted(t)]]

\* The subject is dealt with.
Done(t) == tx' = [tx EXCEPT ![t] = [tx[t] EXCEPT !.todo = Tail(@), !.pc =
                      CASE Len(tx[t].todo) > 1 /\ tx[t].op \in {"batch", "retry"} -> "read"
                        [] Len(tx[t].todo) > 1 /\ tx[t].op = "settle" -> "apply"
                        [] Len(tx[t].todo) = 1 /\ tx[t].op = "retry" -> "list"
                        [] Len(tx[t].todo) = 1 /\ tx[t].op # "retry" -> "commit"]]

Committed == <<rel, rewards, hasAccount, told, batches>>
-----------------------------------------------------------------------------
Open(t, op, todo, msg, pc) ==
    /\ tx[t].pc = "idle"
    /\ tx' = [tx EXCEPT ![t] = [Idle EXCEPT !.op = op, !.todo = todo, !.msg = msg, !.pc = pc,
                  !.late = \E r \in Rel : rel[r].hold = "elapsed"]]

\* register_platform_user_with_referral: a first membership with an invite code.
Register(t, r) ==
    /\ rel[r].status = "none"
    /\ \A u \in Tx : tx[u].op = "register" => r \notin Range(tx[u].todo)
    /\ Open(t, "register", <<r>>, {}, "insert")
    /\ UNCHANGED Committed

\* process_referral_message_for_account, once the relationship has been found.
ReceiveMessage(t, m) ==
    /\ rel[RelOf[m]].status # "none"
    /\ Open(t, "message", <<RelOf[m]>>, {m}, "lock")
    /\ UNCHANGED Committed

\* mark_referral_relationship_bound, when the QR code has been scanned: without the
\* advisory lock.
MarkBound(t, r) ==
    /\ rel[r].status = "registered"
    /\ Open(t, "bind", <<r>>, {}, "bind")
    /\ UNCHANGED Committed

Pending == {r \in Rel : rel[r].status = "qualified" /\ rel[r].review = "pending"
                                                   /\ ~rel[r].paid}

\* release_due_referral_rewards
ReleaseDue(t) ==
    /\ batches < Batches
    /\ Pending # {}
    /\ Open(t, "batch", SetToSeq(Pending), {}, "read")
    /\ batches' = batches + 1
    /\ UNCHANGED <<rel, rewards, hasAccount, told>>

\* retry_qualified_referral_rewards_for_user, when the inviter gets an account: the held
\* rewards that are due ...
RetryQualified(t) ==
    /\ ~hasAccount
    /\ hasAccount' = TRUE
    /\ Open(t, "retry", SetToSeq(Pending), {}, IF Pending = {} THEN "list" ELSE "read")
    /\ UNCHANGED <<rel, rewards, told, batches>>

\* ... and then those that have passed and waited for the account.
ListQualified(t) ==
    /\ tx[t].pc = "list"
    /\ LET due == {r \in Rel : /\ View(t, r).status = "qualified"
                               /\ View(t, r).review = "passed"
                               /\ ~View(t, r).paid}
       IN tx' = [tx EXCEPT ![t] = [tx[t] EXCEPT !.op = "settle", !.todo = SetToSeq(due),
                     !.pc = IF due = {} THEN "commit" ELSE "apply"]]
    /\ UNCHANGED Committed
-----------------------------------------------------------------------------
\* INSERT of the relationship, and _mark_referral_soft_review_if_needed_in_conn, which
\* counts what this transaction sees.
InsertRelationship(t) ==
    /\ tx[t].pc = "insert"
    /\ LET seen == Cardinality({r \in Rel : rel[r].status # "none"}) + 1
       IN Write(t, [Row("registered") EXCEPT !.soft = seen > SoftLimit], "use")
    /\ UNCHANGED Committed

\* UPDATE referral_codes SET used_count = used_count + 1
UseCode(t) ==
    /\ tx[t].pc = "use"
    /\ Granted(t)
    /\ Go(t, "commit")
    /\ UNCHANGED Committed

LockRelationship(t) ==
    /\ tx[t].pc = "lock"
    /\ Granted(t)
    /\ Go(t, "bind")
    /\ UNCHANGED Committed

\* _mark_referral_relationship_bound_in_conn: the UPDATE has the status in its WHERE.
Bind(t) ==
    /\ tx[t].pc = "bind"
    /\ LET next == IF tx[t].op = "bind" THEN "commit" ELSE "count"
       IN \/ /\ View(t, Subject(t)).status # "registered"
             /\ tx' = [tx EXCEPT ![t].pc = next]
          \/ /\ View(t, Subject(t)).status = "registered"
             /\ Granted(t)
             /\ Write(t, [View(t, Subject(t)) EXCEPT !.status = "bound"], next)
    /\ UNCHANGED Committed

\* A candidate is added to metadata, count and status follow.
Counting(row, msg) ==
    [row EXCEPT !.cands = @ \cup msg,
                !.count = Cardinality(row.cands \cup msg),
                !.status = IF Cardinality(row.cands \cup msg) >= Needed THEN "qualified"
                           ELSE "bound"]

CountMessage(t) ==
    /\ tx[t].pc = "count"
    /\ LET row == View(t, Subject(t))
       IN \/ /\ row.paid
             /\ tx' = [tx EXCEPT ![t].pc = "commit"]
          \/ /\ ~row.paid
             /\ tx[t].msg \subseteq row.cands
             /\ tx' = [tx EXCEPT ![t].pc = "judge"]
          \/ /\ ~row.paid
             /\ ~(tx[t].msg \subseteq row.cands)
             /\ Granted(t)
             /\ Write(t, Counting(row, tx[t].msg), "judge")
    /\ UNCHANGED Committed

\* With enough messages: a reward under soft review is held, another is passed.
Judge(t) ==
    /\ tx[t].pc = "judge"
    /\ LET row == View(t, Subject(t))
       IN tx' = [tx EXCEPT ![t].pc =
                    CASE row.count < Needed -> "commit"
                      [] row.count >= Needed /\ row.soft /\ row.review = "passed" -> "apply"
                      [] row.count >= Needed /\ row.soft /\ row.review = "pending" -> "hold"
                      [] row.count >= Needed /\ ~row.soft -> "pass"]
    /\ UNCHANGED Committed

\* _ensure_referral_soft_review_hold_in_conn: the hold is set once.
Hold(t) ==
    /\ tx[t].pc = "hold"
    /\ Granted(t)
    /\ LET row == View(t, Subject(t))
       IN Write(t, IF row.paid THEN row
                   ELSE [row EXCEPT !.status = "qualified",
                                    !.hold = IF @ = "none" THEN "running" ELSE @], "read")
    /\ UNCHANGED Committed

\* The review row is there and passed.
Pass(t) ==
    /\ tx[t].pc = "pass"
    /\ Granted(t)
    /\ LET row == View(t, Subject(t))
       IN Write(t, IF row.paid THEN row
                   ELSE [row EXCEPT !.status = "qualified", !.review = "passed"], "apply")
    /\ UNCHANGED Committed

\* now() is the time the transaction started at.
Due(t, row) == /\ ~row.paid /\ row.status = "qualified" /\ row.review = "pending"
               /\ row.soft /\ row.hold = "elapsed" /\ tx[t].late

\* _release_delayed_referral_reward_in_conn reads the row without any lock ...
ReadDelayed(t) ==
    /\ tx[t].pc = "read"
    /\ LET row == View(t, Subject(t))
       IN \/ /\ Due(t, row)
             /\ tx' = [tx EXCEPT ![t] = [tx[t] EXCEPT !.pc = "release", !.snap = row]]
          \/ /\ ~Due(t, row)
             /\ Done(t)
    /\ UNCHANGED Committed

\* ... and writes the metadata it has read, if the row still is pending; whether it was
\* is not looked at.
Release(t) ==
    /\ tx[t].pc = "release"
    /\ Granted(t)
    /\ LET row == View(t, Subject(t))
       IN \/ /\ ~row.paid /\ row.review = "pending"
             /\ Write(t, [row EXCEPT !.review = "passed", !.cands = tx[t].snap.cands,
                                     !.hold = tx[t].snap.hold], "apply")
          \/ /\ row.paid \/ row.review # "pending"
             /\ tx' = [tx EXCEPT ![t].pc = "apply"]
    /\ UNCHANGED Committed

\* _apply_referral_reward_in_conn, after its advisory lock.
Apply(t) ==
    /\ tx[t].pc = "apply"
    /\ Granted(t)
    /\ LET held == tx[t].locks \cup Wanted(t)
           after == [tx[t] EXCEPT !.locks = held]
       IN \/ /\ View(t, Subject(t)).paid
             /\ tx' = [tx EXCEPT ![t] = [after EXCEPT !.pc = "skip"]]
          \/ /\ ~View(t, Subject(t)).paid
             /\ tx' = [tx EXCEPT ![t] = [after EXCEPT !.pc =
                          IF hasAccount THEN "credit" ELSE "block"]]
    /\ UNCHANGED Committed

Skip(t) ==
    /\ tx[t].pc = "skip"
    /\ Done(t)
    /\ UNCHANGED Committed

\* The inviter has no active account: the reward waits as qualified and passed.
BlockReward(t) ==
    /\ tx[t].pc = "block"
    /\ Granted(t)
    /\ LET row == View(t, Subject(t))
       IN Write(t, IF row.paid THEN row
                   ELSE [row EXCEPT !.status = "qualified", !.review = "passed"], "skip")
    /\ UNCHANGED Committed

\* Variant: what has been credited is not marked as rewarded.
CreditUnmarked(t) ==
    /\ tx[t].pc = "credit"
    /\ Granted(t)
    /\ tx' = [tx EXCEPT ![t] = [tx[t] EXCEPT !.pc = "skip", !.locks = @ \cup Wanted(t),
                                         !.credited = @ \cup {Subject(t)}]]
    /\ UNCHANGED Committed

\* _apply_wallet_ledger_in_conn: the row lock of the wallet, an entry under the key of
\* the relationship.
Credit(t) ==
    /\ tx[t].pc = "credit"
    /\ Granted(t)
    /\ tx' = [tx EXCEPT ![t] = [tx[t] EXCEPT !.pc = "mark", !.locks = @ \cup Wanted(t),
                                         !.credited = @ \cup {Subject(t)}]]
    /\ UNCHANGED Committed

MarkRewarded(t) ==
    /\ tx[t].pc = "mark"
    /\ Granted(t)
    /\ Write(t, [View(t, Subject(t)) EXCEPT !.status = "rewarded", !.review = "passed",
                                            !.paid = TRUE], "skip")
    /\ UNCHANGED Committed
-----------------------------------------------------------------------------
\* The end of connect().  PostgreSQL turns the COMMIT of an aborted transaction into a
\* rollback and reports no error.
Commit(t) ==
    /\ tx[t].pc = "commit"
    /\ \/ /\ ~tx[t].broken
          /\ rel' = [r \in Rel |-> View(t, r)]
          /\ rewards' = rewards \cup tx[t].credited
       \/ /\ tx[t].broken
          /\ UNCHANGED <<rel, rewards>>
    /\ told' = IF tx[t].op = "batch" THEN told \cup tx[t].credited ELSE told
    /\ tx' = [tx EXCEPT ![t] = Idle]
    /\ UNCHANGED <<hasAccount, batches>>

\* A cycle of transactions that wait for each other.
Cycle(S) == /\ S # {}
            /\ \A t \in S : \E u \in S : WaitsFor(t, u)
            /\ \A u \in S : \E t \in S : WaitsFor(t, u)

\* PostgreSQL aborts t, which gives up its writes and locks.  A batch swallows the error
\* of one relationship, and those of all the others, and still answers what it credited.
Victim(t) ==
    /\ \E S \in SUBSET Tx : t \in S /\ Cycle(S)
    /\ tx' = [tx EXCEPT ![t] = IF tx[t].op = "batch"
                  THEN [Idle EXCEPT !.op = "batch", !.pc = "commit", !.broken = TRUE,
                                    !.credited = tx[t].credited]
                  ELSE Idle]
    /\ UNCHANGED Committed

\* The days of a hold pass.
Elapse(r) ==
    /\ rel[r].hold = "running"
    /\ \A t \in Tx : r \notin DOMAIN tx[t].own
    /\ rel' = [rel EXCEPT ![r].hold = "elapsed"]
    /\ UNCHANGED <<rewards, hasAccount, told, batches, tx>>

-----------------------------------------------------------------------------
ReferralInit == /\ rel = [r \in Rel |-> Row("none")]
                /\ rewards = {}
                /\ hasAccount \in BOOLEAN
                /\ told = {}
                /\ batches = 0
                /\ tx = [t \in Tx |-> Idle]

Begin(t) == \/ \E r \in Rel : Register(t, r) \/ MarkBound(t, r)
            \/ \E m \in Message : ReceiveMessage(t, m)
            \/ ReleaseDue(t)
            \/ RetryQualified(t)

Step(t) == \/ InsertRelationship(t) \/ UseCode(t)
           \/ LockRelationship(t) \/ Bind(t) \/ CountMessage(t) \/ Judge(t)
           \/ Hold(t) \/ Pass(t) \/ ReadDelayed(t) \/ Release(t)
           \/ Apply(t) \/ Skip(t) \/ BlockReward(t) \/ Credit(t) \/ MarkRewarded(t)
           \/ ListQualified(t) \/ Commit(t)

ReferralNext == \/ \E t \in Tx : Begin(t) \/ Step(t) \/ Victim(t)
                \/ \E r \in Rel : Elapse(r)

ReferralSpec == ReferralInit /\ [][ReferralNext]_referralVars
-----------------------------------------------------------------------------
RowType == [status : {"none", "registered", "bound", "qualified", "rewarded"},
            review : {"pending", "passed"}, soft : BOOLEAN,
            hold : {"none", "running", "elapsed"}, count : 0 .. Cardinality(Message),
            cands : SUBSET Message, paid : BOOLEAN]

\* The type invariant.
ReferralTypeOK == /\ rel \in [Rel -> RowType]
                  /\ rewards \subseteq Rel
                  /\ hasAccount \in BOOLEAN
                  /\ told \subseteq Rel
                  /\ batches \in 0 .. Batches
                  /\ \A t \in Tx : tx[t].locks \subseteq Lock

\* However message handlers, the scan of the QR code, batches, retries and aborted
\* transactions interleave: a reward is in the inviter's ledger exactly when its
\* relationship says so, was earned by enough messages, and under soft review only
\* after the hold.
RewardIsEarned ==
    /\ ReferralTypeOK
    /\ \A r \in Rel :
        /\ r \in rewards <=> rel[r].paid
        /\ rel[r].paid => rel[r].count >= Needed /\ rel[r].status = "rewarded"
        /\ rel[r].paid /\ rel[r].soft => rel[r].hold = "elapsed"

\* What release_due_referral_rewards answers the administrator: each entry it returns is
\* in the ledger.
ReportedIsPaid == told \subseteq rewards
=============================================================================
