---------------------------- MODULE PlumStream ----------------------------
(***************************************************************************)
(* Paid streaming turns in one Plum conversation: create_turn_stream and   *)
(* cancel_turn_stream of app/products/plum/api/app.py, the generator       *)
(* run_product_turn_stream of app/agent_runtime/turns/service.py they      *)
(* drive with its worker thread, and the rows of runtime_turn_runs by      *)
(* which requests on different nodes see each other.                       *)
(*                                                                         *)
(* A step is one database transaction or one hand-over between threads.    *)
(* The wallet is what WalletLedger shows it to be for its callers: reserve *)
(* and release of a key are atomic, a released key is not reserved again.  *)
(* A finish that repeats the one before it (the generator finishes the run *)
(* and create_turn_stream finishes it again with the same status) finds no *)
(* active run and is not a step of its own.                                *)
(***************************************************************************)
EXTENDS Integers, FiniteSets, Sequences

CONSTANTS Request,    \* POST .../turns/stream, retries included
          Key,        \* idempotency keys
          Message,    \* client message ids
          KeyOf,      \* the key of each request
          MessageOf,  \* the client message id of each request
          Resets,     \* the requests whose text is the command that clears the session
          Funds,      \* turns the user can pay for
          MaxDelta,   \* bound: pieces of text a worker produces
          Faults,     \* what may go wrong: "crash" of a node, "error" of a query
          None        \* no request

ASSUME StreamAssumption ==
    /\ KeyOf \in [Request -> Key]
    /\ MessageOf \in [Request -> Message]
    /\ Resets \subseteq Request
    /\ Funds \in Nat
    /\ MaxDelta \in Nat \ {0}
    /\ Faults \subseteq {"crash", "error"}
    /\ None \notin Request

VARIABLES wallet,   \* the reservation "plum-turn:<conversation>:<key>" of each key
          run,      \* the runtime_turn_runs row of each key
          inbound,  \* client messages stored in messages
          reply,    \* client messages with a stored reply
          quota,    \* the daily-quota reservation of each request
          pc,       \* the next step of each request
          cause,    \* why the generator of a request is being closed
          refunds,  \* runs reclaimed by a request whose reservation it gives back
          worker,   \* the worker thread of each request
          emitted,  \* pieces of text the worker has handed over
          queue,    \* event_queue of each request
          token,    \* CancellationToken of each request is set
          saw       \* the client of the request has been sent text

rows == <<wallet, run, inbound, reply>>
thread == <<worker, emitted, queue>>
vars == <<wallet, run, inbound, reply, quota, pc, cause, refunds,
          worker, emitted, queue, token, saw>>

Terminal == {"completed", "cancelled", "failed", "abandoned"}

NoRun == [status |-> "none", owner |-> None, delta |-> FALSE, cancel |-> FALSE,
          stale |-> FALSE]

Accepted(r) == [status |-> "accepted", owner |-> r, delta |-> FALSE, cancel |-> FALSE,
                stale |-> FALSE]

Active(k) == run[k].status \in {"accepted", "running"}

\* WHERE id = turn_id: the row that request r has inserted.
Mine(r) == run[KeyOf[r]].owner = r

Goto(r, label) == pc' = [pc EXCEPT ![r] = label]
-----------------------------------------------------------------------------
(***************************************************************************)
(* The helpers of app/db/runtime_turn_runs.py and of the wallet.           *)
(***************************************************************************)
\* Variant: without the condition on the status.
FinishRunAnyway(r, status) ==
    run' = IF Mine(r) THEN [run EXCEPT ![KeyOf[r]].status = status] ELSE run

\* finish_runtime_turn_run: WHERE id = ? AND status IN ('accepted', 'running')
FinishRun(r, status) ==
    run' = IF Mine(r) /\ Active(KeyOf[r])
           THEN [run EXCEPT ![KeyOf[r]].status = status]
           ELSE run

\* Variant: without the conditions on status and cancel_requested_at.
CanSpeakAnyway(r) == Mine(r)

\* The row that mark_runtime_turn_first_delta updates is there.
CanSpeak(r) == Mine(r) /\ Active(KeyOf[r]) /\ ~run[KeyOf[r]].cancel

\* release_fixed_shell_reservation; releasing again changes nothing.
Release(keys) ==
    wallet' = [k \in Key |-> IF k \in keys /\ wallet[k] = "reserved"
                             THEN "released"
                             ELSE wallet[k]]

Settle(r, outcome) ==
    quota' = [quota EXCEPT ![r] = IF @ = "held" THEN outcome ELSE @]

\* _finalize_turn logs an error of confirm_daily_quota or rollback_daily_quota and goes on.
SettleOrLog(r, outcome) == Settle(r, outcome) \/ ("error" \in Faults /\ UNCHANGED quota)
-----------------------------------------------------------------------------
(***************************************************************************)
(* create_turn_stream, before the response starts.                         *)
(***************************************************************************)
\* Every run that is 600 seconds old is abandoned, in one transaction.
Reclaim(r) ==
    /\ pc[r] = "new"
    /\ LET old == {k \in Key : Active(k) /\ run[k].stale}
       IN /\ run' = [k \in Key |-> IF k \in old
                                   THEN [run[k] EXCEPT !.status = "abandoned"]
                                   ELSE run[k]]
          /\ refunds' = [refunds EXCEPT ![r] = {k \in old : ~run[k].delta}]
    /\ Goto(r, "refund")
    /\ UNCHANGED <<wallet, inbound, reply, quota, cause, thread, token, saw>>

\* Those that had shown no text are refunded, each in its own transaction.
RefundReclaimed(r) ==
    /\ pc[r] = "refund"
    /\ Release(refunds[r])
    /\ refunds' = [refunds EXCEPT ![r] = {}]
    /\ Goto(r, "lookup")
    /\ UNCHANGED <<run, inbound, reply, quota, cause, thread, token, saw>>

\* A run of the same key: its stored reply is sent again, or the request refused.
Lookup(r) ==
    /\ pc[r] = "lookup"
    /\ \/ /\ run[KeyOf[r]].status = "none"
          /\ Goto(r, "reserve")
       \/ /\ run[KeyOf[r]].status = "completed"
          /\ MessageOf[r] \in reply
          /\ Goto(r, "replayed")
       \/ /\ run[KeyOf[r]].status # "none"
          /\ run[KeyOf[r]].status # "completed" \/ MessageOf[r] \notin reply
          /\ Goto(r, "refused")
    /\ UNCHANGED <<rows, quota, cause, refunds, thread, token, saw>>

\* reserve_fixed_shells replays a reservation that exists, refuses one that has been
\* released, and a new one that the balance does not cover.
Reserve(r) ==
    /\ pc[r] = "reserve"
    /\ LET paid == {k \in Key : wallet[k] = "reserved"}
       IN \/ /\ wallet[KeyOf[r]] = "none"
             /\ Cardinality(paid) < Funds
             /\ wallet' = [wallet EXCEPT ![KeyOf[r]] = "reserved"]
             /\ Goto(r, "create")
          \/ /\ KeyOf[r] \in paid
             /\ Goto(r, "create")
             /\ UNCHANGED wallet
          \/ /\ KeyOf[r] \notin paid
             /\ wallet[KeyOf[r]] = "released" \/ Cardinality(paid) >= Funds
             /\ Goto(r, "refused")
             /\ UNCHANGED wallet
    /\ UNCHANGED <<run, inbound, reply, quota, cause, refunds, thread, token, saw>>

\* A query fails before the run is inserted, and nothing catches it: refunds that are
\* not made yet are lost.
OpeningFails(r) ==
    /\ "error" \in Faults
    /\ pc[r] \in {"refund", "lookup", "reserve"}
    /\ refunds' = [refunds EXCEPT ![r] = {}]
    /\ Goto(r, "refused")
    /\ UNCHANGED <<rows, quota, cause, thread, token, saw>>

\* Variant: without the unique index on active sessions.
CreateBesideActive(r) ==
    /\ pc[r] = "create"
    /\ run[KeyOf[r]].status = "none"
    /\ run' = [run EXCEPT ![KeyOf[r]] = Accepted(r)]
    /\ Goto(r, "opened")
    /\ UNCHANGED <<wallet, inbound, reply, quota, cause, refunds, thread, token, saw>>

\* INSERT INTO runtime_turn_runs under two unique indexes: one row per key, one
\* active row per session.
Create(r) ==
    /\ pc[r] = "create"
    /\ \/ /\ run[KeyOf[r]].status = "none"
          /\ \A k \in Key : ~Active(k)
          /\ run' = [run EXCEPT ![KeyOf[r]] = Accepted(r)]
          /\ Goto(r, "opened")
       \/ /\ \/ run[KeyOf[r]].status # "none"
             \/ \E k \in Key : Active(k)
          /\ Goto(r, "recheck")
          /\ UNCHANGED run
    /\ UNCHANGED <<wallet, inbound, reply, quota, cause, refunds, thread, token, saw>>

\* The INSERT, or reading the row of the key after it, fails.
CreateFails(r) ==
    /\ "error" \in Faults
    /\ pc[r] \in {"create", "recheck"}
    /\ \/ UNCHANGED run
       \/ /\ pc[r] = "create"
          /\ run[KeyOf[r]].status = "none"
          /\ \A k \in Key : ~Active(k)
          /\ run' = [run EXCEPT ![KeyOf[r]] = Accepted(r)]
    /\ Goto(r, "abort")
    /\ UNCHANGED <<wallet, inbound, reply, quota, cause, refunds, thread, token, saw>>

\* After the violation: a row of the same key is a conflict, otherwise another turn of
\* the conversation is active and the reservation is given back.
Recheck(r) ==
    /\ pc[r] = "recheck"
    /\ Goto(r, IF run[KeyOf[r]].status = "none" THEN "giveback" ELSE "refused")
    /\ UNCHANGED <<rows, quota, cause, refunds, thread, token, saw>>

\* Variant: the reservation is kept when the run could not be created.
AbortKeeps(r) ==
    /\ pc[r] = "abort"
    /\ FinishRun(r, "failed")
    /\ Goto(r, "refused")
    /\ UNCHANGED <<wallet, inbound, reply, quota, cause, refunds, thread, token, saw>>

Abort(r) ==
    /\ pc[r] = "abort"
    /\ FinishRun(r, "failed")
    /\ Goto(r, "giveback")
    /\ UNCHANGED <<wallet, inbound, reply, quota, cause, refunds, thread, token, saw>>

GiveBack(r) ==
    /\ pc[r] = "giveback"
    /\ Release({KeyOf[r]})
    /\ Goto(r, "turnedaway")
    /\ UNCHANGED <<run, inbound, reply, quota, cause, refunds, thread, token, saw>>

\* A query of the last steps of a request fails, and nothing comes after it: the run may
\* stay active and the reservation taken.
BreaksOff(r) ==
    /\ "error" \in Faults
    /\ pc[r] \in {"abort", "giveback", "finally", "lastrefund"}
    /\ Goto(r, "broken")
    /\ UNCHANGED <<rows, quota, cause, refunds, thread, token, saw>>
-----------------------------------------------------------------------------
(***************************************************************************)
(* The generator.                                                          *)
(***************************************************************************)
\* The client has left before the response starts: the generator never runs.
Vanish(r) ==
    /\ pc[r] = "opened"
    /\ Goto(r, "gone")
    /\ UNCHANGED <<rows, quota, cause, refunds, thread, token, saw>>

\* Guards of the account and _prepare_turn refuse the turn, or it is the answered
\* message again, or the row is no longer accepted; otherwise turn.accepted is sent.
Accept(r) ==
    /\ pc[r] = "opened"
    /\ \/ Goto(r, "fail")
       \/ /\ MessageOf[r] \notin reply
          /\ run[KeyOf[r]].status = "accepted"
          /\ Goto(r, "accepted")
    /\ UNCHANGED <<rows, quota, cause, refunds, thread, token, saw>>

\* _persist_and_screen_inbound: the message is stored and a message of the day reserved
\* in one transaction.
Persist(r) ==
    /\ pc[r] = "accepted"
    /\ \/ /\ MessageOf[r] \in inbound
          /\ Goto(r, "fail")
          /\ UNCHANGED <<inbound, quota>>
       \/ /\ MessageOf[r] \notin inbound
          /\ inbound' = inbound \cup {MessageOf[r]}
          /\ \/ /\ quota' = [quota EXCEPT ![r] = "held"]
                /\ Goto(r, "stored")
             \/ /\ UNCHANGED quota
                /\ Goto(r, "fail")
    /\ UNCHANGED <<wallet, run, reply, cause, refunds, thread, token, saw>>

\* mark_runtime_turn_running, whose result is not looked at, and the worker starts.
MarkRunning(r) ==
    /\ pc[r] = "stored"
    /\ run' = IF Mine(r) /\ run[KeyOf[r]].status = "accepted"
              THEN [run EXCEPT ![KeyOf[r]] = [@ EXCEPT !.status = "running", !.stale = FALSE]]
              ELSE run
    /\ worker' = [worker EXCEPT ![r] = IF r \in Resets THEN "clearing" ELSE "working"]
    /\ Goto(r, "streaming")
    /\ UNCHANGED <<wallet, inbound, reply, quota, cause, refunds, emitted, queue, token, saw>>

\* A query of these phases fails: the exception reaches create_turn_stream.
SetupFails(r) ==
    /\ "error" \in Faults
    /\ pc[r] \in {"opened", "accepted", "stored"}
    /\ Goto(r, "fail")
    /\ UNCHANGED <<rows, quota, cause, refunds, thread, token, saw>>

\* event_queue.get()
Dequeue(r) ==
    /\ pc[r] = "streaming"
    /\ queue[r] # <<>>
    /\ queue' = [queue EXCEPT ![r] = Tail(@)]
    /\ LET item == Head(queue[r])
       IN \/ /\ item = "delta"
             /\ saw' = [saw EXCEPT ![r] = TRUE]
             /\ Goto(r, "yielded")
             /\ UNCHANGED <<quota, cause>>
          \/ /\ item \in {"result", "notice", "apology"}
             /\ Goto(r, item)
             /\ UNCHANGED <<quota, cause, saw>>
          \/ /\ item = "cancelled"
             /\ cause' = [cause EXCEPT ![r] = "cancelled"]
             /\ Goto(r, "cleanup")
             /\ UNCHANGED <<quota, saw>>
          \/ /\ item = "failed"
             /\ Settle(r, "returned")
             /\ Goto(r, "fail")
             /\ UNCHANGED <<cause, saw>>
    /\ UNCHANGED <<rows, refunds, worker, emitted, token>>

\* After a failure of the worker, rollback_daily_quota or finishing the run fails.
VerdictFails(r) ==
    /\ "error" \in Faults
    /\ pc[r] = "streaming"
    /\ queue[r] # <<>> /\ Head(queue[r]) = "failed"
    /\ queue' = [queue EXCEPT ![r] = Tail(@)]
    /\ Settle(r, "returned") \/ UNCHANGED quota
    /\ cause' = [cause EXCEPT ![r] = "raised"]
    /\ Goto(r, "cleanup")
    /\ UNCHANGED <<rows, refunds, worker, emitted, token, saw>>

Resume(r) ==
    /\ pc[r] = "yielded"
    /\ Goto(r, "streaming")
    /\ UNCHANGED <<rows, quota, cause, refunds, thread, token, saw>>

\* The client is gone: the response stops asking, which closes both generators where
\* they are.  Before the inbound message is stored there is nothing to clean up.
Disconnect(r) ==
    /\ pc[r] \in {"accepted", "yielded"}
    /\ cause' = [cause EXCEPT ![r] = "disconnected"]
    /\ token' = [token EXCEPT ![r] = TRUE]
    /\ Goto(r, IF pc[r] = "accepted" THEN "finally" ELSE "cleanup")
    /\ UNCHANGED <<rows, quota, refunds, thread, saw>>

\* Only a reply of the model uses up a message of the day.
Counted(r) == IF pc[r] = "result" THEN "counted" ELSE "returned"

\* _finalize_turn: the reply is stored, whether it is the model's, a fixed notice (the
\* message was blocked, or is a command) or the apology for a failed generation.
Finalize(r) ==
    /\ pc[r] \in {"result", "notice", "apology"}
    /\ reply' = reply \cup {MessageOf[r]}
    /\ SettleOrLog(r, Counted(r))
    /\ Goto(r, IF pc[r] = "apology" THEN "fail" ELSE "complete")
    /\ UNCHANGED <<wallet, run, inbound, cause, refunds, thread, token, saw>>

\* It fails before the reply is stored or after it, or finishing the run fails.
FinalizeFails(r) ==
    /\ "error" \in Faults
    /\ pc[r] \in {"result", "notice", "apology"}
    /\ \/ UNCHANGED <<reply, quota>>
       \/ /\ reply' = reply \cup {MessageOf[r]}
          /\ SettleOrLog(r, Counted(r))
    /\ cause' = [cause EXCEPT ![r] = "raised"]
    /\ Goto(r, "cleanup")
    /\ UNCHANGED <<wallet, run, inbound, refunds, thread, token, saw>>

Complete(r) ==
    /\ pc[r] = "complete"
    /\ FinishRun(r, "completed")
    /\ Goto(r, "settle")
    /\ UNCHANGED <<wallet, inbound, reply, quota, cause, refunds, thread, token, saw>>

\* create_turn_stream finishes the run once more and sends turn.completed; if that
\* query fails it does what it does after any exception, but one that fails later finds
\* the turn settled: the client is told turn.failed and the coins are kept.
SendCompleted(r) ==
    /\ pc[r] = "settle"
    /\ \E end \in {"completed"} \cup
           IF "error" \in Faults THEN {"fail", "misreported", "broken"} ELSE {} : Goto(r, end)
    /\ UNCHANGED <<rows, quota, cause, refunds, thread, token, saw>>

\* Variant: the message of the day is used up although nothing was sent.
CleanupCounts(r) ==
    /\ pc[r] = "cleanup"
    /\ token' = [token EXCEPT ![r] = TRUE]
    /\ reply' = IF saw[r] THEN reply \cup {MessageOf[r]} ELSE reply
    /\ Settle(r, "counted")
    /\ Goto(r, "withdraw")
    /\ UNCHANGED <<wallet, run, inbound, cause, refunds, thread, saw>>

\* The generator's finally block: text that was sent is stored as a partial reply.
Cleanup(r) ==
    /\ pc[r] = "cleanup"
    /\ token' = [token EXCEPT ![r] = TRUE]
    /\ reply' = IF saw[r] THEN reply \cup {MessageOf[r]} ELSE reply
    /\ IF saw[r] THEN SettleOrLog(r, "counted") ELSE Settle(r, "returned")
    /\ Goto(r, "withdraw")
    /\ UNCHANGED <<wallet, run, inbound, cause, refunds, thread, saw>>

\* An exception of it reaches create_turn_stream, unless the client is gone.
CleanupFails(r) ==
    /\ "error" \in Faults
    /\ pc[r] = "cleanup"
    /\ token' = [token EXCEPT ![r] = TRUE]
    /\ \/ UNCHANGED <<reply, quota>>
       \/ /\ saw[r]
          /\ reply' = reply \cup {MessageOf[r]}
          /\ SettleOrLog(r, "counted")
    /\ cause' = [cause EXCEPT ![r] = IF @ = "disconnected" THEN @ ELSE "raised"]
    /\ Goto(r, IF cause[r] = "disconnected" THEN "finally" ELSE "fail")
    /\ UNCHANGED <<wallet, run, inbound, refunds, thread, saw>>

\* At last it finishes the run as cancelled.  After an exception the handler runs next;
\* a turn cancelled by request is told so, with a refund if it has shown nothing.
Withdraw(r) ==
    /\ pc[r] = "withdraw"
    /\ FinishRun(r, "cancelled")
    /\ Goto(r, CASE cause[r] = "raised"       -> "fail"
                 [] cause[r] = "disconnected" -> "finally"
                 [] OTHER                     -> IF saw[r] THEN "cancelled" ELSE "unpaid")
    /\ UNCHANGED <<wallet, inbound, reply, quota, cause, refunds, thread, token, saw>>

\* Finishing the run fails, or touch_conversation before the turn is settled; _wallet
\* fails after it, and the client is told turn.failed, or not even that.
WithdrawFails(r) ==
    /\ "error" \in Faults
    /\ pc[r] = "withdraw"
    /\ \/ /\ UNCHANGED run
          /\ Goto(r, IF cause[r] = "disconnected" THEN "finally" ELSE "fail")
       \/ /\ cause[r] = "cancelled"
          /\ FinishRun(r, "cancelled")
          /\ \E end \in {"fail"} \cup IF saw[r] THEN {"misreported", "broken"} ELSE {} :
                 Goto(r, end)
    /\ UNCHANGED <<wallet, inbound, reply, quota, cause, refunds, thread, token, saw>>

Fail(r) ==
    /\ pc[r] = "fail"
    /\ FinishRun(r, "failed")
    /\ token' = [token EXCEPT ![r] = TRUE]
    /\ Goto(r, "repay")
    /\ UNCHANGED <<wallet, inbound, reply, quota, cause, refunds, thread, saw>>

\* Every failed turn, and a cancelled one that has shown nothing, is refunded; _wallet
\* may fail after it.
Refund(r) ==
    /\ pc[r] \in {"repay", "unpaid"}
    /\ Release({KeyOf[r]})
    /\ \E end \in {IF pc[r] = "repay" THEN "failed" ELSE "cancelled"} \cup
           IF "error" \in Faults THEN {"failed", "broken"} ELSE {} : Goto(r, end)
    /\ UNCHANGED <<run, inbound, reply, quota, cause, refunds, thread, token, saw>>

\* When a query of these two fails, the handler tries them once more, and is left by the
\* exception when they fail again.
RefundFails(r) ==
    /\ "error" \in Faults
    /\ pc[r] \in {"fail", "repay", "unpaid"}
    /\ token' = [token EXCEPT ![r] = TRUE]
    /\ Goto(r, IF pc[r] = "unpaid" THEN "fail" ELSE "finally")
    /\ UNCHANGED <<rows, quota, cause, refunds, thread, saw>>

\* The finally block of create_turn_stream, for a turn that is not settled: its client
\* is gone, or is left without an answer.
Departed(r) == IF cause[r] = "disconnected" THEN "cancelled" ELSE "broken"

Finally(r) ==
    /\ pc[r] = "finally"
    /\ FinishRun(r, "cancelled")
    /\ Goto(r, IF saw[r] THEN Departed(r) ELSE "lastrefund")
    /\ UNCHANGED <<wallet, inbound, reply, quota, cause, refunds, thread, token, saw>>

LastRefund(r) ==
    /\ pc[r] = "lastrefund"
    /\ Release({KeyOf[r]})
    /\ Goto(r, Departed(r))
    /\ UNCHANGED <<run, inbound, reply, quota, cause, refunds, thread, token, saw>>
-----------------------------------------------------------------------------
(***************************************************************************)
(* The worker thread.                                                      *)
(***************************************************************************)
\* clear_session_messages deletes what the session has stored, other turns' included.
ClearSession(r) ==
    /\ worker[r] = "clearing"
    /\ inbound' = {}
    /\ reply' = {}
    /\ worker' = [worker EXCEPT ![r] = "working"]
    /\ UNCHANGED <<wallet, run, quota, pc, cause, refunds, emitted, queue, token, saw>>

\* _VisibleTextBuffer and enqueue_text find the token unset.  The row is looked at
\* every 0.1 s only, so a request to cancel may go unnoticed here.
WorkerChecks(r) ==
    /\ worker[r] = "working"
    /\ ~token[r]
    /\ emitted[r] < MaxDelta
    /\ worker' = [worker EXCEPT ![r] = "checked"]
    /\ UNCHANGED <<rows, quota, pc, cause, refunds, emitted, queue, token, saw>>

\* mark_runtime_turn_first_delta lets the text through to the queue.
Emit(r) ==
    /\ worker[r] = "checked"
    /\ CanSpeak(r)
    /\ run' = [run EXCEPT ![KeyOf[r]] = [@ EXCEPT !.delta = TRUE, !.stale = FALSE]]
    /\ emitted' = [emitted EXCEPT ![r] = @ + 1]
    /\ queue' = [queue EXCEPT ![r] = Append(@, "delta")]
    /\ worker' = [worker EXCEPT ![r] = "working"]
    /\ UNCHANGED <<wallet, inbound, reply, quota, pc, cause, refunds, token, saw>>

\* Variant: the worker returns without telling the queue.
WorkerStopsSilently(r) ==
    /\ \/ worker[r] = "checked" /\ ~CanSpeak(r)
       \/ worker[r] = "working" /\ token[r]
    /\ token' = [token EXCEPT ![r] = TRUE]
    /\ worker' = [worker EXCEPT ![r] = "stopped"]
    /\ UNCHANGED <<rows, quota, pc, cause, refunds, emitted, queue, saw>>

\* The row refuses, or the token or the row says that the turn is cancelled.
WorkerStops(r) ==
    /\ \/ worker[r] = "checked" /\ ~CanSpeak(r)
       \/ worker[r] = "working" /\ token[r]
       \/ worker[r] = "working" /\ Mine(r) /\ Active(KeyOf[r]) /\ run[KeyOf[r]].cancel
    /\ token' = [token EXCEPT ![r] = TRUE]
    /\ queue' = [queue EXCEPT ![r] = Append(@, "cancelled")]
    /\ worker' = [worker EXCEPT ![r] = "stopped"]
    /\ UNCHANGED <<rows, quota, pc, cause, refunds, emitted, saw>>

\* A reply is never empty, so some of it has been handed over; a notice stands for the
\* reply to a blocked message or a command, an apology for a reply that could not be
\* generated; moderation or an exception ends the turn.
WorkerEnds(r) ==
    /\ worker[r] \in {"clearing", "working"}
    /\ \E item \in {"result", "notice", "apology", "failed"} :
          /\ worker[r] = "clearing" => item = "failed"
          /\ r \in Resets => item \in {"notice", "failed"}
          /\ item # "failed" => emitted[r] > 0
          /\ queue' = [queue EXCEPT ![r] = Append(@, item)]
    /\ worker' = [worker EXCEPT ![r] = "stopped"]
    /\ UNCHANGED <<rows, quota, pc, cause, refunds, emitted, token, saw>>
-----------------------------------------------------------------------------
(***************************************************************************)
(* cancel_turn_stream, time and crashes.                                   *)
(***************************************************************************)
RequestCancel(k) ==
    /\ Active(k)
    /\ run' = [run EXCEPT ![k] = [@ EXCEPT !.cancel = TRUE, !.stale = FALSE]]
    /\ UNCHANGED <<wallet, inbound, reply, quota, pc, cause, refunds, thread, token, saw>>

\* 600 seconds have passed since updated_at.
Age(k) ==
    /\ Active(k)
    /\ ~run[k].stale
    /\ run' = [run EXCEPT ![k].stale = TRUE]
    /\ UNCHANGED <<wallet, inbound, reply, quota, pc, cause, refunds, thread, token, saw>>

\* The ends of a request: "turnedaway" has given the reservation of its key back,
\* "misreported" was paid and is said to have failed, "broken" was left by an exception.
Over == {"refused", "turnedaway", "replayed", "completed", "cancelled", "failed",
         "misreported", "broken", "gone", "crashed"}

\* The node of the request stops, and its worker with it.
Crash(r) ==
    /\ "crash" \in Faults
    /\ pc[r] \notin Over \cup {"new"}
    /\ Goto(r, "crashed")
    /\ worker' = [worker EXCEPT ![r] = "stopped"]
    /\ queue' = [queue EXCEPT ![r] = <<>>]
    /\ refunds' = [refunds EXCEPT ![r] = {}]
    /\ UNCHANGED <<rows, quota, cause, emitted, token, saw>>
-----------------------------------------------------------------------------
Init == /\ wallet = [k \in Key |-> "none"]
        /\ run = [k \in Key |-> NoRun]
        /\ inbound = {}
        /\ reply = {}
        /\ quota = [r \in Request |-> "none"]
        /\ pc = [r \in Request |-> "new"]
        /\ cause = [r \in Request |-> "none"]
        /\ refunds = [r \in Request |-> {}]
        /\ worker = [r \in Request |-> "idle"]
        /\ emitted = [r \in Request |-> 0]
        /\ queue = [r \in Request |-> <<>>]
        /\ token = [r \in Request |-> FALSE]
        /\ saw = [r \in Request |-> FALSE]

\* What the request's own thread does of itself.
Opening(r) == \/ Reclaim(r)
              \/ RefundReclaimed(r)
              \/ Lookup(r)
              \/ Reserve(r)
              \/ Create(r)
              \/ Recheck(r)
              \/ Abort(r)
              \/ GiveBack(r)

Streaming(r) == \/ Accept(r)
                \/ Persist(r)
                \/ MarkRunning(r)
                \/ Dequeue(r)
                \/ Resume(r)
                \/ Finalize(r)
                \/ Complete(r)
                \/ SendCompleted(r)
                \/ Cleanup(r)
                \/ Withdraw(r)
                \/ Fail(r)
                \/ Refund(r)
                \/ Finally(r)
                \/ LastRefund(r)

Working(r) == \/ ClearSession(r)
              \/ WorkerChecks(r)
              \/ Emit(r)
              \/ WorkerStops(r)
              \/ WorkerEnds(r)

Failing(r) == \/ OpeningFails(r)
              \/ CreateFails(r)
              \/ BreaksOff(r)
              \/ SetupFails(r)
              \/ VerdictFails(r)
              \/ FinalizeFails(r)
              \/ CleanupFails(r)
              \/ WithdrawFails(r)
              \/ RefundFails(r)
              \/ Crash(r)

Next == \/ \E r \in Request : \/ Opening(r)
                              \/ Streaming(r)
                              \/ Working(r)
                              \/ Failing(r)
                              \/ Vanish(r)
                              \/ Disconnect(r)
        \/ \E k \in Key : RequestCancel(k) \/ Age(k)

Spec == Init /\ [][Next]_vars

\* A request that has been received is carried on by its node, and a worker by its
\* thread: the language model's answer ends, by itself or at its timeout.
Fairness == \A r \in Request : /\ WF_vars(Opening(r) \/ Streaming(r))
                               /\ WF_vars(Working(r))

FairSpec == Spec /\ Fairness
-----------------------------------------------------------------------------
(***************************************************************************)
(* Properties.                                                             *)
(***************************************************************************)
Label == Over \cup
    {"new", "refund", "lookup", "reserve", "create", "recheck", "abort", "giveback",
     "opened", "accepted", "stored", "streaming", "yielded", "result", "notice", "apology",
     "complete", "settle", "cleanup", "withdraw", "fail", "repay", "unpaid", "finally",
     "lastrefund"}

Item == {"delta", "result", "notice", "apology", "cancelled", "failed"}

RunType == [status : Terminal \cup {"none", "accepted", "running"},
            owner : Request \cup {None}, delta : BOOLEAN, cancel : BOOLEAN,
            stale : BOOLEAN]

\* The type invariant.
TypeOK == /\ wallet \in [Key -> {"none", "reserved", "released"}]
          /\ run \in [Key -> RunType]
          /\ inbound \subseteq Message
          /\ reply \subseteq Message
          /\ quota \in [Request -> {"none", "held", "counted", "returned"}]
          /\ pc \in [Request -> Label]
          /\ cause \in [Request -> {"none", "cancelled", "disconnected", "raised"}]
          /\ refunds \in [Request -> SUBSET Key]
          /\ worker \in [Request -> {"idle", "clearing", "working", "checked", "stopped"}]
          /\ emitted \in [Request -> 0 .. MaxDelta]
          /\ queue \in [Request -> Seq(Item)]
          /\ token \in [Request -> BOOLEAN]
          /\ saw \in [Request -> BOOLEAN]

\* Between its reservation and its end a request is responsible for the reservation.
Responsible(r) == pc[r] \notin Over \cup {"new", "refund", "lookup", "reserve"}

\* A request that found another turn active, or could not insert its run, has given
\* the reservation of its key back, whosever it is.
GivenAway(k) == \E r \in Request : KeyOf[r] = k /\ pc[r] = "turnedaway"

\* However a turn ended and whatever raced with it (reclaim, a retry, an exception),
\* its user never pays for text that was not sent: the reservation of a turn that
\* failed has been released, that of one that was completed or cancelled is kept
\* only if text was sent.
PaidMeansServed ==
    \A r \in Request : Mine(r) /\ wallet[KeyOf[r]] = "reserved" =>
        /\ pc[r] # "failed"
        /\ pc[r] \in {"completed", "cancelled", "misreported"} => saw[r]

\* Nor does anybody get text for nothing: a turn that was reclaimed as unseen stays
\* unseen, although its stream may be alive and about to speak; after text has been sent
\* only a turn that has failed is refunded, or one whose retry gave the key's coins away.
RefundedMeansUnseen ==
    \A r \in Request :
        Mine(r) /\ saw[r] /\ wallet[KeyOf[r]] = "released" =>
            pc[r] \in {"failed", "broken"} \/ GivenAway(KeyOf[r])

\* No reservation is left behind: while there is no run of the key, some request
\* that will create or release it is under way, or was stopped there by a crash or by
\* an error of its last query.
NoOrphanReservation ==
    \A k \in Key : wallet[k] = "reserved" /\ run[k].status = "none" =>
        \E r \in Request :
            KeyOf[r] = k /\ (Responsible(r) \/ pc[r] \in {"crashed", "broken"})

\* The turns of a conversation are told one after the other: a second one is not
\* accepted while the row of the first is active.
OneActiveTurn == Cardinality({k \in Key : Active(k)}) <= 1

\* What holds of the rows and the streams at any time.
StreamIsSound == TypeOK /\ OneActiveTurn

\* The outcome of a turn is decided once: a stream that ends late does not overwrite
\* the row that another request has abandoned, nor a late reclaim its outcome.
OutcomeIsFinal ==
    [][ \A k \in Key : run[k].status \in Terminal => run'[k].status = run[k].status ]_vars

\* What a client is told by turn.completed, and the tests of the stream assert: a turn
\* that was completed has been charged, unless a retry of it gave the coins away.
CompletedIsCharged ==
    \A r \in Request :
        pc[r] = "completed" => wallet[KeyOf[r]] = "reserved" \/ GivenAway(KeyOf[r])

\* Nobody loses a message of the day to a turn that sent nothing or was not paid for,
\* unless a step of the turn itself fails; and no completed turn keeps its reservation
\* of the day, unless settling it failed.
CountedIsPaid ==
    \A r \in Request :
        /\ quota[r] = "counted" => saw[r]
        /\ pc[r] \in {"completed", "cancelled", "misreported"} /\ quota[r] = "counted"
           => wallet[KeyOf[r]] = "reserved" \/ GivenAway(KeyOf[r])
        /\ pc[r] = "completed" /\ quota[r] = "held" => "error" \in Faults

\* What a client is told of coins and of messages of the day is what happened.
ToldIsTrue == CompletedIsCharged /\ CountedIsPaid

\* A turn has deleted what the session had stored (or has died when it could have).
Cleared == \E r \in Resets : worker[r] \in {"working", "checked", "stopped"}

\* A client message is paid for once, with however many keys it is sent, at the same
\* time or after a fault, as long as no turn has cleared the session.
Paid(r) == /\ pc[r] \in {"completed", "cancelled", "misreported"}
           /\ Mine(r)
           /\ wallet[KeyOf[r]] = "reserved"

MessagePaidOnce ==
    \A r, o \in Request :
        Paid(r) /\ Paid(o) /\ MessageOf[r] = MessageOf[o] => r = o \/ Cleared

\* Coins are paid for words that were sent, once for a message, and words are
\* sent for coins.
CoinsBuyWords == PaidMeansServed /\ RefundedMeansUnseen /\ MessagePaidOnce

\* What _reclaim_stale_stream_runs promises: once a turn has been abandoned and no
\* request is busy with it, coins for text nobody has seen are back.
UnseenIsRefunded ==
    \A r \in Request :
        /\ Mine(r) /\ run[KeyOf[r]].status = "abandoned"
        /\ pc[r] \in Over /\ ~saw[r]
        /\ \A o \in Request : KeyOf[r] \notin refunds[o]
        => wallet[KeyOf[r]] = "released"

\* Every stream comes to an end, whatever is cancelled, reclaimed or raised meanwhile.
EveryStreamEnds == \A r \in Request : pc[r] # "new" ~> pc[r] \in Over
=============================================================================
