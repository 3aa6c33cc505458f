------------------------- MODULE PlumStreamProofs -------------------------
(***************************************************************************)
(* The safety of the paid streams, for every number of requests, keys,     *)
(* messages and pieces of text, however keys are sent again and sessions   *)
(* cleared, and whatever fails.                                            *)
(***************************************************************************)
EXTENDS PlumStream, FiniteSetTheorems, TLAPS

\* Requests that have not tried to insert a row.
Early == {"new", "refund", "lookup", "reserve", "create", "recheck"}

\* Requests whose generator has not begun, and never will when they have ended.
Unopened == Early \cup {"abort", "giveback", "refused", "turnedaway", "replayed"}

\* Requests that ended where they were, before they had a row or after.
Stopped == {"crashed", "broken"}

\* Requests that have asked the wallet for a reservation and been answered.
Charging == Label \ {"new", "refund", "lookup", "reserve", "refused", "replayed", "crashed"}

OneActive == \A j, k \in Key : Active(j) /\ Active(k) => j = k

\* A row, once inserted, is of the request that has inserted it.
RowsAreOwned ==
    /\ \A k \in Key : run[k].status = "none" <=> run[k].owner = None
    /\ \A k \in Key : run[k].owner # None => KeyOf[run[k].owner] = k
    /\ \A r \in Request : Mine(r) => pc[r] \notin Early
    /\ \A r \in Request : pc[r] \notin Unopened \cup Stopped => Mine(r)

ReservationsAreMade ==
    \A r \in Request : pc[r] \in Charging => wallet[KeyOf[r]] # "none"

\* A worker speaks only for a stream, and its row tells that it has.
TextIsRecorded ==
    \A r \in Request :
        /\ pc[r] \in Unopened \cup {"opened", "accepted", "stored"} => worker[r] = "idle"
        /\ worker[r] = "checked" => emitted[r] < MaxDelta
        /\ emitted[r] > 0 => worker[r] # "idle" /\ Mine(r) /\ run[KeyOf[r]].delta
        /\ saw[r] => emitted[r] > 0

\* Text comes before the end of the turn in the queue.
QueueInOrder ==
    \A r \in Request :
        /\ emitted[r] > 0 /\ pc[r] # "crashed" =>
               saw[r] \/ (queue[r] # <<>> /\ Head(queue[r]) = "delta")
        /\ \A i \in 1 .. Len(queue[r]) :
               queue[r][i] \in {"delta", "result", "notice", "apology"} => emitted[r] > 0
        /\ worker[r] # "stopped" => \A i \in 1 .. Len(queue[r]) : queue[r][i] = "delta"

\* What the client has seen when its turn is about to end, and has ended.
EndsAreFair ==
    \A r \in Request :
        /\ pc[r] \in {"result", "notice", "apology", "complete", "settle", "completed",
                      "misreported"} => saw[r]
        /\ pc[r] \in {"unpaid", "lastrefund"} => ~saw[r]
        /\ pc[r] = "cancelled" => saw[r] \/ wallet[KeyOf[r]] = "released"
        /\ pc[r] = "failed" => wallet[KeyOf[r]] = "released"

\* Only runs that were abandoned unseen are given back, and they stay unseen.
ReclaimsAreUnseen ==
    \A r \in Request : \A k \in refunds[r] :
        run[k].status = "abandoned" /\ ~run[k].delta

MessagesAreSettled ==
    \A r \in Request :
        /\ quota[r] = "counted" => saw[r]
        /\ pc[r] \in {"complete", "settle", "completed"} /\ quota[r] = "held"
           => "error" \in Faults
        /\ \/ worker[r] \in {"clearing", "working", "checked"}
           \/ emitted[r] > 0
           \/ pc[r] = "stored"
           => quota[r] # "none"

\* Only one request of a message gets beyond storing it, until something that is stored
\* is deleted.
MessagesAreStoredOnce ==
    /\ \A r \in Request : worker[r] = "clearing" => r \in Resets
    /\ \/ Cleared
       \/ \A r \in Request :
             /\ quota[r] # "none" => MessageOf[r] \in inbound
             /\ \A o \in Request :
                   quota[r] # "none" /\ quota[o] # "none" /\ MessageOf[r] = MessageOf[o]
                   => r = o

\* Coins are back only if a retry gave them away, if the turn has been abandoned unseen
\* and cannot speak any more, or if it has failed, broken off or ended unseen.
Earned(r) == pc[r] \in {"failed", "broken"} \/ (pc[r] \in Over /\ ~saw[r])

ReleasesAreEarned ==
    \A k \in Key : wallet[k] = "released" =>
        \/ GivenAway(k)
        \/ run[k].status = "abandoned" /\ ~run[k].delta
        \/ \E r \in Request : KeyOf[r] = k /\ Mine(r) /\ Earned(r)

IInv == /\ TypeOK
        /\ OneActive
        /\ RowsAreOwned
        /\ ReservationsAreMade
        /\ TextIsRecorded
        /\ QueueInOrder
        /\ EndsAreFair
        /\ ReclaimsAreUnseen
        /\ MessagesAreSettled
        /\ MessagesAreStoredOnce
        /\ ReleasesAreEarned
        /\ NoOrphanReservation
-----------------------------------------------------------------------------
(***************************************************************************)
(* What the steps do to the rows.                                          *)
(***************************************************************************)
\* The steps of a generator, from the start of the response to the end of the turn.
Stream(r) ==
    \/ Vanish(r) \/ Accept(r) \/ Persist(r) \/ MarkRunning(r) \/ SetupFails(r)
    \/ Dequeue(r) \/ VerdictFails(r) \/ Resume(r) \/ Disconnect(r)
    \/ Finalize(r) \/ FinalizeFails(r) \/ Complete(r) \/ SendCompleted(r)
    \/ Cleanup(r) \/ CleanupFails(r) \/ Withdraw(r) \/ WithdrawFails(r) \/ Fail(r)
    \/ Refund(r) \/ RefundFails(r) \/ Finally(r) \/ LastRefund(r)

\* The steps of a request before its response starts, failures of its queries included.
Preparing(r) == Opening(r) \/ OpeningFails(r) \/ CreateFails(r) \/ BreaksOff(r)

\* The labels of a request that has inserted its row, and of one that is not over.
Opened == Label \ (Unopened \cup Stopped)
Open == Opened \ Over

\* A row keeps its owner and what it tells of the text, and an outcome it has.
Kept(k) ==
    /\ run'[k].owner = run[k].owner
    /\ run'[k].delta = run[k].delta
    /\ \/ run'[k].status = run[k].status
       \/ Active(k) /\ run'[k].status \in Terminal \cup {"running"}

LEMMA FinishedRow ==
    ASSUME TypeOK, NEW r \in Request, NEW s \in Terminal, FinishRun(r, s)
    PROVE  run' \in [Key -> RunType] /\ \A k \in Key : Kept(k)
<1>1. run \in [Key -> RunType] /\ KeyOf[r] \in Key
  BY StreamAssumption DEF TypeOK
<1>2. CASE run' = run
  BY <1>1, <1>2 DEF Kept
<1>3. CASE Mine(r) /\ Active(KeyOf[r]) /\ run' = [run EXCEPT ![KeyOf[r]].status = s]
  BY <1>1, <1>3 DEF Kept, RunType, Active
<1> QED BY <1>2, <1>3 DEF FinishRun

LEMMA ReclaimedRow ==
    ASSUME TypeOK, NEW r \in Request, Reclaim(r)
    PROVE  /\ run' \in [Key -> RunType] /\ \A k \in Key : Kept(k)
           /\ refunds' \in [Request -> SUBSET Key]
           /\ \A k \in refunds'[r] : run'[k].status = "abandoned" /\ ~run'[k].delta
           /\ \A o \in Request : o # r => refunds'[o] = refunds[o]
<1> DEFINE old == {k \in Key : Active(k) /\ run[k].stale}
<1>1. /\ run \in [Key -> RunType] /\ refunds \in [Request -> SUBSET Key]
      /\ run' = [k \in Key |-> IF k \in old THEN [run[k] EXCEPT !.status = "abandoned"]
                                            ELSE run[k]]
      /\ refunds' = [refunds EXCEPT ![r] = {k \in old : ~run[k].delta}]
  BY DEF TypeOK, Reclaim
<1>2. ASSUME NEW k \in Key
      PROVE  run'[k] \in RunType /\ Kept(k) /\ (k \in old => run'[k].status = "abandoned")
  <2>1. CASE k \in old
    BY <1>1, <2>1 DEF Kept, RunType, Terminal
  <2>2. CASE k \notin old
    BY <1>1, <2>2 DEF Kept
  <2> QED BY <2>1, <2>2
<1>3. run' \in [Key -> RunType]
  BY <1>1, <1>2
<1> QED BY <1>1, <1>2, <1>3 DEF Kept

LEMMA MarkedRow ==
    ASSUME TypeOK, NEW r \in Request, MarkRunning(r)
    PROVE  run' \in [Key -> RunType] /\ \A k \in Key : Kept(k)
<1>1. run \in [Key -> RunType] /\ KeyOf[r] \in Key
  BY StreamAssumption DEF TypeOK
<1>2. CASE run' = run
  BY <1>1, <1>2 DEF Kept
<1>3. CASE /\ Mine(r) /\ run[KeyOf[r]].status = "accepted"
           /\ run' = [run EXCEPT ![KeyOf[r]] = [@ EXCEPT !.status = "running", !.stale = FALSE]]
  BY <1>1, <1>3 DEF Kept, RunType, Active
<1> QED BY <1>2, <1>3 DEF MarkRunning

LEMMA TouchedRow ==
    ASSUME TypeOK, NEW k \in Key, RequestCancel(k) \/ Age(k)
    PROVE  run' \in [Key -> RunType] /\ \A j \in Key : Kept(j)
<1>1. run \in [Key -> RunType]
  BY DEF TypeOK
<1>2. CASE run' = [run EXCEPT ![k] = [@ EXCEPT !.cancel = TRUE, !.stale = FALSE]]
  BY <1>1, <1>2 DEF Kept, RunType
<1>3. CASE run' = [run EXCEPT ![k].stale = TRUE]
  BY <1>1, <1>3 DEF Kept, RunType
<1> QED BY <1>2, <1>3 DEF RequestCancel, Age

LEMMA InsertedRow ==
    ASSUME TypeOK, NEW r \in Request, Create(r) \/ CreateFails(r)
    PROVE  /\ run' \in [Key -> RunType]
           /\ \/ /\ run' = [run EXCEPT ![KeyOf[r]] = Accepted(r)]
                 /\ run[KeyOf[r]].status = "none"
                 /\ \A k \in Key : ~Active(k)
              \/ UNCHANGED run
<1>1. Accepted(r) \in RunType /\ run \in [Key -> RunType]
  BY DEF Accepted, RunType, TypeOK
<1> QED BY <1>1 DEF Create, CreateFails

LEMMA SpokenRow ==
    ASSUME TypeOK, NEW r \in Request, Emit(r)
    PROVE  /\ run' \in [Key -> RunType]
           /\ \A k \in Key : /\ run'[k].owner = run[k].owner
                             /\ run'[k].status = run[k].status
                             /\ run'[k].delta = IF k = KeyOf[r] THEN TRUE ELSE run[k].delta
           /\ Mine(r) /\ Active(KeyOf[r])
<1>1. run \in [Key -> RunType] /\ KeyOf[r] \in Key
  BY StreamAssumption DEF TypeOK
<1>2. run' = [run EXCEPT ![KeyOf[r]] = [@ EXCEPT !.delta = TRUE, !.stale = FALSE]]
  BY DEF Emit
<1>3. run' \in [Key -> RunType]
  BY <1>1, <1>2 DEF RunType
<1>4. \A k \in Key : /\ run'[k].owner = run[k].owner
                     /\ run'[k].status = run[k].status
                     /\ run'[k].delta = IF k = KeyOf[r] THEN TRUE ELSE run[k].delta
  BY <1>1, <1>2 DEF RunType
<1> QED BY <1>3, <1>4 DEF Emit, CanSpeak

\* A reservation that is released stays released, and none comes into being.
LEMMA ReleasedKeys ==
    ASSUME TypeOK, NEW keys, Release(keys)
    PROVE  /\ wallet' \in [Key -> {"none", "reserved", "released"}]
           /\ \A k \in Key :
                 /\ wallet'[k] = "none" <=> wallet[k] = "none"
                 /\ wallet[k] = "released" => wallet'[k] = "released"
                 /\ k \in keys => wallet'[k] # "reserved"
                 /\ k \notin keys => wallet'[k] = wallet[k]
  BY DEF TypeOK, Release

LEMMA StreamRows ==
    ASSUME TypeOK, NEW r \in Request, Stream(r)
    PROVE  /\ run' \in [Key -> RunType] /\ \A k \in Key : Kept(k)
           /\ UNCHANGED <<refunds, emitted>>
           /\ pc[r] \in Open
           /\ \E l \in Opened \cup {"broken"} : pc' = [pc EXCEPT ![r] = l]
<1>0. UNCHANGED run => run' \in [Key -> RunType] /\ \A k \in Key : Kept(k)
  BY DEF TypeOK, Kept
<1>f. ASSUME NEW s \in Terminal, FinishRun(r, s)
      PROVE  run' \in [Key -> RunType] /\ \A k \in Key : Kept(k)
  BY <1>f, FinishedRow
<1> USE DEF Goto, Open, Opened, Label, Over, Unopened, Early, Stopped
<1>1. CASE Vanish(r) \/ Accept(r)
  BY <1>0, <1>1 DEF Vanish, Accept, rows, thread
<1>2. CASE Persist(r)
  BY <1>0, <1>2 DEF Persist, thread
<1>3. CASE MarkRunning(r)
  BY <1>3, MarkedRow DEF MarkRunning
<1>4. CASE SetupFails(r)
  BY <1>0, <1>4 DEF SetupFails, rows, thread
<1>5. CASE Dequeue(r)
  <2>1. pc[r] = "streaming" /\ UNCHANGED <<run, refunds, emitted>>
    BY <1>5 DEF Dequeue, rows
  <2>2. \E l \in {"yielded", "result", "notice", "apology", "cleanup", "fail"} :
           pc' = [pc EXCEPT ![r] = l]
    BY <1>5 DEF Dequeue
  <2> QED BY <1>0, <2>1, <2>2
<1>6. CASE Resume(r) \/ VerdictFails(r)
  BY <1>0, <1>6 DEF Resume, VerdictFails, rows, thread
<1>7. CASE Disconnect(r)
  <2>1. pc' = [pc EXCEPT ![r] = "finally"] \/ pc' = [pc EXCEPT ![r] = "cleanup"]
    BY <1>7 DEF Disconnect
  <2> QED BY <1>0, <1>7, <2>1 DEF Disconnect, rows, thread
<1>8. CASE Finalize(r)
  BY <1>0, <1>8 DEF Finalize, thread
<1>9. CASE FinalizeFails(r)
  BY <1>0, <1>9 DEF FinalizeFails, thread
<1>10. CASE Complete(r)
  BY <1>f, <1>10 DEF Complete, Terminal, thread
<1>11. CASE SendCompleted(r)
  BY <1>0, <1>11 DEF SendCompleted, rows, thread
<1>12. CASE Cleanup(r)
  BY <1>0, <1>12 DEF Cleanup, thread
<1>13. CASE CleanupFails(r)
  <2>1. pc' = [pc EXCEPT ![r] = "finally"] \/ pc' = [pc EXCEPT ![r] = "fail"]
    BY <1>13 DEF CleanupFails
  <2> QED BY <1>0, <1>13, <2>1 DEF CleanupFails, thread
<1>14. CASE Withdraw(r) \/ WithdrawFails(r)
  <2>1. run' \in [Key -> RunType] /\ \A k \in Key : Kept(k)
    BY <1>0, <1>f, <1>14 DEF Withdraw, WithdrawFails, Terminal
  <2>2. \E l \in {"fail", "finally", "cancelled", "unpaid", "misreported", "broken"} :
           pc' = [pc EXCEPT ![r] = l]
    BY <1>14 DEF Withdraw, WithdrawFails
  <2> QED BY <1>14, <2>1, <2>2 DEF Withdraw, WithdrawFails, thread
<1>15. CASE Fail(r)
  BY <1>f, <1>15 DEF Fail, Terminal, thread
<1>16. CASE Refund(r)
  <2>1. \E l \in {"failed", "cancelled", "broken"} : pc' = [pc EXCEPT ![r] = l]
    BY <1>16 DEF Refund
  <2> QED BY <1>0, <1>16, <2>1 DEF Refund, thread
<1>17. CASE RefundFails(r)
  BY <1>0, <1>17 DEF RefundFails, rows, thread
<1>18. CASE Finally(r)
  <2>1. run' \in [Key -> RunType] /\ \A k \in Key : Kept(k)
    BY <1>f, <1>18 DEF Finally, Terminal
  <2>2. \E l \in {"cancelled", "broken", "lastrefund"} : pc' = [pc EXCEPT ![r] = l]
    BY <1>18 DEF Finally, Departed
  <2> QED BY <1>18, <2>1, <2>2 DEF Finally, thread
<1>19. CASE LastRefund(r)
  <2>1. \E l \in {"cancelled", "broken"} : pc' = [pc EXCEPT ![r] = l]
    BY <1>19 DEF LastRefund, Departed
  <2> QED BY <1>0, <1>19, <2>1 DEF LastRefund, thread
<1> QED BY <1>1, <1>2, <1>3, <1>4, <1>5, <1>6, <1>7, <1>8, <1>9, <1>10, <1>11, <1>12,
           <1>13, <1>14, <1>15, <1>16, <1>17, <1>18, <1>19 DEF Stream

-----------------------------------------------------------------------------
(***************************************************************************)
(* Each conjunct of the invariant is preserved.                            *)
(***************************************************************************)
LEMMA StreamTypes ==
    ASSUME TypeOK, NEW r \in Request, Stream(r)
    PROVE  TypeOK'
<1>1. /\ run' \in [Key -> RunType]
      /\ pc' \in [Request -> Label]
      /\ UNCHANGED <<refunds, emitted>>
  <2>1. Opened \cup {"broken"} \subseteq Label
    BY DEF Opened, Label, Over
  <2> QED BY <2>1, StreamRows DEF TypeOK
<1> DEFINE Rest == /\ wallet' \in [Key -> {"none", "reserved", "released"}]
                   /\ inbound' \subseteq Message /\ reply' \subseteq Message
                   /\ quota' \in [Request -> {"none", "held", "counted", "returned"}]
                   /\ cause' \in [Request -> {"none", "cancelled", "disconnected", "raised"}]
                   /\ worker' \in [Request -> {"idle", "clearing", "working", "checked",
                                               "stopped"}]
                   /\ queue' \in [Request -> Seq(Item)]
                   /\ token' \in [Request -> BOOLEAN]
                   /\ saw' \in [Request -> BOOLEAN]
<1>2. MessageOf[r] \in Message /\ KeyOf[r] \in Key
  BY StreamAssumption
<1>3. CASE Vanish(r) \/ Accept(r) \/ SetupFails(r) \/ Resume(r) \/ SendCompleted(r)
  <2>1. Rest
    BY <1>3 DEF Vanish, Accept, SetupFails, Resume, SendCompleted, rows, thread, TypeOK
  <2> QED BY <1>1, <2>1 DEF TypeOK
<1>4. CASE Persist(r) \/ MarkRunning(r)
  <2>1. Rest
    BY <1>2, <1>4 DEF Persist, MarkRunning, thread, TypeOK
  <2> QED BY <1>1, <2>1 DEF TypeOK
<1>5. CASE Dequeue(r) \/ VerdictFails(r)
  <2>1. queue' \in [Request -> Seq(Item)]
    <3>1. Tail(queue[r]) \in Seq(Item)
      BY <1>5 DEF Dequeue, VerdictFails, TypeOK
    <3> QED BY <1>5, <3>1 DEF Dequeue, VerdictFails, TypeOK
  <2>2. /\ quota' \in [Request -> {"none", "held", "counted", "returned"}]
        /\ cause' \in [Request -> {"none", "cancelled", "disconnected", "raised"}]
        /\ saw' \in [Request -> BOOLEAN]
    BY <1>5 DEF Dequeue, VerdictFails, Settle, TypeOK
  <2>3. UNCHANGED <<wallet, inbound, reply, worker, token>>
    BY <1>5 DEF Dequeue, VerdictFails, rows
  <2> QED BY <1>1, <2>1, <2>2, <2>3 DEF TypeOK
<1>6. CASE Disconnect(r) \/ RefundFails(r)
  <2>1. Rest
    BY <1>6 DEF Disconnect, RefundFails, rows, thread, TypeOK
  <2> QED BY <1>1, <2>1 DEF TypeOK
<1>7. CASE Finalize(r) \/ FinalizeFails(r) \/ Cleanup(r) \/ CleanupFails(r)
  <2>1. quota' \in [Request -> {"none", "held", "counted", "returned"}]
    <3>1. UNCHANGED quota \/ \E o \in {"counted", "returned"} : Settle(r, o)
      BY <1>7 DEF Finalize, FinalizeFails, Cleanup, CleanupFails, SettleOrLog, Counted
    <3> QED BY <3>1 DEF Settle, TypeOK
  <2>2. Rest
    BY <1>2, <1>7, <2>1 DEF Finalize, FinalizeFails, Cleanup, CleanupFails, thread, TypeOK
  <2> QED BY <1>1, <2>2 DEF TypeOK
<1>8. CASE Complete(r) \/ Withdraw(r) \/ WithdrawFails(r) \/ Fail(r) \/ Finally(r)
  <2>1. Rest
    BY <1>8 DEF Complete, Withdraw, WithdrawFails, Fail, Finally, thread, TypeOK
  <2> QED BY <1>1, <2>1 DEF TypeOK
<1>9. CASE Refund(r) \/ LastRefund(r)
  <2>1. Rest
    BY <1>9, ReleasedKeys DEF Refund, LastRefund, thread, TypeOK
  <2> QED BY <1>1, <2>1 DEF TypeOK
<1> QED BY <1>3, <1>4, <1>5, <1>6, <1>7, <1>8, <1>9 DEF Stream

LEMMA TypeStep ==
    ASSUME TypeOK, TextIsRecorded, [Next]_vars
    PROVE  TypeOK'
<1>0. CASE UNCHANGED vars
  BY <1>0 DEF TypeOK, vars, rows, thread
<1>1. ASSUME NEW r \in Request, Reclaim(r)
      PROVE  TypeOK'
  <2>1. run' \in [Key -> RunType] /\ refunds' \in [Request -> SUBSET Key]
    BY <1>1, ReclaimedRow
  <2> QED BY <1>1, <2>1 DEF Reclaim, Goto, thread, TypeOK, Label
<1>2. ASSUME NEW r \in Request, RefundReclaimed(r) \/ GiveBack(r)
      PROVE  TypeOK'
  BY <1>2, ReleasedKeys, ZenonT(60) DEF RefundReclaimed, GiveBack, Goto, thread, TypeOK, Label, Over
<1>3. ASSUME NEW r \in Request, Lookup(r) \/ Recheck(r)
      PROVE  TypeOK'
  BY <1>3, ZenonT(60) DEF Lookup, Recheck, Goto, rows, thread, TypeOK, Label, Over
<1>4. ASSUME NEW r \in Request, Reserve(r)
      PROVE  TypeOK'
  BY <1>4 DEF Reserve, Goto, thread, TypeOK, Label, Over
<1>5. ASSUME NEW r \in Request, Create(r) \/ CreateFails(r)
      PROVE  TypeOK'
  <2>1. run' \in [Key -> RunType]
    BY <1>5, InsertedRow
  <2>2. \E l \in {"opened", "recheck", "abort"} : pc' = [pc EXCEPT ![r] = l]
    BY <1>5 DEF Create, CreateFails, Goto
  <2>3. pc' \in [Request -> Label]
    BY <2>2 DEF TypeOK, Label
  <2> QED BY <1>5, <2>1, <2>3 DEF Create, CreateFails, thread, TypeOK
<1>6. ASSUME NEW r \in Request, Abort(r)
      PROVE  TypeOK'
  <2>1. run' \in [Key -> RunType]
    BY <1>6, FinishedRow DEF Abort, Terminal
  <2> QED BY <1>6, <2>1 DEF Abort, Goto, thread, TypeOK, Label
<1>7. ASSUME NEW r \in Request, ClearSession(r) \/ WorkerChecks(r)
      PROVE  TypeOK'
  BY <1>7 DEF ClearSession, WorkerChecks, rows, TypeOK
<1>8. ASSUME NEW r \in Request, Emit(r)
      PROVE  TypeOK'
  <2>1. run' \in [Key -> RunType]
    BY <1>8, SpokenRow
  <2>2. emitted' \in [Request -> 0 .. MaxDelta]
    <3>1. emitted[r] < MaxDelta /\ emitted[r] \in 0 .. MaxDelta
      BY <1>8 DEF Emit, TextIsRecorded, TypeOK
    <3>2. emitted[r] + 1 \in 0 .. MaxDelta
      BY <3>1, StreamAssumption
    <3> QED BY <1>8, <3>2 DEF Emit, TypeOK
  <2>3. queue' \in [Request -> Seq(Item)]
    BY <1>8 DEF Emit, TypeOK, Item
  <2> QED BY <1>8, <2>1, <2>2, <2>3 DEF Emit, TypeOK
<1>9. ASSUME NEW r \in Request, WorkerStops(r) \/ WorkerEnds(r)
      PROVE  TypeOK'
  <2>1. \E item \in Item : queue' = [queue EXCEPT ![r] = Append(@, item)]
    BY <1>9 DEF WorkerStops, WorkerEnds, Item
  <2>2. queue' \in [Request -> Seq(Item)]
    BY <2>1 DEF TypeOK
  <2> QED BY <1>9, <2>2 DEF WorkerStops, WorkerEnds, rows, TypeOK
<1>10. ASSUME NEW r \in Request, Crash(r)
       PROVE  TypeOK'
  <2>1. queue' \in [Request -> Seq(Item)]
    BY <1>10 DEF Crash, TypeOK
  <2> QED BY <1>10, <2>1 DEF Crash, Goto, rows, TypeOK, Label, Over
<1>11. ASSUME NEW k \in Key, RequestCancel(k) \/ Age(k)
       PROVE  TypeOK'
  <2>1. run' \in [Key -> RunType]
    BY <1>11, TouchedRow
  <2> QED BY <1>11, <2>1 DEF RequestCancel, Age, thread, TypeOK
<1>12. ASSUME NEW r \in Request, OpeningFails(r) \/ BreaksOff(r)
       PROVE  TypeOK'
  <2>1. \E l \in {"refused", "broken"} : pc' = [pc EXCEPT ![r] = l]
    BY <1>12 DEF OpeningFails, BreaksOff, Goto
  <2>2. pc' \in [Request -> Label]
    BY <2>1 DEF TypeOK, Label, Over
  <2>3. refunds' \in [Request -> SUBSET Key]
    BY <1>12 DEF OpeningFails, BreaksOff, TypeOK
  <2> QED BY <1>12, <2>2, <2>3 DEF OpeningFails, BreaksOff, rows, thread, TypeOK
<1> QED BY <1>0, <1>1, <1>2, <1>3, <1>4, <1>5, <1>6, <1>7, <1>8, <1>9, <1>10, <1>11, <1>12,
       StreamTypes
        DEF Next, Opening, Streaming, Working, Failing, Stream

\* What a step does to the row of a key: keeps it, inserts it, or marks its first text.
LEMMA RowStep ==
    ASSUME TypeOK, [Next]_vars
    PROVE  \/ \A k \in Key : Kept(k)
           \/ \E r \in Request : /\ run' = [run EXCEPT ![KeyOf[r]] = Accepted(r)]
                                 /\ run[KeyOf[r]].status = "none"
                                 /\ \A k \in Key : ~Active(k)
                                 /\ Create(r) \/ CreateFails(r)
           \/ \E r \in Request : Emit(r)
<1>1. UNCHANGED run => \A k \in Key : Kept(k)
  BY DEF Kept
<1>2. CASE UNCHANGED vars
  BY <1>1, <1>2 DEF vars, rows
<1>3. ASSUME NEW r \in Request, Reclaim(r) \/ Abort(r) \/ Stream(r)
      PROVE  \A k \in Key : Kept(k)
  BY <1>3, ReclaimedRow, FinishedRow, StreamRows DEF Abort, Terminal
<1>4. ASSUME NEW r \in Request,
             \/ RefundReclaimed(r) \/ Lookup(r) \/ Reserve(r) \/ Recheck(r) \/ GiveBack(r)
             \/ ClearSession(r) \/ WorkerChecks(r) \/ WorkerStops(r) \/ WorkerEnds(r)
             \/ Crash(r) \/ OpeningFails(r) \/ BreaksOff(r)
      PROVE  UNCHANGED run
  BY <1>4 DEF RefundReclaimed, Lookup, Reserve, Recheck, GiveBack, ClearSession,
              WorkerChecks, WorkerStops, WorkerEnds, Crash, OpeningFails, BreaksOff, rows
<1>5. ASSUME NEW r \in Request, Create(r) \/ CreateFails(r)
      PROVE  \/ \A k \in Key : Kept(k)
             \/ /\ run' = [run EXCEPT ![KeyOf[r]] = Accepted(r)]
                /\ run[KeyOf[r]].status = "none"
                /\ \A k \in Key : ~Active(k)
  BY <1>1, <1>5, InsertedRow
<1>6. ASSUME NEW k \in Key, RequestCancel(k) \/ Age(k)
      PROVE  \A j \in Key : Kept(j)
  BY <1>6, TouchedRow
<1> QED BY <1>1, <1>2, <1>3, <1>4, <1>5, <1>6
        DEF Next, Opening, Streaming, Working, Failing, Stream

LEMMA OneActiveStep ==
    ASSUME TypeOK, OneActive, [Next]_vars
    PROVE  OneActive'
<1>1. CASE \A k \in Key : Kept(k)
  BY <1>1 DEF OneActive, Active, Kept, Terminal
<1>2. ASSUME NEW r \in Request, run' = [run EXCEPT ![KeyOf[r]] = Accepted(r)],
             \A k \in Key : ~Active(k)
      PROVE  OneActive'
  <2>1. \A k \in Key : Active(k)' => k = KeyOf[r]
    BY <1>2 DEF TypeOK, Active
  <2> QED BY <2>1 DEF OneActive
<1>3. ASSUME NEW r \in Request, Emit(r)
      PROVE  OneActive'
  <2>1. \A k \in Key : Active(k)' = Active(k)
    BY <1>3, SpokenRow DEF Active
  <2> QED BY <2>1 DEF OneActive
<1> QED BY <1>1, <1>2, <1>3, RowStep

LEMMA OwnersStep ==
    ASSUME TypeOK, RowsAreOwned, [Next]_vars
    PROVE  RowsAreOwned'
<1>a. /\ run \in [Key -> RunType] /\ pc \in [Request -> Label]
      /\ KeyOf \in [Request -> Key] /\ None \notin Request
  BY StreamAssumption DEF TypeOK
<1>1. /\ \A k \in Key : run'[k].status = "none" <=> run'[k].owner = None
      /\ \A k \in Key : run'[k].owner # None => KeyOf[run'[k].owner] = k
  <2>1. CASE \A k \in Key : Kept(k)
    BY <2>1 DEF RowsAreOwned, Kept, Active, Terminal
  <2>2. ASSUME NEW r \in Request, run' = [run EXCEPT ![KeyOf[r]] = Accepted(r)]
        PROVE  /\ \A k \in Key : run'[k].status = "none" <=> run'[k].owner = None
               /\ \A k \in Key : run'[k].owner # None => KeyOf[run'[k].owner] = k
    <3>1. Accepted(r).owner = r /\ Accepted(r).status = "accepted"
      BY DEF Accepted
    <3> QED BY <1>a, <2>2, <3>1 DEF RowsAreOwned
  <2>3. ASSUME NEW r \in Request, Emit(r)
        PROVE  /\ \A k \in Key : run'[k].status = "none" <=> run'[k].owner = None
               /\ \A k \in Key : run'[k].owner # None => KeyOf[run'[k].owner] = k
    BY <2>3, SpokenRow DEF RowsAreOwned
  <2> QED BY <2>1, <2>2, <2>3, RowStep
<1> DEFINE Phases == \A r \in Request : /\ Mine(r)' => pc'[r] \notin Early
                                        /\ pc'[r] \notin Unopened \cup Stopped => Mine(r)'
<1>2. ASSUME \A k \in Key : Kept(k), NEW r \in Request, NEW l \in Label,
             pc' = [pc EXCEPT ![r] = l],
             l \in Early => pc[r] \in Early,
             l \in Opened => pc[r] \in Opened
      PROVE  Phases
  <2>1. \A o \in Request : Mine(o)' = Mine(o)
    BY <1>2, <1>a DEF Kept, Mine
  <2> QED BY <1>2, <1>a, <2>1 DEF RowsAreOwned, Opened
<1>3. UNCHANGED run => \A k \in Key : Kept(k)
  BY DEF Kept
<1>4. ASSUME NEW r \in Request,
             \/ RefundReclaimed(r) \/ Lookup(r) \/ Reserve(r) \/ Recheck(r) \/ GiveBack(r)
             \/ OpeningFails(r)
      PROVE  Phases
  <2>1. /\ UNCHANGED run
        /\ pc[r] \in Unopened
        /\ \E l \in Unopened : /\ pc' = [pc EXCEPT ![r] = l]
                               /\ l \in Early => pc[r] \in Early
    <3>1. CASE RefundReclaimed(r) \/ GiveBack(r)
      BY <3>1 DEF RefundReclaimed, GiveBack, Goto, Early, Unopened
    <3>2. CASE Lookup(r) \/ Recheck(r)
      BY <3>2 DEF Lookup, Recheck, Goto, rows, Early, Unopened
    <3>3. CASE Reserve(r)
      BY <3>3 DEF Reserve, Goto, Early, Unopened
    <3>4. CASE OpeningFails(r)
      BY <3>4 DEF OpeningFails, Goto, rows, Early, Unopened
    <3> QED BY <1>4, <3>1, <3>2, <3>3, <3>4
  <2>2. Unopened \subseteq Label \ Opened
    BY DEF Opened, Unopened, Early, Label, Over
  <2> QED BY <1>2, <1>3, <2>1, <2>2
<1>5. ASSUME NEW r \in Request, Reclaim(r)
      PROVE  Phases
  <2>1. pc[r] = "new" /\ pc' = [pc EXCEPT ![r] = "refund"]
    BY <1>5 DEF Reclaim, Goto
  <2> QED BY <1>2, <1>5, <2>1, ReclaimedRow DEF Early, Unopened, Opened, Label, Over, Stopped
<1>6. ASSUME NEW r \in Request, Abort(r)
      PROVE  Phases
  <2>1. pc[r] = "abort" /\ pc' = [pc EXCEPT ![r] = "giveback"] /\ FinishRun(r, "failed")
    BY <1>6 DEF Abort, Goto
  <2>2. \A k \in Key : Kept(k)
    BY <2>1, FinishedRow DEF Terminal
  <2> QED BY <1>2, <2>1, <2>2 DEF Early, Unopened, Opened, Label, Over
<1>7. ASSUME NEW r \in Request, Create(r) \/ CreateFails(r)
      PROVE  Phases
  <2>1. pc[r] \in {"create", "recheck"}
    BY <1>7 DEF Create, CreateFails
  <2>2. CASE UNCHANGED run /\ \E l \in {"recheck", "abort"} : pc' = [pc EXCEPT ![r] = l]
    <3>1. {"recheck", "abort"} \subseteq Label \ Opened /\ pc[r] \in Early
      BY <2>1 DEF Early, Unopened, Opened, Label, Over
    <3> QED BY <1>2, <1>3, <2>2, <3>1
  <2>3. CASE /\ run' = [run EXCEPT ![KeyOf[r]] = Accepted(r)]
             /\ run[KeyOf[r]].status = "none"
             /\ \E l \in {"opened", "abort"} : pc' = [pc EXCEPT ![r] = l]
    <3>1. Accepted(r).owner = r
      BY DEF Accepted
    <3>2. Mine(r)' /\ \A o \in Request : o # r => Mine(o)' = Mine(o)
      <4>1. run[KeyOf[r]].owner = None
        BY <1>a, <2>3 DEF RowsAreOwned
      <4> QED BY <1>a, <2>3, <3>1, <4>1 DEF Mine
    <3> QED BY <1>a, <2>3, <3>2 DEF RowsAreOwned, Early, Unopened
  <2>4. CASE Create(r)
    BY <2>2, <2>3, <2>4 DEF Create, Goto
  <2>5. CASE CreateFails(r)
    BY <2>2, <2>3, <2>5 DEF CreateFails, Goto
  <2> QED BY <1>7, <2>4, <2>5
<1>8. ASSUME NEW r \in Request, Stream(r)
      PROVE  Phases
  <2>1. /\ pc[r] \in Open
        /\ \A k \in Key : Kept(k)
        /\ \E l \in Opened \cup {"broken"} : pc' = [pc EXCEPT ![r] = l]
    BY <1>8, StreamRows
  <2>2. Opened \cup {"broken"} \subseteq Label \ Early /\ Open \subseteq Opened
    BY DEF Open, Opened, Unopened, Early, Label, Over
  <2> QED BY <1>2, <2>1, <2>2
<1>9. ASSUME NEW r \in Request, ClearSession(r) \/ WorkerChecks(r) \/ WorkerStops(r)
                                \/ WorkerEnds(r)
      PROVE  Phases
  <2>1. UNCHANGED <<run, pc>>
    BY <1>9 DEF ClearSession, WorkerChecks, WorkerStops, WorkerEnds, rows
  <2> QED BY <2>1 DEF RowsAreOwned, Mine
<1>10. ASSUME NEW r \in Request, Emit(r)
       PROVE  Phases
  <2>1. UNCHANGED pc /\ \A o \in Request : Mine(o)' = Mine(o)
    BY <1>10, <1>a, SpokenRow DEF Emit, Mine
  <2> QED BY <2>1 DEF RowsAreOwned
<1>11. ASSUME NEW r \in Request, Crash(r) \/ BreaksOff(r)
       PROVE  Phases
  <2>1. UNCHANGED run /\ \E l \in Stopped : pc' = [pc EXCEPT ![r] = l]
    BY <1>11 DEF Crash, BreaksOff, Goto, rows, Stopped
  <2> QED BY <1>2, <1>3, <2>1 DEF Early, Unopened, Opened, Label, Over, Stopped
<1>12. ASSUME NEW k \in Key, RequestCancel(k) \/ Age(k)
       PROVE  Phases
  <2>1. UNCHANGED pc /\ \A o \in Request : Mine(o)' = Mine(o)
    BY <1>12, <1>a, TouchedRow DEF RequestCancel, Age, Kept, Mine
  <2> QED BY <2>1 DEF RowsAreOwned
<1>13. ASSUME UNCHANGED vars
       PROVE  Phases
  BY <1>13 DEF vars, rows, RowsAreOwned, Mine
<1>14. Phases
  <2> HIDE DEF Phases
  <2> QED BY <1>4, <1>5, <1>6, <1>7, <1>8, <1>9, <1>10, <1>11, <1>12, <1>13
      DEF Next, Opening, Streaming, Working, Failing, Stream
<1> QED BY <1>1, <1>14 DEF RowsAreOwned, Mine

LEMMA ReservationsStep ==
    ASSUME TypeOK, ReservationsAreMade, [Next]_vars
    PROVE  ReservationsAreMade'
<1>a. /\ wallet \in [Key -> {"none", "reserved", "released"}] /\ pc \in [Request -> Label]
      /\ KeyOf \in [Request -> Key]
  BY StreamAssumption DEF TypeOK
<1>1. ASSUME NEW r \in Request, NEW l \in Label, pc' = [pc EXCEPT ![r] = l],
             l \in Charging => pc[r] \in Charging,
             \A k \in Key : wallet'[k] = "none" => wallet[k] = "none"
      PROVE  ReservationsAreMade'
  BY <1>a, <1>1 DEF ReservationsAreMade
<1>2. ASSUME NEW r \in Request, Stream(r)
      PROVE  ReservationsAreMade'
  <2>1. pc[r] \in Open /\ \E l \in Opened \cup {"broken"} : pc' = [pc EXCEPT ![r] = l]
    BY <1>2, StreamRows
  <2>2. /\ Open \subseteq Charging /\ Charging \subseteq Label
        /\ Opened \cup {"broken"} \subseteq Charging
    BY DEF Open, Opened, Charging, Unopened, Early, Stopped, Label, Over
  <2>3. \A k \in Key : wallet'[k] = "none" => wallet[k] = "none"
    <3>1. CASE Refund(r) \/ LastRefund(r)
      BY <3>1, ReleasedKeys DEF Refund, LastRefund
    <3>2. CASE ~(Refund(r) \/ LastRefund(r))
      BY <1>2, <3>2 DEF Stream, Vanish, Accept, Persist, MarkRunning, SetupFails, Dequeue,
         VerdictFails, Resume, Disconnect, Finalize, FinalizeFails, Complete, SendCompleted,
         Cleanup, CleanupFails, Withdraw, WithdrawFails, Fail, RefundFails, Finally, rows
    <3> QED BY <3>1, <3>2
  <2> QED BY <1>1, <2>1, <2>2, <2>3
<1>3. ASSUME NEW r \in Request,
             \/ Reclaim(r) \/ Lookup(r) \/ Recheck(r) \/ Abort(r) \/ Crash(r)
             \/ OpeningFails(r) \/ BreaksOff(r)
      PROVE  ReservationsAreMade'
  <2>1. UNCHANGED wallet
    BY <1>3 DEF Reclaim, Lookup, Recheck, Abort, Crash, OpeningFails, BreaksOff, rows
  <2>2. \E l \in Label : /\ pc' = [pc EXCEPT ![r] = l]
                         /\ l \in Charging => pc[r] \in Charging
    BY <1>3 DEF Reclaim, Lookup, Recheck, Abort, Crash, OpeningFails, BreaksOff, Goto,
       Charging, Label, Over
  <2> QED BY <1>1, <2>1, <2>2
<1>4. ASSUME NEW r \in Request, RefundReclaimed(r) \/ GiveBack(r)
      PROVE  ReservationsAreMade'
  <2>1. \A k \in Key : wallet'[k] = "none" => wallet[k] = "none"
    BY <1>4, ReleasedKeys DEF RefundReclaimed, GiveBack
  <2>2. \E l \in {"lookup", "turnedaway"} : /\ pc' = [pc EXCEPT ![r] = l]
                                            /\ l = "turnedaway" => pc[r] = "giveback"
    BY <1>4 DEF RefundReclaimed, GiveBack, Goto
  <2> QED BY <1>1, <2>1, <2>2 DEF Charging, Label, Over
<1>5. ASSUME NEW r \in Request, Reserve(r)
      PROVE  ReservationsAreMade'
  <2>1. \A k \in Key : wallet'[k] = "none" => wallet[k] = "none"
    BY <1>5, <1>a DEF Reserve
  <2>2. CASE pc' = [pc EXCEPT ![r] = "refused"]
    BY <1>1, <2>1, <2>2 DEF Charging, Label, Over
  <2>3. CASE pc' = [pc EXCEPT ![r] = "create"] /\ wallet'[KeyOf[r]] # "none"
    BY <1>a, <2>1, <2>3 DEF ReservationsAreMade
  <2> QED BY <1>5, <1>a, <2>2, <2>3 DEF Reserve, Goto
<1>6. ASSUME NEW r \in Request, Create(r) \/ CreateFails(r)
      PROVE  ReservationsAreMade'
  <2>1. pc[r] \in {"create", "recheck"} /\ UNCHANGED wallet
    BY <1>6 DEF Create, CreateFails
  <2>2. \E l \in {"opened", "recheck", "abort"} : pc' = [pc EXCEPT ![r] = l]
    BY <1>6 DEF Create, CreateFails, Goto
  <2>3. pc[r] \in Charging /\ {"opened", "recheck", "abort"} \subseteq Label
    BY <2>1 DEF Charging, Label, Over
  <2> QED BY <1>1, <2>1, <2>2, <2>3
<1>7. ASSUME NEW r \in Request, Working(r)
      PROVE  ReservationsAreMade'
  BY <1>7 DEF Working, ClearSession, WorkerChecks, Emit, WorkerStops, WorkerEnds, rows,
              ReservationsAreMade
<1>8. ASSUME NEW k \in Key, RequestCancel(k) \/ Age(k)
      PROVE  ReservationsAreMade'
  BY <1>8 DEF RequestCancel, Age, ReservationsAreMade
<1>9. CASE UNCHANGED vars
  BY <1>9 DEF vars, rows, ReservationsAreMade
<1> QED BY <1>2, <1>3, <1>4, <1>5, <1>6, <1>7, <1>8, <1>9
        DEF Next, Opening, Streaming, Failing, Stream

\* A row keeps its owner and the mark of its first text, whatever happens to it.
LEMMA OwnersStay ==
    ASSUME TypeOK, RowsAreOwned, [Next]_vars
    PROVE  \A r \in Request : /\ Mine(r) => Mine(r)'
                              /\ Mine(r) /\ run[KeyOf[r]].delta => run'[KeyOf[r]].delta
<1>a. /\ run \in [Key -> RunType] /\ KeyOf \in [Request -> Key] /\ None \notin Request
  BY StreamAssumption DEF TypeOK
<1>1. CASE \A k \in Key : Kept(k)
  BY <1>a, <1>1 DEF Kept, Mine
<1>2. ASSUME NEW r \in Request, run' = [run EXCEPT ![KeyOf[r]] = Accepted(r)],
             run[KeyOf[r]].status = "none"
      PROVE  \A o \in Request : /\ Mine(o) => Mine(o)'
                                /\ Mine(o) /\ run[KeyOf[o]].delta => run'[KeyOf[o]].delta
  <2>1. run[KeyOf[r]].owner = None
    BY <1>a, <1>2 DEF RowsAreOwned
  <2>2. \A o \in Request : Mine(o) => run'[KeyOf[o]] = run[KeyOf[o]]
    BY <1>a, <1>2, <2>1 DEF Mine
  <2> QED BY <2>2 DEF Mine
<1>3. ASSUME NEW r \in Request, Emit(r)
      PROVE  \A o \in Request : /\ Mine(o) => Mine(o)'
                                /\ Mine(o) /\ run[KeyOf[o]].delta => run'[KeyOf[o]].delta
  BY <1>a, <1>3, SpokenRow DEF Mine
<1> QED BY <1>1, <1>2, <1>3, RowStep

\* The steps of a request; the others stay as they are.
Step(r) == Preparing(r) \/ Stream(r) \/ Working(r) \/ Crash(r)

Stands(r) == UNCHANGED <<pc[r], worker[r], emitted[r], queue[r], saw[r], quota[r]>>

LEMMA Steps ==
    ASSUME [Next]_vars
    PROVE  \/ \E r \in Request : Step(r)
           \/ \E k \in Key : RequestCancel(k) \/ Age(k)
           \/ UNCHANGED vars
  BY DEF Next, Streaming, Failing, Step, Stream, Preparing

LEMMA OthersStand ==
    ASSUME TypeOK, NEW r \in Request, Step(r), NEW o \in Request, o # r
    PROVE  Stands(o)
<1>a. /\ pc \in [Request -> Label] /\ queue \in [Request -> Seq(Item)]
      /\ worker \in [Request -> {"idle", "clearing", "working", "checked", "stopped"}]
      /\ emitted \in [Request -> 0 .. MaxDelta] /\ saw \in [Request -> BOOLEAN]
      /\ quota \in [Request -> {"none", "held", "counted", "returned"}]
  BY DEF TypeOK
<1> USE DEF Stands, Goto, rows, thread
<1>1. CASE Reclaim(r) \/ RefundReclaimed(r) \/ Lookup(r) \/ Recheck(r) \/ Abort(r) \/ GiveBack(r)
  BY <1>1, <1>a DEF Reclaim, RefundReclaimed, Lookup, Recheck, Abort, GiveBack
<1>2. CASE Reserve(r) \/ Create(r) \/ CreateFails(r) \/ OpeningFails(r) \/ BreaksOff(r)
  BY <1>2, <1>a DEF Reserve, Create, CreateFails, OpeningFails, BreaksOff
<1>3. CASE Vanish(r) \/ Accept(r) \/ Persist(r) \/ MarkRunning(r) \/ SetupFails(r)
  BY <1>3, <1>a DEF Vanish, Accept, Persist, MarkRunning, SetupFails
<1>4. CASE Dequeue(r) \/ VerdictFails(r)
  BY <1>4, <1>a DEF Dequeue, VerdictFails, Settle
<1>5. CASE Resume(r) \/ Disconnect(r) \/ Complete(r) \/ SendCompleted(r)
  BY <1>5, <1>a DEF Resume, Disconnect, Complete, SendCompleted
<1>6. CASE Finalize(r) \/ FinalizeFails(r) \/ Cleanup(r) \/ CleanupFails(r)
  BY <1>6, <1>a DEF Finalize, FinalizeFails, Cleanup, CleanupFails, SettleOrLog, Settle
<1>7. CASE Withdraw(r) \/ WithdrawFails(r) \/ Fail(r) \/ Refund(r) \/ RefundFails(r)
           \/ Finally(r) \/ LastRefund(r) \/ Crash(r)
  BY <1>7, <1>a DEF Withdraw, WithdrawFails, Fail, Refund, RefundFails, Finally, LastRefund,
     Crash
<1>8. CASE Working(r)
  BY <1>8, <1>a DEF Working, ClearSession, WorkerChecks, Emit, WorkerStops, WorkerEnds
<1> QED BY <1>1, <1>2, <1>3, <1>4, <1>5, <1>6, <1>7, <1>8
    DEF Step, Preparing, Opening, Stream

LEMMA KeysStand ==
    ASSUME (\E k \in Key : RequestCancel(k) \/ Age(k)) \/ UNCHANGED vars
    PROVE  /\ \A r \in Request : Stands(r)
           /\ UNCHANGED <<wallet, inbound, refunds>>
  BY DEF Stands, RequestCancel, Age, vars, rows, thread

\* A step that changes no worker, text or view of the client.
Silent(r) == UNCHANGED <<worker[r], emitted[r], saw[r]>>

LEMMA TextStep ==
    ASSUME TypeOK, RowsAreOwned, TextIsRecorded, QueueInOrder, [Next]_vars
    PROVE  TextIsRecorded'
<1>a. /\ pc \in [Request -> Label] /\ queue \in [Request -> Seq(Item)]
      /\ worker \in [Request -> {"idle", "clearing", "working", "checked", "stopped"}]
      /\ emitted \in [Request -> 0 .. MaxDelta] /\ saw \in [Request -> BOOLEAN]
      /\ MaxDelta \in Nat
  BY StreamAssumption DEF TypeOK
<1>b. \A r \in Request : /\ Mine(r) => Mine(r)'
                         /\ Mine(r) /\ run[KeyOf[r]].delta => run'[KeyOf[r]].delta
  BY OwnersStay
<1> DEFINE Idle == Unopened \cup {"opened", "accepted", "stored"}
           Good(r) == /\ pc'[r] \in Idle => worker'[r] = "idle"
                      /\ worker'[r] = "checked" => emitted'[r] < MaxDelta
                      /\ emitted'[r] > 0 => /\ worker'[r] # "idle"
                                            /\ Mine(r)' /\ run'[KeyOf[r]].delta
                      /\ saw'[r] => emitted'[r] > 0
<1>1. ASSUME NEW r \in Request, Silent(r), pc'[r] \in Idle => pc[r] \in Idle
      PROVE  Good(r)
  BY <1>1, <1>b DEF Silent, TextIsRecorded
<1>2. ASSUME NEW r \in Request, Stands(r)
      PROVE  Good(r)
  BY <1>1, <1>2 DEF Stands, Silent
<1>3. ASSUME NEW r \in Request, Stream(r)
      PROVE  Good(r)
  <2>1. UNCHANGED emitted
    BY <1>3, StreamRows
  <2>2. CASE Vanish(r) \/ Accept(r) \/ SetupFails(r) \/ Resume(r) \/ Disconnect(r)
             \/ SendCompleted(r) \/ Cleanup(r) \/ CleanupFails(r) \/ Finalize(r)
             \/ FinalizeFails(r) \/ Complete(r) \/ Fail(r)
    <3>1. Silent(r)
      BY <2>2 DEF Silent, Vanish, Accept, SetupFails, Resume, Disconnect, SendCompleted,
         Cleanup, CleanupFails, Finalize, FinalizeFails, Complete, Fail, thread
    <3>2. pc'[r] \in Idle => pc[r] \in Idle
      BY <1>a, <2>2 DEF Unopened, Early, Vanish, Accept, SetupFails, Resume, Disconnect,
         SendCompleted, Cleanup, CleanupFails, Finalize, FinalizeFails, Complete, Fail, Goto
    <3> QED BY <1>1, <3>1, <3>2
  <2>6. CASE VerdictFails(r) \/ Withdraw(r) \/ WithdrawFails(r) \/ Refund(r) \/ RefundFails(r)
             \/ Finally(r) \/ LastRefund(r)
    <3>1. Silent(r)
      BY <2>6 DEF Silent, VerdictFails, Withdraw, WithdrawFails, Refund, RefundFails, Finally,
         LastRefund, thread
    <3>2. \E l \in {"cleanup", "fail", "finally", "lastrefund", "unpaid", "cancelled",
                    "misreported", "failed", "broken"} : pc' = [pc EXCEPT ![r] = l]
      BY <2>6 DEF VerdictFails, Withdraw, WithdrawFails, Refund, RefundFails, Finally,
         LastRefund, Departed, Goto
    <3>3. pc'[r] \notin Idle
      BY <1>a, <3>2 DEF Unopened, Early
    <3> QED BY <1>1, <3>1, <3>3
  <2>3. CASE Persist(r)
    <3>1. Silent(r) /\ pc[r] \in Idle
      BY <2>3 DEF Silent, Persist, thread
    <3> QED BY <1>1, <3>1
  <2>4. CASE MarkRunning(r)
    <3>1. /\ worker' = [worker EXCEPT ![r] = IF r \in Resets THEN "clearing" ELSE "working"]
          /\ pc' = [pc EXCEPT ![r] = "streaming"] /\ pc[r] = "stored"
          /\ UNCHANGED <<emitted, saw>>
      BY <2>4 DEF MarkRunning, Goto
    <3>2. worker'[r] \in {"clearing", "working"} /\ pc'[r] = "streaming"
      BY <1>a, <3>1
    <3>3. ~(emitted[r] > 0) /\ ~saw[r]
      BY <3>1 DEF TextIsRecorded
    <3> QED BY <3>1, <3>2, <3>3 DEF Unopened, Early
  <2>5. CASE Dequeue(r)
    <3>1. /\ UNCHANGED <<worker, emitted>> /\ pc[r] = "streaming" /\ queue[r] # <<>>
          /\ \/ UNCHANGED saw
             \/ saw' = [saw EXCEPT ![r] = TRUE] /\ Head(queue[r]) = "delta"
      BY <2>5 DEF Dequeue
    <3>2. pc'[r] \notin Idle
      <4>1. \E l \in {"yielded", "result", "notice", "apology", "cleanup", "fail"} :
               pc' = [pc EXCEPT ![r] = l]
        BY <2>5 DEF Dequeue, Goto
      <4> QED BY <1>a, <4>1 DEF Unopened, Early
    <3>3. CASE UNCHANGED saw
      BY <1>1, <3>1, <3>2, <3>3 DEF Silent
    <3>4. CASE saw' = [saw EXCEPT ![r] = TRUE] /\ Head(queue[r]) = "delta"
      <4>1. emitted[r] > 0
        BY <3>1, <3>4 DEF QueueInOrder
      <4> QED BY <1>b, <3>1, <3>2, <4>1 DEF TextIsRecorded
    <3> QED BY <3>1, <3>3, <3>4
  <2> QED BY <1>3, <2>2, <2>3, <2>4, <2>5, <2>6 DEF Stream
<1>4. ASSUME NEW r \in Request, Preparing(r)
      PROVE  Good(r)
  <2>1. Silent(r)
    BY <1>4 DEF Silent, Preparing, Opening, Reclaim, RefundReclaimed, Lookup, Reserve, Create,
       Recheck, Abort, GiveBack, OpeningFails, CreateFails, BreaksOff, thread
  <2>2. pc'[r] \in Idle => pc[r] \in Idle
    BY <1>a, <1>4 DEF Preparing, Opening, Reclaim, RefundReclaimed, Lookup, Reserve, Create,
       Recheck, Abort, GiveBack, OpeningFails, CreateFails, BreaksOff, Goto, Unopened, Early
  <2> QED BY <1>1, <2>1, <2>2
<1>5. ASSUME NEW r \in Request, Working(r)
      PROVE  Good(r)
  <2>1. worker[r] # "idle" /\ UNCHANGED <<pc, saw>>
    BY <1>5 DEF Working, ClearSession, WorkerChecks, Emit, WorkerStops, WorkerEnds
  <2>2. CASE ClearSession(r) \/ WorkerStops(r) \/ WorkerEnds(r)
    <3>1. UNCHANGED emitted /\ worker'[r] \in {"working", "stopped"}
      BY <1>a, <2>2 DEF ClearSession, WorkerStops, WorkerEnds
    <3> QED BY <1>b, <2>1, <3>1 DEF TextIsRecorded
  <2>3. CASE WorkerChecks(r)
    <3>1. UNCHANGED emitted /\ worker'[r] = "checked" /\ emitted[r] < MaxDelta
      BY <1>a, <2>3 DEF WorkerChecks
    <3> QED BY <1>b, <2>1, <3>1 DEF TextIsRecorded
  <2>4. CASE Emit(r)
    <3>1. worker'[r] = "working" /\ emitted'[r] = emitted[r] + 1
      BY <1>a, <2>4 DEF Emit
    <3>2. Mine(r) /\ KeyOf[r] \in Key /\ run'[KeyOf[r]].delta
      BY <2>4, SpokenRow, StreamAssumption
    <3>3. emitted'[r] > 0
      BY <1>a, <3>1
    <3> QED BY <1>b, <2>1, <3>1, <3>2, <3>3 DEF TextIsRecorded
  <2> QED BY <1>5, <2>2, <2>3, <2>4 DEF Working
<1>6. ASSUME NEW r \in Request, Crash(r)
      PROVE  Good(r)
  <2>1. UNCHANGED <<emitted, saw>> /\ worker'[r] = "stopped" /\ pc'[r] = "crashed"
    BY <1>6, <1>a DEF Crash, Goto
  <2> QED BY <1>b, <2>1 DEF TextIsRecorded, Unopened, Early
<1>7. ASSUME NEW r \in Request PROVE Good(r)
  <2> HIDE DEF Good
  <2>1. ASSUME NEW o \in Request, Step(o) PROVE Good(r)
    BY <1>2, <1>3, <1>4, <1>5, <1>6, <2>1, OthersStand DEF Step
  <2> QED BY <1>2, <2>1, Steps, KeysStand
<1> QED BY <1>7 DEF TextIsRecorded, Mine

LEMMA AppendedItem ==
    ASSUME NEW S, NEW q \in Seq(S), NEW x \in S
    PROVE  /\ Append(q, x) \in Seq(S) /\ Append(q, x) # <<>>
           /\ Len(Append(q, x)) = Len(q) + 1 /\ Len(q) \in Nat
           /\ \A i \in 1 .. Len(q) : Append(q, x)[i] = q[i]
           /\ Append(q, x)[Len(q) + 1] = x
           /\ q # <<>> => Head(Append(q, x)) = Head(q)
           /\ q = <<>> => Head(Append(q, x)) = x
<1>1. /\ Append(q, x) \in Seq(S) /\ Append(q, x) # <<>>
      /\ Len(Append(q, x)) = Len(q) + 1 /\ Len(q) \in Nat
      /\ \A i \in 1 .. Len(q) : Append(q, x)[i] = q[i]
      /\ Append(q, x)[Len(q) + 1] = x
  OBVIOUS
<1>2. q # <<>> => Head(Append(q, x)) = Head(q)
  BY <1>1
<1>3. q = <<>> => Head(Append(q, x)) = x
  BY <1>1
<1> QED BY <1>1, <1>2, <1>3

LEMMA QueueStep ==
    ASSUME TypeOK, TextIsRecorded, QueueInOrder, [Next]_vars
    PROVE  QueueInOrder'
<1>a. /\ pc \in [Request -> Label] /\ queue \in [Request -> Seq(Item)]
      /\ emitted \in [Request -> 0 .. MaxDelta] /\ saw \in [Request -> BOOLEAN]
      /\ worker \in [Request -> {"idle", "clearing", "working", "checked", "stopped"}]
      /\ MaxDelta \in Nat
  BY StreamAssumption DEF TypeOK
<1> DEFINE Text == {"delta", "result", "notice", "apology"}
           Good(r) == /\ emitted'[r] > 0 /\ pc'[r] # "crashed" =>
                            saw'[r] \/ (queue'[r] # <<>> /\ Head(queue'[r]) = "delta")
                      /\ \A i \in 1 .. Len(queue'[r]) :
                            queue'[r][i] \in Text => emitted'[r] > 0
                      /\ worker'[r] # "stopped" =>
                            \A i \in 1 .. Len(queue'[r]) : queue'[r][i] = "delta"
<1>1. ASSUME NEW r \in Request, UNCHANGED <<emitted[r], queue[r], saw[r]>>,
             pc[r] # "crashed", worker'[r] # "stopped" => worker[r] # "stopped"
      PROVE  Good(r)
  BY <1>1 DEF QueueInOrder
<1>2. ASSUME NEW r \in Request, Stands(r)
      PROVE  Good(r)
  BY <1>2 DEF QueueInOrder, Stands
<1>3. ASSUME NEW r \in Request, Stream(r)
      PROVE  Good(r)
  <2>1. pc[r] # "crashed" /\ UNCHANGED emitted
    BY <1>3, StreamRows DEF Open, Opened, Stopped
  <2>w. worker'[r] # "stopped" => worker[r] # "stopped"
    <3>1. CASE MarkRunning(r)
      BY <3>1 DEF MarkRunning, TextIsRecorded
    <3>2. CASE ~MarkRunning(r)
      BY <1>3, <3>2 DEF Stream, Vanish, Accept, Persist, Dequeue, SetupFails, Resume,
         Disconnect, Finalize, FinalizeFails, Complete, SendCompleted, Cleanup,
         CleanupFails, Withdraw, WithdrawFails, Fail, Refund, RefundFails, VerdictFails,
         Finally, LastRefund, thread
    <3> QED BY <3>1, <3>2
  <2>2. CASE Dequeue(r) \/ VerdictFails(r)
    <3>1. /\ queue[r] # <<>> /\ queue' = [queue EXCEPT ![r] = Tail(@)]
          /\ Head(queue[r]) = "delta" => saw' = [saw EXCEPT ![r] = TRUE]
          /\ Head(queue[r]) # "delta" => UNCHANGED saw
      BY <2>2 DEF Dequeue, VerdictFails
    <3>2. /\ Len(queue'[r]) = Len(queue[r]) - 1
          /\ \A i \in 1 .. Len(queue'[r]) :
                i + 1 \in 1 .. Len(queue[r]) /\ queue'[r][i] = queue[r][i + 1]
      BY <1>a, <3>1
    <3>3. emitted[r] > 0 => saw'[r]
      BY <1>a, <2>1, <3>1 DEF QueueInOrder
    <3> QED BY <2>1, <2>w, <3>2, <3>3 DEF QueueInOrder
  <2>3. CASE ~(Dequeue(r) \/ VerdictFails(r))
    <3>1. UNCHANGED <<queue, saw>>
      BY <1>3, <2>3 DEF Stream, Vanish, Accept, Persist, MarkRunning, SetupFails, Resume,
         Disconnect, Finalize, FinalizeFails, Complete, SendCompleted, Cleanup,
         CleanupFails, Withdraw, WithdrawFails, Fail, Refund, RefundFails, VerdictFails,
         Finally, LastRefund, thread
    <3> QED BY <1>1, <2>1, <2>w, <3>1
  <2> QED BY <2>2, <2>3
<1>4. ASSUME NEW r \in Request, Preparing(r)
      PROVE  Good(r)
  <2>1. UNCHANGED <<emitted, queue, saw, worker>> /\ pc[r] # "crashed"
    BY <1>4 DEF Preparing, Opening, Reclaim, RefundReclaimed, Lookup, Reserve, Create, Recheck,
       Abort, GiveBack, OpeningFails, CreateFails, BreaksOff, thread
  <2> QED BY <1>1, <2>1
<1>5. ASSUME NEW r \in Request, Working(r)
      PROVE  Good(r)
  <2>1. CASE ClearSession(r) \/ WorkerChecks(r)
    BY <2>1 DEF ClearSession, WorkerChecks, QueueInOrder
  <2>2. ASSUME NEW item \in Item, queue' = [queue EXCEPT ![r] = Append(@, item)],
               UNCHANGED <<pc, saw>>, emitted'[r] >= emitted[r],
               item \in Text => emitted'[r] > 0,
               emitted'[r] # emitted[r] => item = "delta",
               worker[r] # "stopped", worker'[r] # "stopped" => item = "delta"
        PROVE  Good(r)
    <3>1. queue'[r] = Append(queue[r], item)
      BY <1>a, <2>2
    <3>2. /\ Len(queue'[r]) = Len(queue[r]) + 1 /\ queue'[r] # <<>>
          /\ \A i \in 1 .. Len(queue[r]) : queue'[r][i] = queue[r][i]
          /\ queue'[r][Len(queue[r]) + 1] = item
          /\ queue[r] # <<>> => Head(queue'[r]) = Head(queue[r])
          /\ queue[r] = <<>> => Head(queue'[r]) = item
          /\ Len(queue[r]) \in Nat
      BY <1>a, <3>1, AppendedItem
    <3>3. ASSUME emitted'[r] > 0, pc'[r] # "crashed"
          PROVE  saw'[r] \/ (queue'[r] # <<>> /\ Head(queue'[r]) = "delta")
      <4>1. CASE emitted[r] > 0
        BY <1>a, <2>2, <3>2, <3>3, <4>1 DEF QueueInOrder
      <4>2. CASE ~(emitted[r] > 0)
        <5>1. queue[r] = <<>>
          <6>1. ASSUME queue[r] # <<>> PROVE FALSE
            <7>1. 1 \in 1 .. Len(queue[r])
              BY <1>a, <6>1
            <7>2. queue[r][1] = "delta"
              BY <2>2, <7>1 DEF QueueInOrder
            <7> QED BY <4>2, <7>1, <7>2 DEF QueueInOrder
          <6> QED BY <6>1
        <5>2. item = "delta"
          BY <2>2, <3>3, <4>2
        <5> QED BY <3>2, <5>1, <5>2
      <4> QED BY <4>1, <4>2
    <3>4. ASSUME NEW i \in 1 .. Len(queue'[r]), queue'[r][i] \in Text
          PROVE  emitted'[r] > 0
      BY <1>a, <2>2, <3>2, <3>4 DEF QueueInOrder
    <3>5. ASSUME worker'[r] # "stopped", NEW i \in 1 .. Len(queue'[r])
          PROVE  queue'[r][i] = "delta"
      BY <1>a, <2>2, <3>2, <3>5 DEF QueueInOrder
    <3> QED BY <3>3, <3>4, <3>5
  <2>3. CASE Emit(r)
    <3>1. /\ queue' = [queue EXCEPT ![r] = Append(@, "delta")]
          /\ emitted'[r] = emitted[r] + 1 /\ UNCHANGED <<pc, saw>>
          /\ worker[r] = "checked"
      BY <1>a, <2>3 DEF Emit
    <3> QED BY <1>a, <2>2, <3>1 DEF Item
  <2>4. CASE WorkerStops(r)
    <3>1. /\ queue' = [queue EXCEPT ![r] = Append(@, "cancelled")]
          /\ UNCHANGED <<emitted, pc, saw>>
          /\ worker[r] # "stopped" /\ worker'[r] = "stopped"
      BY <1>a, <2>4 DEF WorkerStops
    <3>2. "cancelled" \in Item \ Text
      BY DEF Item
    <3>3. emitted'[r] >= emitted[r]
      BY <1>a, <3>1
    <3> QED BY <2>2, <3>1, <3>2, <3>3
  <2>5. CASE WorkerEnds(r)
    <3>1. \E item \in Item : /\ queue' = [queue EXCEPT ![r] = Append(@, item)]
                             /\ item \in Text => emitted[r] > 0
                             /\ UNCHANGED <<emitted, pc, saw>>
                             /\ worker[r] # "stopped" /\ worker'[r] = "stopped"
      BY <1>a, <2>5 DEF WorkerEnds, Item
    <3>2. emitted'[r] >= emitted[r]
      BY <1>a, <3>1
    <3> QED BY <2>2, <3>1, <3>2
  <2> QED BY <1>5, <2>1, <2>3, <2>4, <2>5 DEF Working
<1>6. ASSUME NEW r \in Request, Crash(r)
      PROVE  Good(r)
  <2>1. pc'[r] = "crashed" /\ queue'[r] = <<>>
    BY <1>6, <1>a DEF Crash, Goto
  <2> QED BY <2>1
<1>7. ASSUME NEW r \in Request PROVE Good(r)
  <2> HIDE DEF Good
  <2>1. ASSUME NEW o \in Request, Step(o) PROVE Good(r)
    BY <1>2, <1>3, <1>4, <1>5, <1>6, <2>1, OthersStand DEF Step
  <2> QED BY <1>2, <2>1, Steps, KeysStand
<1> QED BY <1>7 DEF QueueInOrder

\* What a step does to the reservation of a key.
LEMMA WalletStep ==
    ASSUME TypeOK, [Next]_vars, NEW k \in Key
    PROVE  /\ wallet[k] = "released" => wallet'[k] = "released"
           /\ \/ wallet'[k] = wallet[k]
              \/ \E r \in Request :
                    /\ Reserve(r) /\ k = KeyOf[r]
                    /\ wallet[k] = "none" /\ wallet'[k] = "reserved"
              \/ \E r \in Request :
                    /\ \/ RefundReclaimed(r) /\ k \in refunds[r]
                       \/ GiveBack(r) /\ k = KeyOf[r]
                       \/ (Refund(r) \/ LastRefund(r)) /\ k = KeyOf[r]
                    /\ wallet'[k] = "released"
<1>a. /\ wallet \in [Key -> {"none", "reserved", "released"}]
      /\ KeyOf \in [Request -> Key]
  BY StreamAssumption DEF TypeOK
<1> DEFINE Goal == /\ wallet[k] = "released" => wallet'[k] = "released"
                   /\ \/ wallet'[k] = wallet[k]
                      \/ \E r \in Request :
                            /\ Reserve(r) /\ k = KeyOf[r]
                            /\ wallet[k] = "none" /\ wallet'[k] = "reserved"
                      \/ \E r \in Request :
                            /\ \/ RefundReclaimed(r) /\ k \in refunds[r]
                               \/ GiveBack(r) /\ k = KeyOf[r]
                               \/ (Refund(r) \/ LastRefund(r)) /\ k = KeyOf[r]
                            /\ wallet'[k] = "released"
<1>1. ASSUME NEW r \in Request, NEW keys, Release(keys), k \in keys
      PROVE  wallet'[k] = wallet[k] \/ (wallet'[k] = "released" /\ wallet[k] = "reserved")
  BY <1>1, <1>a DEF Release
<1>2. ASSUME NEW r \in Request,
             RefundReclaimed(r) \/ GiveBack(r) \/ Refund(r) \/ LastRefund(r)
      PROVE  Goal
  <2>1. PICK keys : /\ Release(keys)
                    /\ k \in keys => \/ RefundReclaimed(r) /\ k \in refunds[r]
                                     \/ GiveBack(r) /\ k = KeyOf[r]
                                     \/ (Refund(r) \/ LastRefund(r)) /\ k = KeyOf[r]
    BY <1>2 DEF RefundReclaimed, GiveBack, Refund, LastRefund
  <2>2. CASE k \in keys
    BY <1>1, <2>1, <2>2
  <2>3. CASE k \notin keys
    BY <1>a, <2>1, <2>3 DEF Release
  <2> QED BY <2>2, <2>3
<1>3. ASSUME NEW r \in Request, Reserve(r)
      PROVE  Goal
  <2>1. CASE UNCHANGED wallet
    BY <2>1
  <2>2. CASE wallet[KeyOf[r]] = "none" /\ wallet' = [wallet EXCEPT ![KeyOf[r]] = "reserved"]
    BY <1>a, <1>3, <2>2
  <2> QED BY <1>3, <2>1, <2>2 DEF Reserve
<1>4. ASSUME NEW r \in Request, Step(r),
             ~(RefundReclaimed(r) \/ GiveBack(r) \/ Refund(r) \/ LastRefund(r) \/ Reserve(r))
      PROVE  UNCHANGED wallet
  <2>1. CASE Reclaim(r) \/ Lookup(r) \/ Create(r) \/ Recheck(r) \/ Abort(r) \/ CreateFails(r)
             \/ OpeningFails(r) \/ BreaksOff(r) \/ Crash(r)
    BY <2>1 DEF Reclaim, Lookup, Create, Recheck, Abort, CreateFails, OpeningFails, BreaksOff,
       Crash, rows
  <2>2. CASE Stream(r)
    BY <1>4, <2>2 DEF Stream, Vanish, Accept, Persist, MarkRunning, SetupFails, Dequeue,
       VerdictFails, Resume, Disconnect, Finalize, FinalizeFails, Complete, SendCompleted,
       Cleanup, CleanupFails, Withdraw, WithdrawFails, Fail, RefundFails, Finally, rows
  <2>3. CASE Working(r)
    BY <2>3 DEF Working, ClearSession, WorkerChecks, Emit, WorkerStops, WorkerEnds, rows
  <2> QED BY <1>4, <2>1, <2>2, <2>3 DEF Step, Preparing, Opening
<1>5. ASSUME NEW r \in Request, Step(r)
      PROVE  Goal
  <2> HIDE DEF Goal
  <2>1. UNCHANGED wallet => Goal
    BY DEF Goal
  <2> QED BY <1>2, <1>3, <1>4, <1>5, <2>1
<1> QED BY <1>5, Steps, KeysStand

\* A request that is over stays so, and its client sees nothing more.
LEMMA OverStands ==
    ASSUME TypeOK, [Next]_vars, NEW r \in Request, pc[r] \in Over
    PROVE  pc'[r] = pc[r] /\ saw'[r] = saw[r]
<1>1. CASE Step(r)
  <2>1. ~Preparing(r)
    BY DEF Over, Preparing, Opening, Reclaim, RefundReclaimed, Lookup, Reserve, Create,
       Recheck, Abort, GiveBack, OpeningFails, CreateFails, BreaksOff
  <2>2. ~Stream(r)
    BY StreamRows DEF Open
  <2>3. ~Crash(r)
    BY DEF Crash
  <2>4. Working(r) => UNCHANGED <<pc, saw>>
    BY DEF Working, ClearSession, WorkerChecks, Emit, WorkerStops, WorkerEnds
  <2> QED BY <1>1, <2>1, <2>2, <2>3, <2>4 DEF Step
<1>2. ASSUME NEW o \in Request, Step(o), o # r
      PROVE  pc'[r] = pc[r] /\ saw'[r] = saw[r]
  BY <1>2, OthersStand DEF Stands
<1> QED BY <1>1, <1>2, Steps, KeysStand DEF Stands

\* A request that has not been opened has shown nothing.
LEMMA UnopenedIsUnseen ==
    ASSUME TypeOK, TextIsRecorded, NEW r \in Request, pc[r] \in Unopened
    PROVE  ~saw[r]
  BY DEF TextIsRecorded

LEMMA PreparingLabels ==
    ASSUME NEW r \in Request, Preparing(r)
    PROVE  \E l \in Unopened \cup {"opened", "broken"} : pc' = [pc EXCEPT ![r] = l]
<1> USE DEF Goto, Unopened, Early
<1>1. CASE Reclaim(r) \/ RefundReclaimed(r) \/ Lookup(r) \/ Recheck(r) \/ Abort(r)
           \/ GiveBack(r)
  BY <1>1 DEF Reclaim, RefundReclaimed, Lookup, Recheck, Abort, GiveBack
<1>2. CASE Reserve(r) \/ Create(r) \/ CreateFails(r) \/ OpeningFails(r) \/ BreaksOff(r)
  BY <1>2 DEF Reserve, Create, CreateFails, OpeningFails, BreaksOff
<1> QED BY <1>1, <1>2 DEF Preparing, Opening

LEMMA EndsStep ==
    ASSUME TypeOK, QueueInOrder, ReservationsAreMade, EndsAreFair, [Next]_vars
    PROVE  EndsAreFair'
<1>a. /\ pc \in [Request -> Label] /\ queue \in [Request -> Seq(Item)]
      /\ saw \in [Request -> BOOLEAN] /\ KeyOf \in [Request -> Key]
      /\ wallet \in [Key -> {"none", "reserved", "released"}]
  BY StreamAssumption DEF TypeOK
<1>b. \A k \in Key : wallet[k] = "released" => wallet'[k] = "released"
  BY WalletStep
<1>c. ASSUME NEW r \in Request, pc[r] \in Charging, Release({KeyOf[r]})
      PROVE  wallet'[KeyOf[r]] = "released"
  BY <1>a, <1>c DEF ReservationsAreMade, Release
<1> DEFINE Served == {"result", "notice", "apology", "complete", "settle", "completed",
                      "misreported"}
           Good(r) == /\ pc'[r] \in Served => saw'[r]
                      /\ pc'[r] \in {"unpaid", "lastrefund"} => ~saw'[r]
                      /\ pc'[r] = "cancelled" => saw'[r] \/ wallet'[KeyOf[r]] = "released"
                      /\ pc'[r] = "failed" => wallet'[KeyOf[r]] = "released"
           Quiet == Label \ (Served \cup {"unpaid", "lastrefund", "cancelled", "failed"})
<1>1. ASSUME NEW r \in Request, UNCHANGED <<pc[r], saw[r]>>
      PROVE  Good(r)
  BY <1>1, <1>a, <1>b DEF EndsAreFair
<1>2. ASSUME NEW r \in Request, NEW l \in Quiet, pc' = [pc EXCEPT ![r] = l]
      PROVE  Good(r)
  <2>1. pc'[r] = l
    BY <1>2, <1>a
  <2> QED BY <2>1
<1>3. ASSUME NEW r \in Request, Stream(r)
      PROVE  Good(r)
  <2>1. CASE Vanish(r) \/ Accept(r) \/ SetupFails(r) \/ Resume(r) \/ Disconnect(r)
             \/ Cleanup(r) \/ CleanupFails(r) \/ Persist(r) \/ MarkRunning(r) \/ Fail(r)
             \/ FinalizeFails(r) \/ VerdictFails(r) \/ RefundFails(r)
    <3>1. \E l \in {"gone", "fail", "finally", "accepted", "streaming", "withdraw", "cleanup",
                    "stored", "repay"} : pc' = [pc EXCEPT ![r] = l]
      BY <2>1 DEF Vanish, Accept, SetupFails, Resume, Disconnect, Cleanup, CleanupFails,
         Persist, MarkRunning, Fail, FinalizeFails, VerdictFails, RefundFails, Goto
    <3> QED BY <1>2, <3>1 DEF Label, Over
  <2>2. CASE Dequeue(r)
    <3>1. /\ queue[r] # <<>> /\ pc[r] = "streaming"
          /\ \/ \E l \in {"yielded", "cleanup", "fail"} : pc' = [pc EXCEPT ![r] = l]
             \/ /\ Head(queue[r]) \in {"result", "notice", "apology"}
                /\ \E l \in {"result", "notice", "apology"} : pc' = [pc EXCEPT ![r] = l]
                /\ UNCHANGED saw
      BY <2>2 DEF Dequeue, Goto
    <3>2. CASE \E l \in {"yielded", "cleanup", "fail"} : pc' = [pc EXCEPT ![r] = l]
      BY <1>2, <3>2 DEF Label, Over
    <3>3. CASE /\ Head(queue[r]) \in {"result", "notice", "apology"}
               /\ \E l \in {"result", "notice", "apology"} : pc' = [pc EXCEPT ![r] = l]
               /\ UNCHANGED saw
      <4>1. 1 \in 1 .. Len(queue[r]) /\ queue[r][1] = Head(queue[r])
        BY <1>a, <3>1
      <4>2. emitted[r] > 0
        BY <3>3, <4>1 DEF QueueInOrder
      <4>3. saw[r]
        BY <3>1, <3>3, <4>2 DEF QueueInOrder
      <4> QED BY <1>a, <3>3, <4>3
    <3> QED BY <3>1, <3>2, <3>3
  <2>3. CASE Finalize(r) \/ Complete(r) \/ SendCompleted(r)
    <3>1. /\ pc[r] \in {"result", "notice", "apology", "complete", "settle"}
          /\ UNCHANGED saw
          /\ \E l \in {"fail", "complete", "settle", "completed", "misreported", "broken"} :
                pc' = [pc EXCEPT ![r] = l]
      BY <2>3 DEF Finalize, Complete, SendCompleted, Goto
    <3>2. saw'[r]
      BY <3>1 DEF EndsAreFair
    <3> QED BY <1>a, <3>1, <3>2
  <2>4. CASE Withdraw(r) \/ WithdrawFails(r)
    <3>1. /\ UNCHANGED saw
          /\ \/ \E l \in {"fail", "finally", "broken"} : pc' = [pc EXCEPT ![r] = l]
             \/ pc' = [pc EXCEPT ![r] = IF saw[r] THEN "cancelled" ELSE "unpaid"]
             \/ saw[r] /\ pc' = [pc EXCEPT ![r] = "misreported"]
      BY <2>4 DEF Withdraw, WithdrawFails, Goto
    <3> QED BY <1>a, <3>1
  <2>5. CASE Refund(r)
    <3>1. /\ \E l \in {"failed", "cancelled", "broken"} : pc' = [pc EXCEPT ![r] = l]
          /\ pc[r] \in {"repay", "unpaid"}
          /\ Release({KeyOf[r]})
      BY <2>5 DEF Refund, Goto
    <3>2. wallet'[KeyOf[r]] = "released"
      BY <1>c, <3>1 DEF Charging, Label, Over
    <3> QED BY <1>a, <3>1, <3>2
  <2>6. CASE Finally(r)
    <3>1. /\ UNCHANGED saw
          /\ \/ saw[r] /\ \E l \in {"cancelled", "broken"} : pc' = [pc EXCEPT ![r] = l]
             \/ ~saw[r] /\ pc' = [pc EXCEPT ![r] = "lastrefund"]
      BY <2>6 DEF Finally, Departed, Goto
    <3> QED BY <1>a, <3>1
  <2>7. CASE LastRefund(r)
    <3>1. /\ \E l \in {"cancelled", "broken"} : pc' = [pc EXCEPT ![r] = l]
          /\ pc[r] = "lastrefund" /\ Release({KeyOf[r]})
      BY <2>7 DEF LastRefund, Departed, Goto
    <3>2. wallet'[KeyOf[r]] = "released"
      BY <1>c, <3>1 DEF Charging, Label, Over
    <3> QED BY <1>a, <3>1, <3>2
  <2> QED BY <1>3, <2>1, <2>2, <2>3, <2>4, <2>5, <2>6, <2>7 DEF Stream
<1>4. ASSUME NEW r \in Request, Preparing(r) \/ Crash(r)
      PROVE  Good(r)
  <2>1. \E l \in Unopened \cup Stopped \cup {"opened"} : pc' = [pc EXCEPT ![r] = l]
    BY <1>4, PreparingLabels DEF Crash, Goto, Stopped
  <2>2. Unopened \cup Stopped \cup {"opened"} \subseteq Quiet
    BY DEF Unopened, Early, Stopped, Label, Over
  <2> QED BY <1>2, <2>1, <2>2
<1>5. ASSUME NEW r \in Request, Working(r)
      PROVE  Good(r)
  BY <1>1, <1>5 DEF Working, ClearSession, WorkerChecks, Emit, WorkerStops, WorkerEnds
<1>6. ASSUME NEW r \in Request, Stands(r)
      PROVE  Good(r)
  BY <1>1, <1>6 DEF Stands
<1>7. ASSUME NEW r \in Request PROVE Good(r)
  <2> HIDE DEF Good
  <2>1. ASSUME NEW o \in Request, Step(o) PROVE Good(r)
    BY <1>3, <1>4, <1>5, <1>6, <2>1, OthersStand DEF Step
  <2> QED BY <1>6, <2>1, Steps, KeysStand
<1> QED BY <1>7 DEF EndsAreFair

\* A row that has been abandoned unseen stays so.
LEMMA AbandonedStays ==
    ASSUME TypeOK, [Next]_vars, NEW k \in Key,
           run[k].status = "abandoned", ~run[k].delta
    PROVE  run'[k].status = "abandoned" /\ ~run'[k].delta
<1>a. run \in [Key -> RunType] /\ KeyOf \in [Request -> Key]
  BY StreamAssumption DEF TypeOK
<1>1. CASE \A j \in Key : Kept(j)
  BY <1>1 DEF Kept, Active
<1>2. ASSUME NEW r \in Request, run' = [run EXCEPT ![KeyOf[r]] = Accepted(r)],
             run[KeyOf[r]].status = "none"
      PROVE  run'[k] = run[k]
  BY <1>a, <1>2
<1>3. ASSUME NEW r \in Request, Emit(r)
      PROVE  run'[k].status = "abandoned" /\ ~run'[k].delta
  BY <1>3, SpokenRow DEF Active
<1> QED BY <1>1, <1>2, <1>3, RowStep

LEMMA ReclaimsStep ==
    ASSUME TypeOK, ReclaimsAreUnseen, [Next]_vars
    PROVE  ReclaimsAreUnseen'
<1>a. refunds \in [Request -> SUBSET Key]
  BY DEF TypeOK
<1>1. ASSUME NEW r \in Request, NEW k \in refunds[r]
      PROVE  run'[k].status = "abandoned" /\ ~run'[k].delta
  BY <1>1, <1>a, AbandonedStays DEF ReclaimsAreUnseen
<1>2. CASE UNCHANGED refunds
  BY <1>1, <1>2 DEF ReclaimsAreUnseen
<1>3. ASSUME NEW r \in Request, RefundReclaimed(r) \/ OpeningFails(r) \/ Crash(r)
      PROVE  ReclaimsAreUnseen'
  <2>1. refunds' = [refunds EXCEPT ![r] = {}]
    BY <1>3 DEF RefundReclaimed, OpeningFails, Crash
  <2> QED BY <1>1, <1>a, <2>1 DEF ReclaimsAreUnseen
<1>4. ASSUME NEW r \in Request, Reclaim(r)
      PROVE  ReclaimsAreUnseen'
  BY <1>1, <1>4, ReclaimedRow DEF ReclaimsAreUnseen
<1>5. ASSUME NEW r \in Request, Step(r),
             ~(RefundReclaimed(r) \/ OpeningFails(r) \/ Crash(r) \/ Reclaim(r))
      PROVE  UNCHANGED refunds
  <2>1. CASE Stream(r)
    BY <2>1, StreamRows
  <2>2. CASE Working(r)
    BY <2>2 DEF Working, ClearSession, WorkerChecks, Emit, WorkerStops, WorkerEnds
  <2>3. CASE Preparing(r)
    BY <1>5, <2>3 DEF Preparing, Opening, Lookup, Reserve, Create, Recheck, Abort, GiveBack,
       CreateFails, BreaksOff
  <2> QED BY <1>5, <2>1, <2>2, <2>3 DEF Step
<1> QED BY <1>2, <1>3, <1>4, <1>5, Steps, KeysStand

LEMMA SettledStep ==
    ASSUME TypeOK, TextIsRecorded, EndsAreFair, MessagesAreSettled, [Next]_vars
    PROVE  MessagesAreSettled'
<1>a. /\ pc \in [Request -> Label] /\ saw \in [Request -> BOOLEAN]
      /\ quota \in [Request -> {"none", "held", "counted", "returned"}]
      /\ worker \in [Request -> {"idle", "clearing", "working", "checked", "stopped"}]
      /\ emitted \in [Request -> 0 .. MaxDelta] /\ MaxDelta \in Nat
  BY StreamAssumption DEF TypeOK
<1> DEFINE Alive == {"clearing", "working", "checked"}
           Closing == {"complete", "settle", "completed"}
           Good(r) == /\ quota'[r] = "counted" => saw'[r]
                      /\ pc'[r] \in Closing /\ quota'[r] = "held" => "error" \in Faults
                      /\ worker'[r] \in Alive \/ emitted'[r] > 0 \/ pc'[r] = "stored"
                            => quota'[r] # "none"
<1>1. ASSUME NEW r \in Request, UNCHANGED <<quota[r], emitted[r], worker[r]>>,
             saw[r] => saw'[r],
             pc'[r] \in Closing => pc[r] \in Closing,
             pc'[r] = "stored" => pc[r] = "stored"
      PROVE  Good(r)
  BY <1>1 DEF MessagesAreSettled
<1>2. ASSUME NEW r \in Request, Stands(r)
      PROVE  Good(r)
  BY <1>1, <1>2 DEF Stands
<1>3. ASSUME NEW r \in Request, NEW o \in {"counted", "returned"}, Settle(r, o),
             UNCHANGED <<emitted, worker>>, saw[r] => saw'[r], pc'[r] # "stored",
             o = "counted" => saw'[r]
      PROVE  Good(r)
  BY <1>a, <1>3 DEF MessagesAreSettled, Settle
<1>s. ASSUME NEW r \in Request, NEW o \in {"counted", "returned"}, SettleOrLog(r, o),
             UNCHANGED <<emitted, worker>>, saw[r] => saw'[r], pc'[r] # "stored",
             o = "counted" => saw'[r]
      PROVE  Good(r)
  <2>1. CASE "error" \in Faults /\ UNCHANGED quota
    BY <1>s, <2>1 DEF MessagesAreSettled
  <2> QED BY <1>3, <1>s, <2>1 DEF SettleOrLog
<1>4. ASSUME NEW r \in Request, Stream(r)
      PROVE  Good(r)
  <2>1. CASE Vanish(r) \/ Accept(r) \/ SetupFails(r) \/ Resume(r) \/ Disconnect(r)
             \/ Fail(r) \/ Complete(r) \/ RefundFails(r)
    <3>1. /\ UNCHANGED <<quota, emitted, worker, saw>>
          /\ pc'[r] \in Closing => pc[r] \in Closing
          /\ pc'[r] # "stored"
      BY <2>1, <1>a DEF Vanish, Accept, SetupFails, Resume, Disconnect, Fail, Complete,
         RefundFails, Goto, rows, thread
    <3> QED BY <1>1, <3>1
  <2>2. CASE SendCompleted(r) \/ Withdraw(r) \/ WithdrawFails(r) \/ Refund(r) \/ Finally(r)
             \/ LastRefund(r)
    <3>1. /\ UNCHANGED <<quota, emitted, worker, saw>>
          /\ \E l \in {"completed", "fail", "finally", "lastrefund", "misreported", "cancelled",
                       "unpaid", "failed", "broken"} :
                pc' = [pc EXCEPT ![r] = l] /\ (l = "completed" => pc[r] = "settle")
      BY <2>2 DEF SendCompleted, Withdraw, WithdrawFails, Refund, Finally, LastRefund, Departed,
         Goto, rows, thread
    <3> QED BY <1>a, <1>1, <3>1
  <2>3. CASE Persist(r)
    <3>1. /\ UNCHANGED <<emitted, worker, saw>> /\ pc[r] = "accepted"
          /\ \/ UNCHANGED quota /\ pc' = [pc EXCEPT ![r] = "fail"]
             \/ quota' = [quota EXCEPT ![r] = "held"] /\ pc' = [pc EXCEPT ![r] = "stored"]
      BY <2>3 DEF Persist, Goto, thread
    <3>2. CASE UNCHANGED quota /\ pc' = [pc EXCEPT ![r] = "fail"]
      BY <1>a, <1>1, <3>1, <3>2
    <3>3. CASE quota' = [quota EXCEPT ![r] = "held"] /\ pc' = [pc EXCEPT ![r] = "stored"]
      BY <1>a, <3>3
    <3> QED BY <3>1, <3>2, <3>3
  <2>4. CASE MarkRunning(r)
    <3>1. /\ UNCHANGED <<emitted, quota, saw>> /\ pc[r] = "stored"
          /\ pc' = [pc EXCEPT ![r] = "streaming"]
      BY <2>4 DEF MarkRunning, Goto
    <3> QED BY <1>a, <3>1 DEF MessagesAreSettled
  <2>5. CASE Dequeue(r) \/ VerdictFails(r)
    <3>1. /\ UNCHANGED <<emitted, worker>>
          /\ saw' = saw \/ saw' = [saw EXCEPT ![r] = TRUE]
          /\ UNCHANGED quota \/ Settle(r, "returned")
      BY <2>5 DEF Dequeue, VerdictFails
    <3>2. pc'[r] \notin Closing \cup {"stored"}
      <4>1. \E l \in {"yielded", "result", "notice", "apology", "cleanup", "fail"} :
               pc' = [pc EXCEPT ![r] = l]
        BY <2>5 DEF Dequeue, VerdictFails, Goto
      <4> QED BY <1>a, <4>1
    <3>3. saw[r] => saw'[r]
      BY <1>a, <3>1
    <3> QED BY <1>1, <1>3, <3>1, <3>2, <3>3
  <2>6. CASE Finalize(r) \/ FinalizeFails(r)
    <3>1. /\ UNCHANGED <<emitted, worker, saw>>
          /\ pc[r] \in {"result", "notice", "apology"}
          /\ \/ SettleOrLog(r, Counted(r))
             \/ UNCHANGED quota /\ pc' = [pc EXCEPT ![r] = "cleanup"]
          /\ \E l \in {"fail", "complete", "cleanup"} : pc' = [pc EXCEPT ![r] = l]
      BY <2>6 DEF Finalize, FinalizeFails, Goto, thread
    <3>2. saw[r]
      BY <3>1 DEF EndsAreFair
    <3>3. CASE SettleOrLog(r, Counted(r))
      <4>1. Counted(r) \in {"counted", "returned"} /\ pc'[r] # "stored"
        BY <1>a, <3>1 DEF Counted
      <4> QED BY <1>s, <3>1, <3>2, <3>3, <4>1
    <3>4. CASE UNCHANGED quota /\ pc' = [pc EXCEPT ![r] = "cleanup"]
      BY <1>a, <1>1, <3>1, <3>4
    <3> QED BY <3>1, <3>3, <3>4
  <2>7. CASE Cleanup(r) \/ CleanupFails(r)
    <3>1. /\ UNCHANGED <<emitted, worker, saw>>
          /\ \E l \in {"withdraw", "finally", "fail"} : pc' = [pc EXCEPT ![r] = l]
          /\ \/ saw[r] /\ SettleOrLog(r, "counted")
             \/ Settle(r, "returned")
             \/ UNCHANGED quota
      BY <2>7 DEF Cleanup, CleanupFails, Goto, thread
    <3>2. pc'[r] \notin Closing \cup {"stored"}
      BY <1>a, <3>1
    <3> QED BY <1>1, <1>3, <1>s, <3>1, <3>2
  <2> QED BY <1>4, <2>1, <2>2, <2>3, <2>4, <2>5, <2>6, <2>7 DEF Stream
<1>5. ASSUME NEW r \in Request, Preparing(r)
      PROVE  Good(r)
  <2>1. UNCHANGED <<quota, emitted, worker, saw>>
    BY <1>5 DEF Preparing, Opening, Reclaim, RefundReclaimed, Lookup, Reserve, Create, Recheck,
       Abort, GiveBack, OpeningFails, CreateFails, BreaksOff, thread
  <2>2. \E l \in Unopened \cup {"opened", "broken"} : pc' = [pc EXCEPT ![r] = l]
    BY <1>5, PreparingLabels
  <2>3. pc'[r] \notin Closing \cup {"stored"}
    BY <1>a, <2>2 DEF Unopened, Early
  <2> QED BY <1>1, <2>1, <2>3
<1>6. ASSUME NEW r \in Request, Working(r)
      PROVE  Good(r)
  <2>1. UNCHANGED <<pc, quota, saw>> /\ worker[r] \in Alive
    BY <1>6 DEF Working, ClearSession, WorkerChecks, Emit, WorkerStops, WorkerEnds
  <2> QED BY <2>1 DEF MessagesAreSettled
<1>7. ASSUME NEW r \in Request, Crash(r)
      PROVE  Good(r)
  <2>1. /\ UNCHANGED <<quota, emitted, saw>>
        /\ pc' = [pc EXCEPT ![r] = "crashed"] /\ worker' = [worker EXCEPT ![r] = "stopped"]
    BY <1>7 DEF Crash, Goto
  <2> QED BY <1>a, <2>1 DEF MessagesAreSettled
<1>8. ASSUME NEW r \in Request PROVE Good(r)
  <2> HIDE DEF Good
  <2>1. ASSUME NEW o \in Request, Step(o) PROVE Good(r)
    BY <1>2, <1>4, <1>5, <1>6, <1>7, <2>1, OthersStand DEF Step
  <2> QED BY <1>2, <2>1, Steps, KeysStand
<1> QED BY <1>8 DEF MessagesAreSettled

LEMMA OrphanStep ==
    ASSUME TypeOK, RowsAreOwned, NoOrphanReservation, [Next]_vars
    PROVE  NoOrphanReservation'
<1>a. /\ run \in [Key -> RunType] /\ pc \in [Request -> Label]
      /\ wallet \in [Key -> {"none", "reserved", "released"}]
      /\ KeyOf \in [Request -> Key] /\ None \notin Request
  BY StreamAssumption DEF TypeOK
<1> SUFFICES ASSUME NEW k \in Key, wallet'[k] = "reserved", run'[k].status = "none"
             PROVE  \E r \in Request : KeyOf[r] = k /\ (Responsible(r)' \/ pc'[r] \in Stopped)
  BY DEF NoOrphanReservation, Stopped
<1>1. run[k].status = "none"
  <2>1. CASE \A j \in Key : Kept(j)
    BY <2>1 DEF Kept, Terminal
  <2>2. ASSUME NEW r \in Request, run' = [run EXCEPT ![KeyOf[r]] = Accepted(r)]
        PROVE  run[k].status = "none"
    BY <1>a, <2>2 DEF Accepted
  <2>3. ASSUME NEW r \in Request, Emit(r)
        PROVE  run[k].status = "none"
    BY <2>3, SpokenRow
  <2> QED BY <2>1, <2>2, <2>3, RowStep
<1>2. CASE wallet[k] = "reserved"
  <2>1. PICK r \in Request : KeyOf[r] = k /\ (Responsible(r) \/ pc[r] \in Stopped)
    BY <1>1, <1>2 DEF NoOrphanReservation, Stopped
  <2>2. CASE pc[r] \in Stopped
    BY <2>1, <2>2, OverStands DEF Over, Stopped
  <2>3. CASE Responsible(r)
    <3>1. CASE Step(r)
      <4>1. ~Stream(r)
        BY <1>1, <1>a, <2>1, StreamRows DEF RowsAreOwned, Mine, Open, Opened
      <4>2. CASE Working(r)
        BY <2>1, <2>3, <4>2 DEF Working, ClearSession, WorkerChecks, Emit, WorkerStops,
           WorkerEnds, Responsible
      <4>3. CASE Crash(r) \/ BreaksOff(r)
        BY <1>a, <2>1, <4>3 DEF Crash, BreaksOff, Goto, Stopped
      <4>4. CASE GiveBack(r)
        BY <2>1, <4>4, ReleasedKeys DEF GiveBack
      <4>5. CASE Create(r) \/ CreateFails(r) \/ Abort(r)
        <5>1. \E l \in {"opened", "recheck", "abort", "giveback"} : pc' = [pc EXCEPT ![r] = l]
          BY <4>5 DEF Create, CreateFails, Abort, Goto
        <5> QED BY <1>a, <2>1, <5>1 DEF Responsible, Over
      <4>6. CASE Recheck(r)
        <5>1. pc' = [pc EXCEPT ![r] = "giveback"]
          BY <1>1, <2>1, <4>6 DEF Recheck, Goto
        <5> QED BY <1>a, <2>1, <5>1 DEF Responsible, Over
      <4>7. CASE Reclaim(r) \/ RefundReclaimed(r) \/ Lookup(r) \/ Reserve(r) \/ OpeningFails(r)
        BY <2>3, <4>7 DEF Reclaim, RefundReclaimed, Lookup, Reserve, OpeningFails, Responsible
      <4> QED BY <3>1, <4>1, <4>2, <4>3, <4>4, <4>5, <4>6, <4>7 DEF Step, Preparing, Opening
    <3>2. ASSUME NEW o \in Request, Step(o), o # r
          PROVE  Responsible(r)'
      BY <2>3, <3>2, OthersStand DEF Stands, Responsible
    <3>3. Stands(r) => Responsible(r)'
      BY <2>3 DEF Stands, Responsible
    <3> QED BY <2>1, <3>1, <3>2, <3>3, Steps, KeysStand
  <2> QED BY <2>1, <2>2, <2>3
<1>3. CASE wallet[k] # "reserved"
  <2>1. PICK r \in Request : Reserve(r) /\ k = KeyOf[r] /\ wallet[k] = "none"
    BY <1>3, WalletStep
  <2>2. pc' = [pc EXCEPT ![r] = "create"]
    BY <1>a, <2>1 DEF Reserve, Goto
  <2> QED BY <1>a, <2>1, <2>2 DEF Responsible, Over
<1> QED BY <1>2, <1>3

LEMMA ClearedStep ==
    ASSUME TypeOK, TextIsRecorded, \A r \in Request : worker[r] = "clearing" => r \in Resets,
           [Next]_vars
    PROVE  /\ \A r \in Request : worker'[r] = "clearing" => r \in Resets
           /\ Cleared => Cleared'
           /\ \A r \in Request : ClearSession(r) => Cleared'
<1>a. /\ worker \in [Request -> {"idle", "clearing", "working", "checked", "stopped"}]
      /\ Resets \subseteq Request
  BY StreamAssumption DEF TypeOK
<1> DEFINE Done == {"working", "checked", "stopped"}
           Good(r) == /\ worker'[r] = "clearing" => r \in Resets
                      /\ worker[r] \in Done => worker'[r] \in Done
<1>1. ASSUME NEW r \in Request, UNCHANGED worker[r] PROVE Good(r)
  BY <1>1
<1>2. ASSUME NEW r \in Request, MarkRunning(r) PROVE Good(r)
  <2>1. worker[r] = "idle"
    BY <1>2 DEF MarkRunning, TextIsRecorded
  <2>2. worker'[r] = IF r \in Resets THEN "clearing" ELSE "working"
    BY <1>a, <1>2 DEF MarkRunning
  <2> QED BY <2>1, <2>2
<1>3. ASSUME NEW r \in Request, Working(r) \/ Crash(r) PROVE Good(r)
  <2>1. worker'[r] \in Done
    BY <1>a, <1>3 DEF Working, ClearSession, WorkerChecks, Emit, WorkerStops, WorkerEnds, Crash
  <2> QED BY <2>1
<1>4. ASSUME NEW r \in Request, Preparing(r) PROVE Good(r)
  <2>1. UNCHANGED worker
    BY <1>4 DEF Preparing, Opening, Reclaim, RefundReclaimed, Lookup, Reserve, Create, Recheck,
       Abort, GiveBack, OpeningFails, CreateFails, BreaksOff, thread
  <2> QED BY <1>1, <2>1
<1>5. ASSUME NEW r \in Request, Stream(r), ~MarkRunning(r) PROVE Good(r)
  <2>1. UNCHANGED worker
    BY <1>5 DEF Stream, Vanish, Accept, Persist, SetupFails, Dequeue, VerdictFails, Resume,
       Disconnect, Finalize, FinalizeFails, Complete, SendCompleted, Cleanup, CleanupFails,
       Withdraw, WithdrawFails, Fail, Refund, RefundFails, Finally, LastRefund, thread
  <2> QED BY <1>1, <2>1
<1>6. ASSUME NEW r \in Request PROVE Good(r)
  <2> HIDE DEF Good
  <2>1. ASSUME NEW o \in Request, Step(o) PROVE Good(r)
    <3>1. CASE o = r
      BY <1>2, <1>3, <1>4, <1>5, <2>1, <3>1 DEF Step
    <3>2. CASE o # r
      BY <1>1, <2>1, <3>2, OthersStand DEF Stands
    <3> QED BY <3>1, <3>2
  <2> QED BY <1>1, <2>1, Steps, KeysStand DEF Stands
<1>7. Cleared => Cleared'
  BY <1>a, <1>6 DEF Cleared
<1>8. ASSUME NEW r \in Request, ClearSession(r) PROVE Cleared'
  BY <1>a, <1>8 DEF Cleared, ClearSession
<1> QED BY <1>6, <1>7, <1>8

LEMMA StoredStep ==
    ASSUME TypeOK, TextIsRecorded, MessagesAreStoredOnce, [Next]_vars
    PROVE  MessagesAreStoredOnce'
<1>a. /\ quota \in [Request -> {"none", "held", "counted", "returned"}]
      /\ MessageOf \in [Request -> Message]
  BY StreamAssumption DEF TypeOK
<1>1. /\ \A r \in Request : worker'[r] = "clearing" => r \in Resets
      /\ Cleared => Cleared'
      /\ \A r \in Request : ClearSession(r) => Cleared'
  BY ClearedStep DEF MessagesAreStoredOnce
<1> DEFINE Once == \A r \in Request :
              /\ quota[r] # "none" => MessageOf[r] \in inbound
              /\ \A o \in Request : quota[r] # "none" /\ quota[o] # "none"
                                    /\ MessageOf[r] = MessageOf[o] => r = o
<1>2. ASSUME Once, UNCHANGED inbound, \A r \in Request : quota'[r] = "none" <=> quota[r] = "none"
      PROVE  Once'
  BY <1>2
<1>3. ASSUME Once, NEW r \in Request, Persist(r)
      PROVE  Once'
  <2>1. CASE UNCHANGED quota /\ inbound \subseteq inbound'
    BY <1>3, <2>1
  <2>2. CASE /\ MessageOf[r] \notin inbound /\ inbound' = inbound \cup {MessageOf[r]}
             /\ quota' = [quota EXCEPT ![r] = "held"]
    BY <1>a, <1>3, <2>2
  <2> QED BY <1>3, <2>1, <2>2 DEF Persist
<1>4. ASSUME Once, NEW r \in Request, Stream(r), ~Persist(r)
      PROVE  Once'
  <2>1. UNCHANGED inbound
    BY <1>4 DEF Stream, Vanish, Accept, MarkRunning, SetupFails, Dequeue, VerdictFails, Resume,
       Disconnect, Finalize, FinalizeFails, Complete, SendCompleted, Cleanup, CleanupFails,
       Withdraw, WithdrawFails, Fail, Refund, RefundFails, Finally, LastRefund, rows
  <2>2. UNCHANGED quota \/ \E o \in {"counted", "returned"} : Settle(r, o)
    BY <1>4 DEF Stream, Vanish, Accept, MarkRunning, SetupFails, Dequeue, VerdictFails, Resume,
       Disconnect, Finalize, FinalizeFails, Complete, SendCompleted, Cleanup, CleanupFails,
       Withdraw, WithdrawFails, Fail, Refund, RefundFails, Finally, LastRefund, SettleOrLog,
       Counted
  <2>3. \A o \in Request : quota'[o] = "none" <=> quota[o] = "none"
    BY <1>a, <2>2 DEF Settle
  <2> HIDE DEF Once
  <2> QED BY <1>2, <1>4, <2>1, <2>3
<1>5. ASSUME NEW r \in Request, Step(r), ~Stream(r), ~ClearSession(r)
      PROVE  UNCHANGED <<inbound, quota>>
  <2>1. CASE Working(r)
    BY <1>5, <2>1 DEF Working, WorkerChecks, Emit, WorkerStops, WorkerEnds, rows
  <2>2. CASE Preparing(r) \/ Crash(r)
    BY <2>2 DEF Preparing, Opening, Reclaim, RefundReclaimed, Lookup, Reserve, Create, Recheck,
       Abort, GiveBack, OpeningFails, CreateFails, BreaksOff, Crash, rows
  <2> QED BY <1>5, <2>1, <2>2 DEF Step
<1>6. ASSUME Once PROVE Cleared' \/ Once'
  <2> HIDE DEF Once
  <2>1. ASSUME NEW r \in Request, Step(r) PROVE Cleared' \/ Once'
    BY <1>1, <1>2, <1>3, <1>4, <1>5, <1>6, <2>1
  <2>2. ASSUME \A r \in Request : Stands(r), UNCHANGED inbound PROVE Once'
    BY <1>2, <1>6, <2>2 DEF Stands
  <2> QED BY <2>1, <2>2, Steps, KeysStand
<1> QED BY <1>1, <1>6 DEF MessagesAreStoredOnce

LEMMA ReleasesStep ==
    ASSUME TypeOK, RowsAreOwned, EndsAreFair, ReclaimsAreUnseen, ReleasesAreEarned, [Next]_vars
    PROVE  ReleasesAreEarned'
<1>a. /\ pc \in [Request -> Label] /\ saw \in [Request -> BOOLEAN]
      /\ KeyOf \in [Request -> Key] /\ refunds \in [Request -> SUBSET Key]
  BY StreamAssumption DEF TypeOK
<1> SUFFICES ASSUME NEW k \in Key, wallet'[k] = "released"
             PROVE  \/ GivenAway(k)'
                    \/ run'[k].status = "abandoned" /\ ~run'[k].delta
                    \/ \E r \in Request : KeyOf[r] = k /\ Mine(r)' /\ Earned(r)'
  BY DEF ReleasesAreEarned
<1>b. \A r \in Request : Mine(r) => Mine(r)'
  BY OwnersStay
<1>1. CASE wallet[k] = "released"
  <2>1. CASE GivenAway(k)
    BY <2>1, OverStands DEF GivenAway, Over
  <2>2. CASE run[k].status = "abandoned" /\ ~run[k].delta
    BY <2>2, AbandonedStays
  <2>3. ASSUME NEW r \in Request, KeyOf[r] = k, Mine(r), Earned(r)
        PROVE  Mine(r)' /\ Earned(r)'
    BY <1>b, <2>3, OverStands DEF Earned, Over
  <2> QED BY <1>1, <2>1, <2>2, <2>3 DEF ReleasesAreEarned
<1>2. ASSUME NEW o \in Request, RefundReclaimed(o), k \in refunds[o]
      PROVE  run'[k].status = "abandoned" /\ ~run'[k].delta
  BY <1>2, <1>a DEF ReclaimsAreUnseen, RefundReclaimed
<1>3. ASSUME NEW o \in Request, GiveBack(o), k = KeyOf[o]
      PROVE  GivenAway(k)'
  BY <1>3, <1>a DEF GiveBack, Goto, GivenAway
<1>4. ASSUME NEW o \in Request, Refund(o), k = KeyOf[o]
      PROVE  Mine(o)' /\ Earned(o)'
  <2>1. Mine(o)
    BY <1>4 DEF Refund, RowsAreOwned, Unopened, Early, Stopped
  <2>2. /\ pc[o] \in {"repay", "unpaid"} /\ UNCHANGED saw
        /\ \/ \E l \in {"failed", "broken"} : pc' = [pc EXCEPT ![o] = l]
           \/ pc[o] = "unpaid" /\ pc' = [pc EXCEPT ![o] = "cancelled"]
    BY <1>4 DEF Refund, Goto
  <2>3. pc[o] = "unpaid" => ~saw[o]
    BY DEF EndsAreFair
  <2> QED BY <1>a, <1>b, <2>1, <2>2, <2>3 DEF Earned, Over
<1>5. ASSUME NEW o \in Request, LastRefund(o), k = KeyOf[o]
      PROVE  Mine(o)' /\ Earned(o)'
  <2>1. Mine(o)
    BY <1>5 DEF LastRefund, RowsAreOwned, Unopened, Early, Stopped
  <2>2. /\ pc[o] = "lastrefund" /\ UNCHANGED saw
        /\ \E l \in {"cancelled", "broken"} : pc' = [pc EXCEPT ![o] = l]
    BY <1>5 DEF LastRefund, Departed, Goto
  <2>3. ~saw[o]
    BY <2>2 DEF EndsAreFair
  <2> QED BY <1>a, <1>b, <2>1, <2>2, <2>3 DEF Earned, Over
<1>6. CASE wallet[k] # "released"
  <2>1. \E o \in Request : \/ RefundReclaimed(o) /\ k \in refunds[o]
                           \/ GiveBack(o) /\ k = KeyOf[o]
                           \/ (Refund(o) \/ LastRefund(o)) /\ k = KeyOf[o]
    BY <1>6, WalletStep
  <2> QED BY <1>2, <1>3, <1>4, <1>5, <2>1
<1> QED BY <1>1, <1>6

-----------------------------------------------------------------------------
(***************************************************************************)
(* The theorems.                                                           *)
(***************************************************************************)
LEMMA InitIInv == Init => IInv
<1> SUFFICES ASSUME Init PROVE IInv
  OBVIOUS
<1>1. TypeOK
  <2>1. NoRun \in RunType
    BY DEF NoRun, RunType
  <2>2. 0 \in 0 .. MaxDelta /\ <<>> \in Seq(Item)
    BY StreamAssumption
  <2> QED BY <2>1, <2>2 DEF Init, TypeOK, Label
<1>2. \A k \in Key : run[k].status = "none" /\ run[k].owner = None /\ ~Active(k)
  BY DEF Init, NoRun, Active
<1>3. /\ \A r \in Request : /\ pc[r] = "new" /\ worker[r] = "idle" /\ emitted[r] = 0
                            /\ queue[r] = <<>> /\ ~saw[r] /\ refunds[r] = {}
                            /\ quota[r] = "none"
      /\ \A k \in Key : wallet[k] = "none"
      /\ KeyOf \in [Request -> Key] /\ None \notin Request
  BY StreamAssumption DEF Init
<1>4. OneActive /\ RowsAreOwned
  BY <1>2, <1>3 DEF OneActive, RowsAreOwned, Mine, Unopened, Early
<1>5. ReservationsAreMade /\ ReleasesAreEarned /\ NoOrphanReservation
  BY <1>3 DEF ReservationsAreMade, Charging, ReleasesAreEarned, NoOrphanReservation
<1>6. TextIsRecorded /\ QueueInOrder
  BY <1>3 DEF TextIsRecorded, QueueInOrder
<1>7. EndsAreFair /\ ReclaimsAreUnseen /\ MessagesAreSettled /\ MessagesAreStoredOnce
  BY <1>3 DEF EndsAreFair, ReclaimsAreUnseen, MessagesAreSettled, MessagesAreStoredOnce
<1> QED BY <1>1, <1>4, <1>5, <1>6, <1>7 DEF IInv

LEMMA Invariance == Spec => []IInv
<1>1. IInv /\ [Next]_vars => IInv'
  BY TypeStep, OneActiveStep, OwnersStep, ReservationsStep, TextStep, QueueStep, EndsStep,
     ReclaimsStep, SettledStep, StoredStep, ReleasesStep, OrphanStep DEF IInv
<1> QED BY <1>1, InitIInv, PTL DEF Spec

\* At most one turn of a conversation is active, and nothing leaves its type.
THEOREM OneTurnAtATime == Spec => []StreamIsSound
<1>1. IInv => StreamIsSound
  <2> SUFFICES ASSUME IInv PROVE Cardinality({k \in Key : Active(k)}) <= 1
    BY DEF IInv, StreamIsSound, OneActiveTurn
  <2>1. CASE {k \in Key : Active(k)} = {}
    BY <2>1, FS_EmptySet
  <2>2. ASSUME NEW k \in Key, Active(k)
        PROVE  Cardinality({j \in Key : Active(j)}) <= 1
    <3>1. {j \in Key : Active(j)} = {k}
      <4>1. \A j \in Key : Active(j) => j = k
        BY <2>2 DEF IInv, OneActive
      <4> QED BY <2>2, <4>1
    <3> QED BY <3>1, FS_Singleton
  <2> QED BY <2>1, <2>2
<1> QED BY <1>1, Invariance, PTL

\* A reservation is never left to nobody: until the run of its key is inserted some
\* request is responsible for it, or was stopped there by a crash or an error.
THEOREM NothingIsOrphaned == Spec => []NoOrphanReservation
<1>1. IInv => NoOrphanReservation
  BY DEF IInv
<1> QED BY <1>1, Invariance, PTL

\* No statement of any request overwrites the outcome of a turn: cancellation, reclaim,
\* completion and failure race for it, and the first one decides.
THEOREM OutcomesAreFinal == Spec => OutcomeIsFinal
<1> DEFINE Final == \A k \in Key : run[k].status \in Terminal => run'[k].status = run[k].status
<1>1. ASSUME IInv, [Next]_vars
      PROVE  Final
  <2>a. TypeOK /\ run \in [Key -> RunType] /\ KeyOf \in [Request -> Key]
    BY <1>1, StreamAssumption DEF IInv, TypeOK
  <2>1. CASE \A k \in Key : Kept(k)
    BY <2>1 DEF Kept, Active, Terminal
  <2>2. ASSUME NEW r \in Request, run' = [run EXCEPT ![KeyOf[r]] = Accepted(r)],
               run[KeyOf[r]].status = "none"
        PROVE  Final
    BY <2>a, <2>2 DEF Terminal
  <2>3. ASSUME NEW r \in Request, Emit(r)
        PROVE  Final
    BY <2>a, <2>3, SpokenRow
  <2> QED BY <1>1, <2>a, <2>1, <2>2, <2>3, RowStep
<1>2. ASSUME IInv, [Next]_vars
      PROVE  [Final]_vars
  BY <1>1, <1>2
<1> QED BY <1>2, Invariance, PTL DEF Spec, OutcomeIsFinal

\* Whatever is retried, raced or cleared, nobody pays for text that was not sent.
THEOREM NobodyPaysForNothing == Spec => []PaidMeansServed
<1>1. IInv => PaidMeansServed
  BY DEF IInv, EndsAreFair, PaidMeansServed
<1> QED BY <1>1, Invariance, PTL

\* What a request that has shown text knows of its reservation, unless it has failed or
\* broken off, or a retry gave the coins away.
LEMMA SeenIsCharged ==
    ASSUME IInv, NEW r \in Request, Mine(r), saw[r], pc[r] \notin {"failed", "broken"},
           ~GivenAway(KeyOf[r])
    PROVE  wallet[KeyOf[r]] # "released"
<1>1. KeyOf[r] \in Key /\ run[KeyOf[r]].delta
  BY StreamAssumption DEF IInv, TextIsRecorded
<1>2. \A o \in Request : KeyOf[o] = KeyOf[r] /\ Mine(o) => o = r
  BY DEF Mine
<1>3. ~Earned(r)
  BY DEF Earned
<1> QED BY <1>1, <1>2, <1>3 DEF IInv, ReleasesAreEarned

\* A turn that is told to be completed has been charged, unless a retry of its key gave
\* the coins away, and a message of the day is used up only by a turn that has sent text
\* and was paid for.  Only a failing query leaves a completed turn uncounted.
THEOREM ClientsAreToldTheTruth == Spec => []ToldIsTrue
<1>1. ASSUME IInv
      PROVE  ToldIsTrue
  <2>1. ASSUME NEW r \in Request, pc[r] \in {"completed", "cancelled", "misreported"}, saw[r],
               ~GivenAway(KeyOf[r])
        PROVE  wallet[KeyOf[r]] = "reserved"
    <3>1. wallet[KeyOf[r]] \in {"none", "reserved", "released"}
      BY <1>1, StreamAssumption DEF IInv, TypeOK
    <3>2. wallet[KeyOf[r]] # "none"
      BY <1>1, <2>1 DEF IInv, ReservationsAreMade, Charging, Label, Over
    <3>3. Mine(r)
      BY <1>1, <2>1 DEF IInv, RowsAreOwned, Unopened, Early, Stopped
    <3> QED BY <1>1, <2>1, <3>1, <3>2, <3>3, SeenIsCharged
  <2>2. CompletedIsCharged
    BY <1>1, <2>1 DEF CompletedIsCharged, IInv, EndsAreFair
  <2>3. CountedIsPaid
    BY <1>1, <2>1 DEF CountedIsPaid, IInv, MessagesAreSettled
  <2> QED BY <2>2, <2>3 DEF ToldIsTrue
<1> QED BY <1>1, Invariance, PTL

\* Coins buy words, once for a message until a session is cleared, and words cost coins,
\* unless the turn has failed or a retry of its key gave them away.
THEOREM CoinsAreForWords == Spec => []CoinsBuyWords
<1>1. ASSUME IInv
      PROVE  CoinsBuyWords
  <2>1. PaidMeansServed
    BY <1>1 DEF IInv, EndsAreFair, PaidMeansServed
  <2>2. RefundedMeansUnseen
    BY <1>1, SeenIsCharged DEF RefundedMeansUnseen
  <2>3. ASSUME NEW r \in Request, Paid(r)
        PROVE  quota[r] # "none"
    <3>1. saw[r]
      BY <2>1, <2>3 DEF Paid, PaidMeansServed
    <3>2. emitted[r] > 0
      BY <1>1, <3>1 DEF IInv, TextIsRecorded
    <3> QED BY <1>1, <3>2 DEF IInv, MessagesAreSettled
  <2>4. MessagePaidOnce
    BY <1>1, <2>3 DEF MessagePaidOnce, IInv, MessagesAreStoredOnce
  <2> QED BY <2>1, <2>2, <2>4 DEF CoinsBuyWords
<1> QED BY <1>1, Invariance, PTL
=============================================================================
