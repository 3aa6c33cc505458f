----------------------------- MODULE Moderation -----------------------------
(***************************************************************************)
(* Content moderation tasks (app/platform/moderation): messages become     *)
(* tasks, worker processes claim the queued ones and review them by        *)
(* machine, reviewers claim what the machine flagged and decide.           *)
(*                                                                         *)
(* A claim of a worker is a timestamp on a row that stays queued; it goes  *)
(* stale after moderation_worker_claim_timeout_seconds.  Each step below   *)
(* is one transaction; what a worker or a reviewer has read stays with it. *)
(***************************************************************************)
EXTENDS Integers, FiniteSets, Sequences, SequencesExt

CONSTANTS Task,        \* sources of tasks: one idempotency key each
          Worker,      \* worker processes
          Staff,       \* signed-in reviewers and admins
          Admins,      \* those of Staff with the role admin
          MaxAttempts, \* moderation_worker_max_attempts
          BatchSize,   \* moderation_worker_batch_size
          MaxClaims    \* bound on the claims of a task (crashes make them endless)

ASSUME ModerationBounds == IsFiniteSet(Task) /\ MaxClaims \in Nat

VARIABLES task,   \* rows of content_moderation_tasks
          rule,   \* the rule's stored result of each task
          worker, \* what each worker process is doing
          desk,   \* what each member of staff is doing
          assured \* members of staff that were assured the task is theirs

moderationVars == <<task, rule, worker, desk, assured>>

Reviewable == {"needs_review", "reviewing", "blocked", "escalated"}
Decisions == {"approved", "false_positive", "risk_confirmed", "escalated", "closed"}
TaskStatus == Reviewable \cup Decisions \cup {"none", "queued", "machine_passed"}

NoTask == [status |-> "none", claim |-> "none", attempts |-> 0, assigned |-> {}]
Resting == [pc |-> "idle", todo |-> <<>>, verdict |-> "none"]
AtRest == [pc |-> "idle", of |-> {}]
-----------------------------------------------------------------------------
(***************************************************************************)
(* Creation.  INSERT ... ON CONFLICT DO NOTHING on the idempotency key, so *)
(* a row is made once; the rule's result follows in a second transaction,  *)
(* and a process that dies between the two never stores it.                *)
(***************************************************************************)
Create(k, status) ==
    /\ task[k].status = "none"
    /\ task' = [task EXCEPT ![k] = [NoTask EXCEPT !.status = status]]
    /\ UNCHANGED <<rule, worker, desk, assured>>

\* A message or an outbound text: the rule flags it, or it is sampled for the model.
Enqueue(k) ==
    \/ Create(k, "needs_review")
    \/ Create(k, "queued")
    \/ Create(k, "machine_passed")

\* An inbound text screened while the turn waits.
ScreenInbound(k) == Create(k, "needs_review") \/ Create(k, "machine_passed")

\* A reply that the synchronous guard has blocked.
RecordBlockedReply(k) == Create(k, "blocked")

\* Only the result of a queued task is read again, and its rule has passed.
StoreRule(k) ==
    /\ task[k].status # "none" /\ rule[k] = "none"
    /\ rule' = [rule EXCEPT ![k] = "pass"]
    /\ UNCHANGED <<task, worker, desk, assured>>
-----------------------------------------------------------------------------
(***************************************************************************)
(* The worker: run_once.                                                   *)
(***************************************************************************)
Claimable(k) == task[k].status = "queued" /\ task[k].claim \in {"none", "stale"}

\* The SELECT of the claim: ids that the UPDATE statements below check again.
SelectQueued(w) ==
    /\ worker[w].pc = "idle"
    /\ \E ids \in SUBSET {k \in Task : Claimable(k)} :
          /\ Cardinality(ids) \in 1..BatchSize
          /\ worker' = [worker EXCEPT ![w].pc = "claim",
                        ![w].todo = SetToSeq({<<k, NoTask>> : k \in ids})]
    /\ UNCHANGED <<task, rule, desk, assured>>

\* Variant: UPDATE ... WHERE id = ? without the conditions of the SELECT.
ClaimedUnchecked(k) == TRUE

\* A row that another worker has claimed since the SELECT is left to it.
StillClaimable(k) == Claimable(k)

ClaimBatch(w) ==
    LET mine == {k \in Task : StillClaimable(k)
                    /\ \E i \in DOMAIN worker[w].todo : worker[w].todo[i][1] = k}
        Row(k) == [task[k] EXCEPT !.claim = "fresh", !.attempts = @ + 1]
    IN  /\ worker[w].pc = "claim"
        /\ \A k \in mine : task[k].attempts < MaxClaims
        /\ task' = [k \in Task |-> IF k \in mine THEN Row(k) ELSE task[k]]
        /\ worker' = [worker EXCEPT
              ![w] = IF mine = {} THEN Resting
                     ELSE [@ EXCEPT !.pc = "review",
                                    !.todo = SetToSeq({<<k, Row(k)>> : k \in mine})]]
        /\ UNCHANGED <<rule, desk, assured>>

Id(w) == worker[w].todo[1][1]
Claimed(w) == worker[w].todo[1][2]

\* process_task up to its verdict: the rule's stored result is used again, the
\* image and the model are asked anew; an error of either is an attempt lost.
Review(w) ==
    \E match \in {"pass", "flagged"}, image, llm \in {"none", "pass", "flagged", "error"} :
      /\ worker[w].pc = "review"
      /\ rule[Id(w)] \in {"none", match}
      /\ image = "error" => llm = "none"
      /\ rule' = [rule EXCEPT ![Id(w)] = match]
      /\ worker' = [worker EXCEPT ![w].pc = "write",
            ![w].verdict = IF "error" \in {image, llm} THEN "error"
                           ELSE IF "flagged" \in {match, image, llm} THEN "flagged" ELSE "pass"]
      /\ UNCHANGED <<task, desk, assured>>

\* The product's moderation has been switched off since.
SkipTask(w) ==
    /\ worker[w].pc = "review"
    /\ worker' = [worker EXCEPT ![w].pc = "write", ![w].verdict = "pass"]
    /\ UNCHANGED <<task, rule, desk, assured>>

\* After an error: back to the queue, or to a person with the last attempt.
VerdictStatus(w) ==
    CASE worker[w].verdict = "pass" -> "machine_passed"
      [] worker[w].verdict = "flagged" -> "needs_review"
      [] OTHER -> IF Claimed(w).attempts >= MaxAttempts THEN "needs_review" ELSE "queued"

\* update_content_moderation_task_machine_status: UPDATE ... WHERE id = ?; then
\* the next task of the batch.
WriteVerdict(w) ==
    /\ worker[w].pc = "write"
    /\ task' = [task EXCEPT ![Id(w)].status = VerdictStatus(w), ![Id(w)].claim = "none"]
    /\ worker' = [worker EXCEPT
          ![w] = IF Len(@.todo) = 1 THEN Resting
                 ELSE [pc |-> "review", todo |-> Tail(@.todo), verdict |-> "none"]]
    /\ UNCHANGED <<rule, desk, assured>>

\* The process ends; what it had claimed waits until the claim is stale.
WorkerDies(w) ==
    /\ worker[w].pc # "idle"
    /\ worker' = [worker EXCEPT ![w] = Resting]
    /\ UNCHANGED <<task, rule, desk, assured>>

GoStale(k) ==
    /\ task[k].claim = "fresh"
    /\ task' = [task EXCEPT ![k].claim = "stale"]
    /\ UNCHANGED <<rule, worker, desk, assured>>
-----------------------------------------------------------------------------
(***************************************************************************)
(* The staff: /admin/moderation/tasks/{id}/claim, /decision, /actions.     *)
(***************************************************************************)
Assigned(row, s) == row.assigned = {s}
Free(row) == row.assigned = {}

MayOpen(s, row) ==
    \/ s \in Admins \/ Assigned(row, s)
    \/ Free(row) /\ row.status \in Reviewable

AskToClaim(s, k) ==
    /\ desk[s].pc = "idle" /\ task[k].status # "none"
    /\ MayOpen(s, task[k])
    /\ task[k].status \in Reviewable
    /\ ~(task[k].status = "reviewing" /\ ~Assigned(task[k], s))
    /\ desk' = [desk EXCEPT ![s] = [pc |-> "claim", of |-> {k}]]
    /\ UNCHANGED <<task, rule, worker, assured>>

\* The UPDATE takes a task that is free or already theirs.
Takeable(row, s) == row.status \in Reviewable /\ (Free(row) \/ Assigned(row, s))

ClaimTask(s) ==
    /\ desk[s].pc = "claim"
    /\ \E k \in desk[s].of :
          IF Takeable(task[k], s)
            THEN /\ task' = [task EXCEPT ![k].status = "reviewing", ![k].assigned = {s}]
                 /\ assured' = [assured EXCEPT ![k] = @ \cup {s}]
            ELSE UNCHANGED <<task, assured>>
    /\ desk' = [desk EXCEPT ![s] = AtRest]
    /\ UNCHANGED <<rule, worker>>

AskToDecide(s, k) ==
    /\ desk[s].pc = "idle" /\ MayOpen(s, task[k])
    /\ task[k].status = "reviewing"
    /\ Free(task[k]) \/ Assigned(task[k], s) \/ s \in Admins
    /\ desk' = [desk EXCEPT ![s] = [pc |-> "decide", of |-> {k}]]
    /\ UNCHANGED <<task, rule, worker, assured>>

\* The row is written whatever its status is by now; actions may come with it.
Decide(s) ==
    /\ desk[s].pc = "decide"
    /\ \E k \in desk[s].of, decision \in Decisions, act \in BOOLEAN :
          /\ act => s \in Admins
          /\ task' = [task EXCEPT ![k].status = decision]
          /\ desk' = [desk EXCEPT ![s] = IF act THEN [pc |-> "act", of |-> {k}] ELSE AtRest]
    /\ UNCHANGED <<rule, worker, assured>>

AskToAct(s, k) ==
    /\ desk[s].pc = "idle" /\ s \in Admins /\ task[k].status # "none"
    /\ desk' = [desk EXCEPT ![s] = [pc |-> "act", of |-> {k}]]
    /\ UNCHANGED <<task, rule, worker, assured>>

\* An admin blocks or closes the task; an action on the account leaves it as it is.
Act(s) ==
    /\ desk[s].pc = "act"
    /\ \E k \in desk[s].of :
          \/ \E status \in {"blocked", "closed"} : task' = [task EXCEPT ![k].status = status]
          \/ UNCHANGED task
    /\ desk' = [desk EXCEPT ![s] = AtRest]
    /\ UNCHANGED <<rule, worker, assured>>
-----------------------------------------------------------------------------
ModerationInit ==
    /\ task = [k \in Task |-> NoTask]
    /\ rule = [k \in Task |-> "none"]
    /\ worker = [w \in Worker |-> Resting]
    /\ desk = [s \in Staff |-> AtRest]
    /\ assured = [k \in Task |-> {}]

WorkerStep(w) ==
    \/ SelectQueued(w) \/ ClaimBatch(w) \/ Review(w) \/ SkipTask(w)
    \/ WriteVerdict(w) \/ WorkerDies(w)

StaffStep(s) ==
    \/ ClaimTask(s) \/ Decide(s) \/ Act(s)
    \/ \E k \in Task : AskToClaim(s, k) \/ AskToDecide(s, k) \/ AskToAct(s, k)

ModerationNext ==
    \/ \E k \in Task : \/ Enqueue(k) \/ ScreenInbound(k)
                     \/ RecordBlockedReply(k) \/ StoreRule(k) \/ GoStale(k)
    \/ \E w \in Worker : WorkerStep(w)
    \/ \E s \in Staff : StaffStep(s)

ModerationSpec == ModerationInit /\ [][ModerationNext]_moderationVars
-----------------------------------------------------------------------------
\* Every row, worker and desk has a value of its type.
ModerationTypeOK ==
    /\ \A k \in Task : /\ task[k].status \in TaskStatus
                       /\ task[k].claim \in {"none", "fresh", "stale"}
                       /\ task[k].attempts \in 0..MaxClaims
                       /\ Cardinality(task[k].assigned) <= 1
                       /\ assured[k] \subseteq Staff
                       /\ rule[k] \in {"none", "pass", "flagged"}
    /\ \A w \in Worker : worker[w].pc \in {"idle", "claim", "review", "write"}
    /\ \A s \in Staff : desk[s].pc \in {"idle", "claim", "decide", "act"}

\* The claim is atomic (design document, section 7): whatever two workers have
\* selected, a task whose claim is still fresh is not counted for another attempt.
FreshClaimIsRespected ==
    [][\A k \in Task : task'[k].attempts > task[k].attempts =>
          task[k].claim # "fresh" /\ task[k].status = "queued"]_moderationVars

\* Of several reviewers who press "claim" on one task, one is assured it is theirs.
OneReviewer == \A k \in Task : Cardinality(assured[k]) <= 1
\* The two halves of section 7 of the design document.
ClaimsAreAtomic == []ModerationTypeOK /\ []OneReviewer /\ FreshClaimIsRespected
=============================================================================
