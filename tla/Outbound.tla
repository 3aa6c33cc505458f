------------------------------ MODULE Outbound ------------------------------
(***************************************************************************)
(* Delivery of Zhaoxi's proactive messages (app/products/zhaoxi/proactive, *)
(* app/platform/gateways/node_agent.py): the schedulers claim the due      *)
(* reminders and commitments, make an outbound message under one           *)
(* idempotency key per duty and period, and send it at once or leave it to *)
(* the node that hosts the account.                                        *)
(*                                                                         *)
(* Each step below is one transaction, one call of the gateway or one HTTP *)
(* call of a node.  A period stands for a due_at.                          *)
(***************************************************************************)
EXTENDS Naturals, FiniteSets

CONSTANTS Duty,           \* reminders and commitments
          KindOf,         \* "fixed", "dynamic" or "commitment" for each duty
          Recurring,      \* duties with a recur_rule
          Remote,         \* duties of accounts on a remote node
          Scheduler,      \* processes that run the scheduler
          Agent,          \* node agent processes of the remote node
          MaxDuties,      \* bound on the duties that are made
          MaxPeriods,     \* bound on the periods of a duty
          MaxRunAttempts, \* dynamic_reminder_max_retries + 1
          MaxNodeClaims   \* attempts < max_attempts of claim_pending_outbound_by_node

ASSUME OutboundBounds ==
    /\ MaxPeriods \in Nat
    /\ MaxRunAttempts \in Nat \ {0} /\ MaxNodeClaims \in Nat \ {0}

VARIABLES duty,      \* rows of reminders and proactive_commitments
          content,   \* rows of reminder_content_runs, by duty and period
          out,       \* rows of outbound_messages, by duty and period
          delivered, \* how often the gateway delivered each message
          sched,     \* what each scheduler is doing
          agent,     \* what each node agent is doing
          asked      \* cancellations that have read a pending reminder

outboundVars == <<duty, content, out, delivered, sched, agent, asked>>

Period == 1 .. MaxPeriods
NoRun == [status |-> "none", attempts |-> 0]
NoMessage == [status |-> "none", attempts |-> 0, claim |-> "none", stale |-> 0]
NoErrand == [pc |-> "idle", duty |-> {}, period |-> 0, outcome |-> "none", tried |-> FALSE]
NoHold == [pc |-> "idle", duty |-> {}, period |-> 0]

DutyOf(s) == CHOOSE d \in sched[s].duty : TRUE
Handles(s, pc) == sched[s].pc = pc
Goto(s, pc) == sched' = [sched EXCEPT ![s].pc = pc]
GotoWith(s, pc, outcome) ==
    sched' = [sched EXCEPT ![s].pc = pc, ![s].outcome = outcome]
Rest(s) == sched' = [sched EXCEPT ![s] = NoErrand]
-----------------------------------------------------------------------------
(***************************************************************************)
(* The person and the model: creating and cancelling.  The cancellation    *)
(* reads the status and then writes without looking again.                 *)
(***************************************************************************)
CreateDuty(d) ==
    /\ duty[d].status = "none"
    /\ Cardinality({e \in Duty : duty[e].status # "none"}) < MaxDuties
    /\ duty' = [duty EXCEPT ![d] = [status |-> "pending", period |-> 1]]
    /\ UNCHANGED <<content, out, delivered, sched, agent, asked>>

AskCancel(d) ==
    /\ KindOf[d] # "commitment"
    /\ duty[d].status = "pending"
    /\ asked' = asked \cup {d}
    /\ UNCHANGED <<duty, content, out, delivered, sched, agent>>

CancelReminder(d) ==
    /\ d \in asked
    /\ duty' = [duty EXCEPT ![d].status = "cancelled"]
    /\ asked' = asked \ {d}
    /\ UNCHANGED <<content, out, delivered, sched, agent>>
-----------------------------------------------------------------------------
(***************************************************************************)
(* A scheduler claims a due duty.                                          *)
(***************************************************************************)
DueNow(d) == duty[d].status = "pending" /\ duty[d].period \in Period

ClaimDue(s, d) ==
    /\ Handles(s, "idle")
    /\ DueNow(d)
    /\ duty' = [duty EXCEPT ![d].status = "sending"]
    /\ sched' = [sched EXCEPT ![s] =
                   [NoErrand EXCEPT !.pc = IF KindOf[d] = "dynamic" THEN "claimRun" ELSE "touch",
                                !.duty = {d}, !.period = duty[d].period]]
    /\ UNCHANGED <<content, out, delivered, agent, asked>>

\* A run is made, taken up again while it may be retried, or refused.
Retriable(r) == r.status \in {"failed", "running"} /\ r.attempts < MaxRunAttempts

ClaimRun(s) ==
    /\ Handles(s, "claimRun")
    /\ LET d == DutyOf(s)
           p == sched[s].period
           r == content[d][p]
       IN IF r.status = "none" \/ Retriable(r)
          THEN /\ content' = [content EXCEPT ![d][p] =
                                [status |-> "running", attempts |-> r.attempts + 1]]
               /\ Goto(s, "touch")
          ELSE /\ GotoWith(s, "advance", "unsent")
               /\ UNCHANGED content
    /\ UNCHANGED <<duty, out, delivered, agent, asked>>

\* The account has been silent for too long, or a commitment has no route, or the
\* content of a dynamic reminder could not be made: nothing is sent.
TouchStale(s) ==
    /\ Handles(s, "touch")
    /\ GotoWith(s, "settle", "stale")
    /\ UNCHANGED <<duty, content, out, delivered, agent, asked>>

CannotServe(s) ==
    /\ Handles(s, "touch")
    /\ KindOf[DutyOf(s)] # "fixed"
    /\ GotoWith(s, "settle", "error")
    /\ UNCHANGED <<duty, content, out, delivered, agent, asked>>

\* INSERT ... ON CONFLICT DO NOTHING: the row of the key, new or old, is returned.
\* Policy or the synchronous guard makes it cancelled from the start.
EnqueueProactive(s) ==
    /\ Handles(s, "touch")
    /\ \E status \in {"pending", "cancelled"} :
         LET d == DutyOf(s)
             p == sched[s].period
             row == IF out[d][p].status = "none"
                    THEN [NoMessage EXCEPT !.status = status] ELSE out[d][p]
         IN /\ out' = [out EXCEPT ![d][p] = row]
            /\ IF row.status = "pending" /\ d \notin Remote
               THEN GotoWith(s, "send", "pending")
               ELSE GotoWith(s, "settle", row.status)
    /\ UNCHANGED <<duty, content, delivered, agent, asked>>

\* An exception before the row is made.
EnqueueRaises(s) ==
    /\ Handles(s, "touch")
    /\ GotoWith(s, "settle", "error")
    /\ UNCHANGED <<duty, content, out, delivered, agent, asked>>

\* The inline claim leaves claimed_at empty, so no node ever finds the row stale.
ClaimInline(s) ==
    /\ Handles(s, "send")
    /\ LET d == DutyOf(s)
           p == sched[s].period
           row == out[d][p]
       IN IF row.status = "pending"
          THEN /\ out' = [out EXCEPT ![d][p] =
                            [row EXCEPT !.status = "sending", !.attempts = @ + 1]]
               /\ Goto(s, "gateway")
          ELSE /\ Goto(s, "settle")
               /\ UNCHANGED out
    /\ UNCHANGED <<duty, content, delivered, agent, asked>>

\* The gateway delivers and answers, delivers and the answer is lost, or refuses
\* (a rate limit is tried again inside the call and delivers nothing).
SendInline(s) ==
    /\ Handles(s, "gateway")
    /\ \E reached, answered \in BOOLEAN :
         /\ answered => reached
         /\ delivered' = [delivered EXCEPT ![DutyOf(s)][sched[s].period] =
                            IF reached THEN @ + 1 ELSE @]
         /\ sched' = [sched EXCEPT ![s].pc = "record", ![s].tried = TRUE,
                                   ![s].outcome = IF answered THEN "sent" ELSE "failed"]
    /\ UNCHANGED <<duty, content, out, agent, asked>>

RecordInline(s) ==
    /\ Handles(s, "record")
    /\ out' = [out EXCEPT ![DutyOf(s)][sched[s].period].status = sched[s].outcome]
    /\ Goto(s, "settle")
    /\ UNCHANGED <<duty, content, delivered, agent, asked>>
-----------------------------------------------------------------------------
(***************************************************************************)
(* The scheduler writes what became of the message.  Every UPDATE below is *)
(* WHERE id = ? only.                                                      *)
(***************************************************************************)
NextPeriod(d, p) == [status |-> "pending", period |-> p + 1]

\* After a period that is over: the next one, or the end with this status.
Advanced(d, p, end) ==
    IF d \in Recurring THEN NextPeriod(d, p) ELSE [status |-> end, period |-> p]

SettleFixed(s) ==
    /\ Handles(s, "settle")
    /\ KindOf[DutyOf(s)] = "fixed"
    /\ LET d == DutyOf(s)
           p == sched[s].period
           o == sched[s].outcome
       IN \/ /\ o \in {"sent", "pending"}
             /\ duty' = [duty EXCEPT ![d] = Advanced(d, p, "sent")]
          \/ /\ o = "stale"
             /\ duty' = [duty EXCEPT ![d] = Advanced(d, p, "cancelled")]
          \/ /\ o = "cancelled"          \* the policy or the guard refused: all of it ends
             /\ duty' = [duty EXCEPT ![d].status = "cancelled"]
          \/ /\ o \notin {"sent", "pending", "stale", "cancelled"}
             /\ duty' = [duty EXCEPT ![d].status = "failed"]
    /\ Rest(s)
    /\ UNCHANGED <<content, out, delivered, agent, asked>>

SettleCommitment(s) ==
    /\ Handles(s, "settle")
    /\ KindOf[DutyOf(s)] = "commitment"
    /\ LET o == sched[s].outcome
       IN duty' = [duty EXCEPT ![DutyOf(s)].status =
                     CASE o = "sent" -> "sent"
                       [] o \in {"stale", "cancelled"} -> "cancelled"
                       [] OTHER -> "failed"]
    /\ Rest(s)
    /\ UNCHANGED <<content, out, delivered, agent, asked>>

\* A dynamic reminder: the run first, the reminder in a second transaction.
RunStatus(o) ==
    CASE o = "sent" -> "sent"
      [] o = "pending" -> "enqueued"
      [] o \in {"stale", "cancelled"} -> "skipped"
      [] OTHER -> "failed"

SettleRun(s) ==
    /\ Handles(s, "settle")
    /\ KindOf[DutyOf(s)] = "dynamic"
    /\ content' = [content EXCEPT ![DutyOf(s)][sched[s].period].status =
                     RunStatus(sched[s].outcome)]
    /\ Goto(s, "advance")
    /\ UNCHANGED <<duty, out, delivered, agent, asked>>

AdvanceDynamic(s) ==
    /\ Handles(s, "advance")
    /\ LET d == DutyOf(s)
           p == sched[s].period
           o == sched[s].outcome
           again == /\ o \notin {"sent", "pending", "stale", "cancelled", "unsent"}
                    /\ content[d][p].attempts < MaxRunAttempts
       IN duty' = [duty EXCEPT ![d] =
                     IF again THEN [status |-> "pending", period |-> p]
                     ELSE Advanced(d, p, IF o \in {"sent", "pending"} THEN "sent"
                                         ELSE "cancelled")]
    /\ Rest(s)
    /\ UNCHANGED <<content, out, delivered, agent, asked>>

ReconciledTo(status) ==
    CASE status = "sent" -> "sent"
      [] status \in {"failed", "cancelled"} -> "failed"
      [] OTHER -> "enqueued"

\* A later tick reads the messages that were left to a node.
ReconcileEnqueued(d, p) ==
    /\ content[d][p].status = "enqueued"
    /\ ReconciledTo(out[d][p].status) # "enqueued"
    /\ content' = [content EXCEPT ![d][p].status = ReconciledTo(out[d][p].status)]
    /\ UNCHANGED <<duty, out, delivered, sched, agent, asked>>

\* A scheduler's process dies: the duty stays sending, nothing takes it up again.
SchedulerDies(s) ==
    /\ ~Handles(s, "idle")
    /\ Rest(s)
    /\ UNCHANGED <<duty, content, out, delivered, agent, asked>>
-----------------------------------------------------------------------------
(***************************************************************************)
(* A node agent: claim over HTTP, send, report.  The report of a success   *)
(* and the send share one try: when the report raises, a failure is        *)
(* reported for a message that was delivered.                              *)
(***************************************************************************)
\* Variant: a claimed message is handed out again although its claim is fresh.
NodeMayClaimFresh(m) == m.attempts < MaxNodeClaims /\ m.status \in {"pending", "sending"}

NodeMayClaim(m) ==
    /\ m.attempts < MaxNodeClaims
    /\ \/ m.status = "pending"
       \/ m.status = "sending" /\ m.claim = "stale"

NodeClaim(a, d, p) ==
    /\ agent[a].pc = "idle"
    /\ d \in Remote
    /\ NodeMayClaim(out[d][p])
    /\ out' = [out EXCEPT ![d][p] =
                 [status |-> "sending", attempts |-> @.attempts + 1, claim |-> "fresh",
                  stale |-> @.stale + (IF @.claim = "stale" THEN 1 ELSE 0)]]
    /\ \/ agent' = [agent EXCEPT ![a] = [pc |-> "send", duty |-> {d}, period |-> p]]
       \/ UNCHANGED agent       \* the answer to the claim is lost
    /\ UNCHANGED <<duty, content, delivered, sched, asked>>

NodeSend(a) ==
    /\ agent[a].pc = "send"
    /\ \E d \in agent[a].duty, reached, answered \in BOOLEAN :
         /\ answered => reached
         /\ delivered' = [delivered EXCEPT ![d][agent[a].period] =
                            IF reached THEN @ + 1 ELSE @]
         /\ agent' = [agent EXCEPT ![a].pc = IF answered THEN "reportSent" ELSE "reportFailed"]
    /\ UNCHANGED <<duty, content, out, sched, asked>>

Report(a, status, next) ==
    /\ \E d \in agent[a].duty, applied \in BOOLEAN :
         /\ applied \/ next # "done"
         /\ out' = IF applied THEN [out EXCEPT ![d][agent[a].period].status = status] ELSE out
    /\ agent' = [agent EXCEPT ![a] = IF next = "reportFailed"
                                     THEN [@ EXCEPT !.pc = next] ELSE NoHold]
    /\ UNCHANGED <<duty, content, delivered, sched, asked>>

NodeReportSent(a) ==
    /\ agent[a].pc = "reportSent"
    /\ \/ Report(a, "sent", "done")
       \/ Report(a, "sent", "reportFailed")   \* lost on the way, or its answer is

NodeReportFailed(a) ==
    /\ agent[a].pc = "reportFailed"
    /\ \/ Report(a, "failed", "done")
       \/ Report(a, "failed", "lost")

AgentDies(a) ==
    /\ agent[a].pc # "idle"
    /\ agent' = [agent EXCEPT ![a] = NoHold]
    /\ UNCHANGED <<duty, content, out, delivered, sched, asked>>

\* outbound_claim_timeout_seconds pass.
NodeClaimGoesStale(d, p) ==
    /\ out[d][p].status = "sending"
    /\ out[d][p].claim = "fresh"
    /\ out' = [out EXCEPT ![d][p].claim = "stale"]
    /\ UNCHANGED <<duty, content, delivered, sched, agent, asked>>
-----------------------------------------------------------------------------
OutboundInit ==
    /\ duty = [d \in Duty |-> [status |-> "none", period |-> 1]]
    /\ content = [d \in Duty |-> [p \in Period |-> NoRun]]
    /\ out = [d \in Duty |-> [p \in Period |-> NoMessage]]
    /\ delivered = [d \in Duty |-> [p \in Period |-> 0]]
    /\ sched = [s \in Scheduler |-> NoErrand]
    /\ agent = [a \in Agent |-> NoHold]
    /\ asked = {}

SchedulerStep(s) ==
    \/ \E d \in Duty : ClaimDue(s, d)
    \/ ClaimRun(s) \/ TouchStale(s) \/ CannotServe(s)
    \/ EnqueueProactive(s) \/ EnqueueRaises(s)
    \/ ClaimInline(s) \/ SendInline(s) \/ RecordInline(s)
    \/ SettleFixed(s) \/ SettleCommitment(s) \/ SettleRun(s) \/ AdvanceDynamic(s)
    \/ SchedulerDies(s)

AgentStep(a) ==
    \/ \E d \in Duty, p \in Period : NodeClaim(a, d, p)
    \/ NodeSend(a) \/ NodeReportSent(a) \/ NodeReportFailed(a) \/ AgentDies(a)

OutboundNext ==
    \/ \E d \in Duty : CreateDuty(d) \/ AskCancel(d) \/ CancelReminder(d)
    \/ \E s \in Scheduler : SchedulerStep(s)
    \/ \E a \in Agent : AgentStep(a)
    \/ \E d \in Duty, p \in Period : ReconcileEnqueued(d, p) \/ NodeClaimGoesStale(d, p)

OutboundSpec == OutboundInit /\ [][OutboundNext]_outboundVars
-----------------------------------------------------------------------------
\* Type invariant: the rows, the schedulers and the agents have the declared shapes.
OutboundTypeOK ==
    /\ duty \in [Duty -> [status : {"none", "pending", "sending", "sent", "failed", "cancelled"},
                          period : 1 .. MaxPeriods + 1]]
    /\ \A d \in Duty, p \in Period :
         /\ content[d][p].status \in {"none", "running", "enqueued", "sent", "skipped", "failed"}
         /\ content[d][p].attempts \in 0 .. MaxRunAttempts
         /\ out[d][p].status \in {"none", "pending", "sending", "sent", "failed", "cancelled"}
         /\ out[d][p].attempts \in 0 .. MaxNodeClaims
         /\ delivered[d][p] \in Nat
    /\ asked \subseteq Duty

\* A period's message reaches the person at most once, plus once for every time a
\* node's claim had gone stale and the row was handed out again: schedulers that
\* race, retries of a run and repeated reports add no delivery.
DeliveredOnce ==
    \A d \in Duty, p \in Period : delivered[d][p] <= 1 + out[d][p].stale

\* What the books call sent has reached the person: an outbound row, a run of a
\* dynamic reminder reconciled from it, and a commitment.
SentWasDelivered ==
    \A d \in Duty, p \in Period :
        \/ delivered[d][p] > 0
        \/ /\ out[d][p].status # "sent"
           /\ content[d][p].status # "sent"
           /\ ~(KindOf[d] = "commitment" /\ duty[d] = [status |-> "sent", period |-> p])

\* Both: no message twice, and none on the books alone.
DeliveriesAreSound == OutboundTypeOK /\ DeliveredOnce /\ SentWasDelivered
=============================================================================
