------------------------------ MODULE WorldFeed ------------------------------
(***************************************************************************)
(* The feed of a companion world (app/products/mingchan): the scheduler's  *)
(* processes claim a slot of the day, let the model write outside any      *)
(* transaction and publish; the owner posts and retires posts; every post  *)
(* leaves an event in companion_world_outbox that publisher processes      *)
(* claim, hand out and settle.                                             *)
(*                                                                         *)
(* Each step is one transaction or one call outside.  A tick reads the     *)
(* clock once, at its start, and uses that time to its end.                *)
(***************************************************************************)
EXTENDS Naturals, FiniteSets

CONSTANTS Slot,       \* windows of the days: one AI post each
          UserPost,   \* the owner's own posts, by client_request_id
          Author,     \* residents of the world
          Ticker,     \* processes that run WorldContentScheduler
          Publisher,  \* processes that run the outbox dispatch
          MaxTries,   \* retry_max_attempts of a slot
          MaxSends,   \* outbox_max_attempts
          OutboxBatch,\* outbox_batch_size
          MaxPosts    \* bound on the posts that are made

ASSUME FeedBounds == MaxTries \in Nat \ {0}

VARIABLES post,    \* rows of universe_posts
          event,   \* rows of companion_world_outbox, by post and type
          closed,  \* slots whose window_end_at has passed
          present, \* residents that are active
          ticker,  \* what each scheduler process is doing
          publisher \* what each publisher is doing

feedVars == <<post, event, closed, present, ticker, publisher>>

Post == Slot \cup UserPost
Event == Post \X {"published", "deleted"}
NoPost == [status |-> "none", author |-> {}, token |-> {}, lease |-> "none",
           tries |-> 0, deferred |-> FALSE]
NoEvent == [status |-> "none", token |-> {}, lease |-> "none", tries |-> 0, later |-> FALSE]
NewEvent == [NoEvent EXCEPT !.status = "pending"]
Asleep == [pc |-> "idle", slot |-> {}]
Waiting == [pc |-> "idle", todo |-> {}, at |-> {}]

\* INSERT ... ON CONFLICT(idempotency_key) DO NOTHING.
WithEvent(e) == [event EXCEPT ![e] = IF @.status = "none" THEN NewEvent ELSE @]
Room == Cardinality({p \in Post : post[p].status # "none"}) < MaxPosts
-----------------------------------------------------------------------------
(***************************************************************************)
(* The AI slot: claim, generate, publish.                                  *)
(***************************************************************************)
\* The claim of a slot ends with the row's status.
Over(s, status) == [post EXCEPT ![s].status = status, ![s].token = {}, ![s].lease = "none",
                                ![s].deferred = FALSE]

\* A tick starts while the window is open and keeps that time.
StartTick(g, s) ==
    /\ ticker[g].pc = "idle"
    /\ s \notin closed
    /\ Room \/ post[s].status # "none"
    /\ ticker' = [ticker EXCEPT ![g] = [pc |-> "claim", slot |-> {s}]]
    /\ UNCHANGED <<post, event, closed, present, publisher>>

\* Every tick first closes the slots whose window has passed.
CloseExpired(s) ==
    /\ s \in closed
    /\ post[s].status = "generating"
    /\ post' = Over(s, "skipped")
    /\ UNCHANGED <<event, closed, present, ticker, publisher>>

Reclaimable(s) ==
    /\ post[s].status = "generating"
    /\ post[s].lease # "fresh"
    /\ ~post[s].deferred
    /\ post[s].tries < MaxTries

\* The chosen author goes into a new row; a row taken over keeps its author.
ClaimSlot(g) ==
    /\ ticker[g].pc = "claim"
    /\ \E s \in ticker[g].slot :
         \/ \E r \in present :
              /\ post[s].status = "none" /\ Room
              /\ post' = [post EXCEPT ![s] =
                            [status |-> "generating", author |-> {r}, token |-> {g},
                             lease |-> "fresh", tries |-> 1, deferred |-> FALSE]]
              /\ ticker' = [ticker EXCEPT ![g].pc = "author"]
         \/ /\ present # {}
            /\ Reclaimable(s)
            /\ post' = [post EXCEPT ![s].token = {g}, ![s].lease = "fresh", ![s].tries = @ + 1]
            /\ ticker' = [ticker EXCEPT ![g].pc = "author"]
         \/ /\ present = {} \/ (~(post[s].status = "none" /\ Room) /\ ~Reclaimable(s))
            /\ ticker' = [ticker EXCEPT ![g] = Asleep]
            /\ UNCHANGED post
    /\ UNCHANGED <<event, closed, present, publisher>>

\* The author of the row must still be there before the model is asked.
CheckAuthor(g) ==
    /\ ticker[g].pc = "author"
    /\ \E s \in ticker[g].slot :
         ticker' = [ticker EXCEPT ![g].pc =
                      IF post[s].author \subseteq present THEN "generate" ELSE "skip"]
    /\ UNCHANGED <<post, event, closed, present, publisher>>

\* The model answers, fails, or answers something that cannot be shown.
Generate(g) ==
    /\ ticker[g].pc = "generate"
    /\ \E pc \in {"publish", "defer", "skip"} : ticker' = [ticker EXCEPT ![g].pc = pc]
    /\ UNCHANGED <<post, event, closed, present, publisher>>

HoldsSlot(g, s) == post[s].status = "generating" /\ post[s].token = {g}

SkipSlot(g) ==
    /\ ticker[g].pc = "skip"
    /\ \E s \in ticker[g].slot :
         post' = IF HoldsSlot(g, s)
                 THEN Over(s, "skipped") ELSE post
    /\ ticker' = [ticker EXCEPT ![g] = Asleep]
    /\ UNCHANGED <<event, closed, present, publisher>>

DeferSlot(g) ==
    /\ ticker[g].pc = "defer"
    /\ \E s \in ticker[g].slot :
         post' = CASE ~HoldsSlot(g, s) -> post
                   [] HoldsSlot(g, s) /\ post[s].tries >= MaxTries ->
                        Over(s, "skipped")
                   [] OTHER -> [post EXCEPT ![s].token = {}, ![s].lease = "none", ![s].deferred = TRUE]
    /\ ticker' = [ticker EXCEPT ![g] = Asleep]
    /\ UNCHANGED <<event, closed, present, publisher>>

\* The window is compared with the time of the tick's start, so it is never closed.
Publishable(g, s) == HoldsSlot(g, s)

\* The row and its author are locked; the post and its event are one transaction.  A lost
\* claim raises and ends the tick, an absent author is skipped in a second transaction.
PublishSlot(g) ==
    /\ ticker[g].pc = "publish"
    /\ \E s \in ticker[g].slot :
         \/ /\ Publishable(g, s)
            /\ post[s].author \subseteq present
            /\ post' = Over(s, "published")
            /\ event' = WithEvent(<<s, "published">>)
            /\ ticker' = [ticker EXCEPT ![g] = Asleep]
         \/ /\ Publishable(g, s)
            /\ ~(post[s].author \subseteq present)
            /\ ticker' = [ticker EXCEPT ![g].pc = "skip"]
            /\ UNCHANGED <<post, event>>
         \/ /\ ~Publishable(g, s)
            /\ ticker' = [ticker EXCEPT ![g] = Asleep]
            /\ UNCHANGED <<post, event>>
    /\ UNCHANGED <<closed, present, publisher>>

TickerDies(g) ==
    /\ ticker[g].pc # "idle"
    /\ ticker' = [ticker EXCEPT ![g] = Asleep]
    /\ UNCHANGED <<post, event, closed, present, publisher>>

\* Time: a window ends, a lease runs out, a retry becomes due.
WindowEnds(s) ==
    /\ s \notin closed
    /\ closed' = closed \cup {s}
    /\ UNCHANGED <<post, event, present, ticker, publisher>>

SlotLeaseExpires(s) ==
    /\ post[s].token # {} /\ post[s].lease = "fresh"
    /\ post' = [post EXCEPT ![s].lease = "stale"]
    /\ UNCHANGED <<event, closed, present, ticker, publisher>>

RetryDue(s) ==
    /\ post[s].deferred
    /\ post' = [post EXCEPT ![s].deferred = FALSE]
    /\ UNCHANGED <<event, closed, present, ticker, publisher>>

ResidentLeaves(r) ==
    /\ r \in present
    /\ present' = present \ {r}
    /\ UNCHANGED <<post, event, closed, ticker, publisher>>
-----------------------------------------------------------------------------
(***************************************************************************)
(* The owner's posts, and retiring a post: idempotent, each with its event *)
(* in the same transaction.                                                *)
(***************************************************************************)
PublishUserPost(u) ==
    /\ present # {} /\ Room
    /\ post[u].status = "none"
    /\ post' = [post EXCEPT ![u].status = "published"]
    /\ event' = WithEvent(<<u, "published">>)
    /\ UNCHANGED <<closed, present, ticker, publisher>>

RetirePost(p) ==
    /\ post[p].status = "published"
    /\ post' = [post EXCEPT ![p].status = "deleted"]
    /\ event' = WithEvent(<<p, "deleted">>)
    /\ UNCHANGED <<closed, present, ticker, publisher>>
-----------------------------------------------------------------------------
(***************************************************************************)
(* The outbox: claim a batch with SKIP LOCKED, hand each event out, settle *)
(* it with a compare-and-set on the claim's token.                         *)
(***************************************************************************)
ClaimableEvent(e) ==
    \/ event[e].status = "pending" /\ ~event[e].later
    \/ event[e].status = "processing" /\ event[e].lease = "stale"

ClaimEvents(p, batch) ==
    /\ publisher[p].pc = "idle"
    /\ batch # {} /\ Cardinality(batch) <= OutboxBatch
    /\ \A e \in batch : ClaimableEvent(e) /\ event[e].tries <= MaxSends
    /\ event' = [e \in Event |->
                   IF e \in batch
                   THEN [event[e] EXCEPT !.status = "processing", !.token = {p},
                                         !.lease = "fresh", !.tries = @ + 1]
                   ELSE event[e]]
    /\ publisher' = [publisher EXCEPT ![p] = [pc |-> "send", todo |-> batch, at |-> {}]]
    /\ UNCHANGED <<post, closed, present, ticker>>

\* The publisher hands an event out; the call may fail after it was received.
SendEvent(p, e) ==
    /\ publisher[p].pc = "send"
    /\ e \in publisher[p].todo
    /\ \E pc \in {"complete", "fail"} :
         publisher' = [publisher EXCEPT ![p].pc = pc, ![p].at = {e}]
    /\ UNCHANGED <<post, event, closed, present, ticker>>

HoldsEvent(p, e) == event[e].status = "processing" /\ event[e].token = {p}

\* Variant: a failure is written whoever holds the event.
MayFailUnclaimed(p, e) == event[e].status = "processing"

MayFail(p, e) == HoldsEvent(p, e)

\* What becomes of an event's row, and the publisher goes on with the rest.
Settled(row, status, later) ==
    [row EXCEPT !.status = status, !.token = {}, !.lease = "none", !.later = later]

NextEvent(p, e) ==
    LET left == publisher[p].todo \ {e}
    IN publisher' = [publisher EXCEPT ![p] =
         IF left = {} THEN Waiting ELSE [pc |-> "send", todo |-> left, at |-> {}]]

CompleteEvent(p) ==
    /\ publisher[p].pc = "complete"
    /\ \E e \in publisher[p].at :
         /\ event' = IF HoldsEvent(p, e)
                      THEN [event EXCEPT ![e] = Settled(@, "delivered", @.later)] ELSE event
         /\ NextEvent(p, e)
    /\ UNCHANGED <<post, closed, present, ticker>>

FailEvent(p) ==
    /\ publisher[p].pc = "fail"
    /\ \E e \in publisher[p].at :
         /\ event' = CASE ~MayFail(p, e) -> event
                       [] MayFail(p, e) /\ event[e].tries < MaxSends ->
                            [event EXCEPT ![e] = Settled(@, "pending", TRUE)]
                       [] OTHER -> [event EXCEPT ![e] = Settled(@, "dead", FALSE)]
         /\ NextEvent(p, e)
    /\ UNCHANGED <<post, closed, present, ticker>>

PublisherDies(p) ==
    /\ publisher[p].pc # "idle"
    /\ publisher' = [publisher EXCEPT ![p] = Waiting]
    /\ UNCHANGED <<post, event, closed, present, ticker>>

EventLeaseExpires(e) ==
    /\ event[e].status = "processing" /\ event[e].lease = "fresh"
    /\ event' = [event EXCEPT ![e].lease = "stale"]
    /\ UNCHANGED <<post, closed, present, ticker, publisher>>

EventDue(e) ==
    /\ event[e].later
    /\ event' = [event EXCEPT ![e].later = FALSE]
    /\ UNCHANGED <<post, closed, present, ticker, publisher>>
-----------------------------------------------------------------------------
FeedInit ==
    /\ post = [p \in Post |-> NoPost]
    /\ event = [e \in Event |-> NoEvent]
    /\ closed = {}
    /\ present = Author
    /\ ticker = [g \in Ticker |-> Asleep]
    /\ publisher = [p \in Publisher |-> Waiting]

TickStep(g) ==
    \/ \E s \in Slot : StartTick(g, s)
    \/ ClaimSlot(g) \/ CheckAuthor(g) \/ Generate(g) \/ SkipSlot(g)
    \/ DeferSlot(g) \/ PublishSlot(g) \/ TickerDies(g)

PublisherStep(p) ==
    \/ \E batch \in SUBSET Event : ClaimEvents(p, batch)
    \/ \E e \in Event : SendEvent(p, e)
    \/ CompleteEvent(p) \/ FailEvent(p) \/ PublisherDies(p)

FeedNext ==
    \/ \E g \in Ticker : TickStep(g)
    \/ \E p \in Publisher : PublisherStep(p)
    \/ \E s \in Slot : CloseExpired(s) \/ WindowEnds(s) \/ SlotLeaseExpires(s) \/ RetryDue(s)
    \/ \E r \in Author : ResidentLeaves(r)
    \/ \E u \in UserPost : PublishUserPost(u)
    \/ \E p \in Post : RetirePost(p)
    \/ \E e \in Event : EventLeaseExpires(e) \/ EventDue(e)

FeedSpec == FeedInit /\ [][FeedNext]_feedVars
-----------------------------------------------------------------------------
\* Type invariant: posts, events and processes have the declared shapes, no slot is
\* tried more than MaxTries times, and only a post that was published has events.
FeedTypeOK ==
    /\ \A p \in Post :
         /\ post[p].status \in {"none", "generating", "published", "skipped", "deleted"}
         /\ post[p].tries \in 0 .. MaxTries
         /\ (event[<<p, "published">>].status # "none")
               = (post[p].status \in {"published", "deleted"})
         /\ (event[<<p, "deleted">>].status # "none") = (post[p].status = "deleted")
    /\ \A e \in Event :
         event[e].status \in {"none", "pending", "processing", "delivered", "dead"}
    /\ closed \subseteq Slot /\ present \subseteq Author

\* A claim that has not run out is settled by its holder alone: a worker that comes
\* back late neither publishes nor skips a slot another one is generating, and neither
\* fails nor completes an event another one is handing out.  (A slot may still be
\* closed with its window.)
ClaimHolds ==
    []FeedTypeOK /\
    [][/\ \A s \in Slot :
            post[s].status = "generating" /\ post[s].token # {} /\ post[s].lease = "fresh"
              /\ (post'[s].status # "generating" \/ post'[s].token # post[s].token)
            => \/ s \in closed
               \/ \E g \in post[s].token : ticker'[g] # ticker[g]
       /\ \A e \in Event :
            /\ event[e].status = "processing" /\ event[e].lease = "fresh"
            /\ event'[e].status # "processing"
            => \E p \in event[e].token : publisher'[p] # publisher[p]]_feedVars
=============================================================================
