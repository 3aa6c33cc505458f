----------------------------- MODULE WorldVisits -----------------------------
(***************************************************************************)
(* Visits between the owners of companion worlds and the chat of the two   *)
(* people (app/products/mingchan): an invite takes a slot of its world,    *)
(* the visitor redeems it for a pending visit that keeps the slot, the     *)
(* owner accepts, and either may end or block the contact.                 *)
(*                                                                         *)
(* Every transaction locks people in ascending order, then worlds in       *)
(* ascending order, reads under its locks, and writes when it commits.     *)
(* Deadlines are judged by the time at which the request began, which the  *)
(* model leaves open: a request finds its row due or not, as it happens.   *)
(***************************************************************************)
EXTENDS Naturals, FiniteSets

CONSTANTS Human,       \* platform users, each with a world: a range of numbers
          Invite,      \* codes an owner may issue; a visit is named by its invite
          OwnerOf,     \* function: Invite -> Human
          Guests,      \* function: Invite -> people who are given the code
          VisitTx,     \* sessions of the database that serve requests
          VisitSlots,  \* slots of a world
          VisitorLimit \* open visits a visitor may have

ASSUME VisitBounds ==
    /\ Human \subseteq Nat
    /\ OwnerOf \in [Invite -> Human] /\ Guests \in [Invite -> SUBSET Human]
    /\ VisitSlots \in Nat /\ VisitorLimit \in Nat

VARIABLES invite,    \* rows of universe_invites
          seats,     \* occupants of universe_visit_slots, by owner of the world
          visit,     \* rows of universe_visits
          chat,      \* status of human_conversations, by visit
          blocks,    \* rows of platform_user_blocks
          call       \* the transaction each session runs

visitVars == <<invite, seats, visit, chat, blocks, call>>

OpenVisit == {"pending", "active"}
NoVisit == [status |-> "none", visitor |-> {}]
UserLock(p) == <<0, p>>
WorldLock(p) == <<1, p>>
NoCall == [op |-> "none", pc |-> "idle", who |-> {}, on |-> {}, expected |-> "none",
           late |-> {}, want |-> {}, held |-> {}, verdict |-> "none"]
-----------------------------------------------------------------------------
(***************************************************************************)
(* What the queries return.                                                *)
(***************************************************************************)
VisitIsOpen(i) == visit[i].status \in OpenVisit
Parties(i) == {OwnerOf[i]} \cup visit[i].visitor

\* has_platform_user_block: in either direction.
Parted(P) == \E b \in blocks : {b[1], b[2]} = P

\* count_open_universe_visits_for_visitor.
OpenVisitsOf(p) == {i \in Invite : VisitIsOpen(i) /\ p \in visit[i].visitor}

\* list_open_universe_visits_between.
OpenBetween(P) == {i \in Invite : VisitIsOpen(i) /\ Parties(i) = P}

\* Which deadline of an invite or of its visit is running.
Stage(i) == IF invite[i] = "active" THEN "invite" ELSE visit[i].status

\* ux_universe_visits_open_pair.
PairIsOpen(p, i) == \E j \in OpenVisitsOf(p) : OwnerOf[j] = OwnerOf[i]

\* ensure_universe_visit_slots and the search for an empty slot.
SlotIsFree(p) == Cardinality(seats[p]) < VisitSlots
-----------------------------------------------------------------------------
(***************************************************************************)
(* A request reads its row without locks to learn whom to lock, and fixes  *)
(* its time.  A request on a row that has already ended changes nothing    *)
(* and is left out: only a row that ends later can surprise it.            *)
(***************************************************************************)
StartCall(t, op, who, i, locks, expected, due) ==
    /\ call[t] = NoCall
    /\ call' = [call EXCEPT ![t] =
           [NoCall EXCEPT !.op = op, !.pc = "lock", !.who = who, !.on = {i}, !.expected = expected,
                          !.want = locks, !.late = IF due THEN {Stage(i)} ELSE {}]]
    /\ UNCHANGED <<invite, seats, visit, chat, blocks>>

\* The locks of a request on the invites of an owner.
OwnerLocks(i) == {UserLock(OwnerOf[i]), WorldLock(OwnerOf[i])}

\* The locks of a request on a visit.
VisitLocks(i) == {UserLock(p) : p \in visit[i].visitor} \cup {WorldLock(OwnerOf[i])}

AskInvite(t, i) == StartCall(t, "invite", {}, i, OwnerLocks(i), "none", FALSE)

RevokeInvite(t, i) ==
    /\ invite[i] = "active"
    /\ StartCall(t, "revoke", {}, i, OwnerLocks(i), "none", FALSE)

\* Found by maintain_expiry_batch or by list_invites_current.
ExpireInvite(t, i) ==
    /\ invite[i] = "active"
    /\ StartCall(t, "lapse", {}, i, OwnerLocks(i), "none", TRUE)

Redeem(t, i, p) ==
    /\ invite[i] = "active"
    /\ \E due \in BOOLEAN :
           StartCall(t, "redeem", {p}, i, {UserLock(p), WorldLock(OwnerOf[i])}, "none", due)

AcceptVisit(t, i) ==
    /\ visit[i].status = "pending"
    /\ \E due \in BOOLEAN : StartCall(t, "accept", {}, i, VisitLocks(i), "pending", due)

\* reject and cancel a pending visit, leave and revoke an active one.
EndVisit(t, i, expected) ==
    /\ visit[i].status = expected
    /\ StartCall(t, "end", {}, i, VisitLocks(i), expected, FALSE)

\* Found by maintain_expiry_batch or by list_visits_current.
ExpireVisit(t, i) ==
    /\ VisitIsOpen(i)
    /\ StartCall(t, "expire", {}, i, VisitLocks(i), "none", TRUE)

\* list_feed by the visitor, send by either party.
UseVisit(t, i) ==
    /\ visit[i].status = "active"
    /\ \E due \in BOOLEAN : StartCall(t, "use", {}, i, VisitLocks(i), "active", due)

\* Also the block that follows a report, and the one from a conversation.
BlockContact(t, i, p) ==
    /\ visit[i] # NoVisit /\ p \in Parties(i)
    /\ StartCall(t, "block", {p}, i, {UserLock(q) : q \in Parties(i)}, "none", FALSE)
-----------------------------------------------------------------------------
(***************************************************************************)
(* Inside the transaction.                                                 *)
(***************************************************************************)
Before(l, m) == l[1] < m[1] \/ (l[1] = m[1] /\ l[2] <= m[2])

\* Variant: the one who asks is locked before the other.
OwnFirst(t) ==
    LET own == {UserLock(p) : p \in call[t].who} \cap call[t].want
    IN  CHOOSE l \in IF own = {} THEN call[t].want ELSE own : \A m \in call[t].want \ own : own # {} \/ Before(l, m)

NextLock(t) == CHOOSE l \in call[t].want : \A m \in call[t].want : Before(l, m)

LockIsFree(l) == \A u \in VisitTx : l \notin call[u].held

TakeVisitLock(t) ==
    /\ call[t].pc = "lock" /\ call[t].want # {}
    /\ LockIsFree(NextLock(t))
    /\ call' = [call EXCEPT ![t].want = @ \ {NextLock(t)}, ![t].held = @ \cup {NextLock(t)}]
    /\ UNCHANGED <<invite, seats, visit, chat, blocks>>

\* block, with both people locked, learns which worlds it must lock.
BlockedPair(t) == {l[2] : l \in {h \in call[t].held : h[1] = 0}}

ListForBlock(t) ==
    /\ call[t].pc = "lock" /\ call[t].want = {} /\ call[t].op = "block"
    /\ LET open == OpenBetween(BlockedPair(t))
       IN  call' = [call EXCEPT ![t].on = open, ![t].pc = "worlds",
                                ![t].want = {WorldLock(OwnerOf[i]) : i \in open}]
    /\ UNCHANGED <<invite, seats, visit, chat, blocks>>

TakeWorldLock(t) ==
    /\ call[t].pc = "worlds" /\ call[t].want # {}
    /\ LockIsFree(NextLock(t))
    /\ call' = [call EXCEPT ![t].want = @ \ {NextLock(t)}, ![t].held = @ \cup {NextLock(t)}]
    /\ UNCHANGED <<invite, seats, visit, chat, blocks>>

MayRedeem(p, i) ==
    /\ OwnerOf[i] # p
    /\ ~Parted({p, OwnerOf[i]})
    /\ Cardinality(OpenVisitsOf(p)) < VisitorLimit
    /\ ~PairIsOpen(p, i)

\* What the request will write, given the rows it has locked.
InviteVerdict(c, i) ==
    IF c.op = "invite" THEN IF invite[i] = "none" /\ SlotIsFree(OwnerOf[i]) THEN "issue" ELSE "refuse"
    ELSE IF invite[i] # "active" THEN "refuse"
    ELSE IF c.op = "revoke" THEN "revoked"
    ELSE IF "invite" \in c.late THEN "expired"
    ELSE IF \E p \in c.who : MayRedeem(p, i) THEN "open" ELSE "refuse"

VisitVerdict(c, i) ==
    IF ~VisitIsOpen(i) \/ (c.op # "expire" /\ visit[i].status # c.expected) THEN "refuse"
    ELSE IF c.op = "end" \/ visit[i].status \in c.late THEN "end"
    ELSE IF Parted(Parties(i)) THEN IF c.op = "accept" THEN "refuse" ELSE "end"
    ELSE IF c.op = "accept" THEN "accept" ELSE "serve"

JudgeCall(t) ==
    /\ call[t].pc = "lock" /\ call[t].want = {} /\ call[t].op # "block"
    /\ \E i \in call[t].on :
           LET v == IF call[t].op \in {"invite", "revoke", "lapse", "redeem"}
                    THEN InviteVerdict(call[t], i) ELSE VisitVerdict(call[t], i)
           IN  call' = [call EXCEPT ![t] =
                   IF v = "refuse" THEN NoCall
                   ELSE [NoCall EXCEPT !.pc = "write", !.who = call[t].who, !.on = {i},
                                       !.held = call[t].held, !.verdict = v]]
    /\ UNCHANGED <<invite, seats, visit, chat, blocks>>
-----------------------------------------------------------------------------
(***************************************************************************)
(* The writes; a commit or an error releases every lock.                   *)
(***************************************************************************)
Writes(t, verdict, i) ==
    /\ call[t].pc = "write" /\ call[t].verdict = verdict /\ i \in call[t].on
    /\ call' = [call EXCEPT ![t] = NoCall]

\* insert_universe_invite.
WriteInvite(t, i) ==
    /\ Writes(t, "issue", i)
    /\ invite' = [invite EXCEPT ![i] = "active"]
    /\ seats' = [seats EXCEPT ![OwnerOf[i]] = @ \cup {<<"invite", i>>}]
    /\ UNCHANGED <<visit, chat, blocks>>

\* mark_universe_invite_terminal.
WriteInviteOver(t, i, target) ==
    /\ Writes(t, target, i)
    /\ invite' = [invite EXCEPT ![i] = target]
    /\ seats' = [seats EXCEPT ![OwnerOf[i]] = @ \ {<<"invite", i>>}]
    /\ UNCHANGED <<visit, chat, blocks>>

\* insert_pending_universe_visit: the slot passes from the invite to the visit.
WritePendingVisit(t, i) ==
    /\ Writes(t, "open", i)
    /\ invite' = [invite EXCEPT ![i] = "redeemed"]
    /\ seats' = [seats EXCEPT ![OwnerOf[i]] = (@ \ {<<"invite", i>>}) \cup {<<"visit", i>>}]
    /\ visit' = [visit EXCEPT ![i] = [status |-> "pending", visitor |-> call[t].who]]
    /\ UNCHANGED <<chat, blocks>>

\* mark_universe_visit_active and create_human_conversation_for_visit.
WriteActiveVisit(t, i) ==
    /\ Writes(t, "accept", i)
    /\ visit' = [visit EXCEPT ![i].status = "active"]
    /\ chat' = [chat EXCEPT ![i] = "active"]
    /\ UNCHANGED <<invite, seats, blocks>>

\* mark_universe_visit_terminal: visits, slots and conversations together.
Terminate(V) ==
    /\ visit' = [i \in Invite |-> IF i \in V THEN [visit[i] EXCEPT !.status = "over"] ELSE visit[i]]
    /\ seats' = [p \in Human |-> seats[p] \ {<<"visit", i>> : i \in V}]
    /\ chat' = [i \in Invite |-> IF i \in V /\ chat[i] = "active" THEN "read_only" ELSE chat[i]]

WriteVisitOver(t, i) ==
    /\ Writes(t, "end", i)
    /\ Terminate({i})
    /\ UNCHANGED <<invite, blocks>>

\* insert_human_message appends to the chat; a page of the feed is served.
Serve(t, i) ==
    /\ Writes(t, "serve", i)
    /\ UNCHANGED <<invite, seats, visit, chat, blocks>>

WriteBlock(t) ==
    /\ call[t].pc = "worlds" /\ call[t].want = {}
    /\ blocks' = blocks \cup {<<p, q>> : p \in call[t].who, q \in BlockedPair(t) \ call[t].who}
    /\ Terminate({i \in call[t].on : VisitIsOpen(i)})
    /\ call' = [call EXCEPT ![t] = NoCall]
    /\ UNCHANGED invite

\* A crash or a cancelled request.
LeaveCall(t) ==
    /\ call[t] # NoCall
    /\ call' = [call EXCEPT ![t] = NoCall]
    /\ UNCHANGED <<invite, seats, visit, chat, blocks>>

VisitInit ==
    /\ invite = [i \in Invite |-> "none"]
    /\ seats = [p \in Human |-> {}]
    /\ visit = [i \in Invite |-> NoVisit]
    /\ chat = [i \in Invite |-> "none"]
    /\ blocks = {}
    /\ call = [t \in VisitTx |-> NoCall]

VisitRequest(t, i) ==
    \/ AskInvite(t, i)
    \/ RevokeInvite(t, i)
    \/ ExpireInvite(t, i)
    \/ AcceptVisit(t, i)
    \/ \E expected \in OpenVisit : EndVisit(t, i, expected)
    \/ ExpireVisit(t, i)
    \/ UseVisit(t, i)
    \/ \E p \in Guests[i] : Redeem(t, i, p)
    \/ \E p \in Human : BlockContact(t, i, p)

VisitWrite(t, i) ==
    \/ WriteInvite(t, i)
    \/ \E target \in {"revoked", "expired"} : WriteInviteOver(t, i, target)
    \/ WritePendingVisit(t, i)
    \/ WriteActiveVisit(t, i)
    \/ WriteVisitOver(t, i)
    \/ Serve(t, i)

VisitNext ==
    \/ \E t \in VisitTx, i \in Invite : VisitRequest(t, i) \/ VisitWrite(t, i)
    \/ \E t \in VisitTx : TakeVisitLock(t) \/ ListForBlock(t) \/ TakeWorldLock(t) \/ JudgeCall(t)
                            \/ WriteBlock(t) \/ LeaveCall(t)

VisitSpec == VisitInit /\ [][VisitNext]_visitVars
-----------------------------------------------------------------------------
VisitsTypeOK ==
    /\ invite \in [Invite -> {"none", "active", "revoked", "expired", "redeemed"}]
    /\ seats \in [Human -> SUBSET ({"invite", "visit"} \X Invite)]
    /\ \A i \in Invite : /\ visit[i].status \in {"none", "over"} \cup OpenVisit
                         /\ visit[i].visitor \subseteq Human
                         /\ chat[i] \in {"none", "active", "read_only"}
    /\ blocks \subseteq Human \X Human
    /\ \A t \in VisitTx : call[t].pc \in {"idle", "lock", "worlds", "write"}

\* Whatever races with the block - a redeem, an accept, a message - two people
\* of whom one has blocked the other have no open visit and no open chat, and
\* no message is stored and no page of the feed is read between them.
BlockEndsContact ==
    \A i \in Invite : Parted(Parties(i)) =>
        /\ ~VisitIsOpen(i) /\ chat[i] # "active"
        /\ \A t \in VisitTx : call[t].verdict = "serve" => i \notin call[t].on

\* A world has at most its slots of open invites and visits, each in a slot of
\* its own until it ends, and a visitor has at most VisitorLimit open visits,
\* in whatever worlds they are redeemed at the same time.
VisitsFit ==
    /\ \A p \in Human :
           /\ Cardinality(seats[p]) <= VisitSlots
           /\ Cardinality(OpenVisitsOf(p)) <= VisitorLimit
           /\ seats[p] = {<<"invite", i>> : i \in {j \in Invite : OwnerOf[j] = p /\ invite[j] = "active"}}
                         \cup {<<"visit", i>> : i \in {j \in Invite : OwnerOf[j] = p /\ VisitIsOpen(j)}}
    /\ \A i \in Invite : chat[i] = "active" <=> visit[i].status = "active"

\* Two people who block each other at the same moment, with visits in both
\* directions, never wait for each other's locks.
NoDeadlyEmbrace ==
    \A t, u \in VisitTx :
        t # u /\ call[t].want # {} /\ call[u].want # {} =>
            ~(NextLock(t) \in call[u].held /\ NextLock(u) \in call[t].held)

\* What a block, a redeem and an acceptance that race leave behind, whatever
\* the order of their locks: contact ended, seats accounted for, and
\* nobody waiting for ever.
VisitsAreSound == VisitsTypeOK /\ BlockEndsContact /\ VisitsFit /\ NoDeadlyEmbrace
=============================================================================
