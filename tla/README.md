# AI4ALL backend: TLA+ models, checks and proofs

The program is a Python (FastAPI) backend on PostgreSQL, deployed on several
nodes, which serves three products: *zhaoxi* (chat through WeChat and the Web),
*mingchan* (a world of companions) and *plum* (paid streaming chat). Everything
that must survive a node or be agreed between nodes is in PostgreSQL, reached
through a pool of connections at READ COMMITTED; the hard behaviour is therefore
what several open transactions, worker threads, retrying clients and crashing
nodes do to the same rows. These modules state what the code promises about
that, check it on small instances with TLC, and prove what matters most for
instances of every size with TLAPS.

## 1. Inventory

| Part | State | What is hard | What makes it correct |
|---|---|---|---|
| Shell wallet `app/db/billing.py` | wallets, ledger, cost events | one key or one wallet from several connections, failure anywhere | balance = sum of the ledger, a key once, no overdraft by a reservation, releases backed |
| Daily quota `app/db/accounts.py` | `daily_usage`, `daily_quota_reservations` | a confirmation against a reservation, expiry of live reservations, crashes | the oversell is bounded, each count consumes one reservation, slots come back |
| Runtime runs `app/db/runtime_turn_runs.py`, streaming turn `app/agent_runtime/turns/service.py`, Plum API `app/products/plum/api/app.py` | runs, generator, worker thread, queue, token | conditional updates as the only synchronisation between nodes, clients leaving, exceptions in every phase, retries with one key | one active turn, one outcome, paid means served, every stream ends |
| Referrals `app/db/billing.py` | codes, relationships, reviews | advisory and row locks taken in both orders, batches that swallow errors, rows read before their lock | rewarded once, never early |
| Synchronous turn `run_product_turn` | messages, quota, charges | partial failure between its transactions, messages posted again, a reset of the session beside other requests | a charged turn is answered, a message is charged once |
| Proactive work `app/products/zhaoxi/proactive` | reminders, commitments, outbound messages, candidates of nudges | several nodes, unknown delivery results, answers of the model that come late | deliveries are claimed, a nudge a day |
| Moderation `app/platform/moderation` | tasks with leases | lost leases, late results, two reviewers | a fresh claim is respected, one reviewer |
| Conversation memory, dreaming | sessions, carryover, rolling summary | nothing locks a session, the model is asked between reading and writing | no message is passed by: what the prompt no longer shows was given to the summary |
| Profile of the person | type of companion, stage | the night's refresh against turns and staff | no stage is skipped |
| Companion world `app/products/mingchan` | posts, outbox, residents, letters, wishes, visits, human chat, notices | generations that overtake each other, leases, locks on several people and worlds | capacity, last resident, one slot per visit, a granted wish has its letter, one notice to the person under way at a time |
| Role templates | templates, versions, reviews | the model decides on a version that has changed since | one published version, of a passed review |
| Signing in | codes, tokens, sessions, accounts | two devices, tokens used twice, failure between the transactions of a registration | one account, one welcome gift |
| Channel binding, account lifecycle | intents, channel rows, states of accounts | a scan, a message and a wipe at the same time | a WeChat leads to an account that is there, and not again to one it was taken from |
| Language model client | providers, bindings, attempts | partial streams, retries, cancellation, bindings that change | a reply is of one attempt, tools are called once a round |
| Migrations `app/db/migrations` | the schema | two processes that start, old writers at work, databases of several histories | each column is there before it is used |
| RPM limiter, media assets, settings of a world, admin pages, analytics | | input and output, single rows, reports | not modelled |

Parts interact in three ways: nested calls inside one transaction (storing the
inbound message and reserving the day's quota), consecutive transactions of one
request (reserve coins, create the run, stream, finish, refund), and rows that
another request, the scheduler or another node finds later (stale runs, expired
reservations). `PROJECT.json` lists the parts with their files, what of each is
modelled, and the hazards each is exposed to, at their lines.

## 2. Modules

PostgreSQL is modelled by what it does to the statements of the code: a SELECT
sees what is committed (and the transaction's own changes), an UPDATE or DELETE
waits for the lock of another open transaction and goes on with the latest row, an
INSERT waits for an uncommitted equal key and fails if it commits, a commit makes
everything visible at once, and an exception anywhere in `connect()` leaves
nothing behind. A transaction whose statements nothing can come between is one
action.

| Module | Code | How state and actions correspond |
|---|---|---|
| `WalletBook` | what callers of the wallet rely on | the abstract wallet: an entry is added in one step, with a fresh key, never overdrawing by a reservation, and a release only for a reservation |
| `WalletLedger` | grants, charges, reservations and releases of `billing.py` | a *session* is a pooled connection that runs one operation after another, `tx` its next statement; rows are committed ones, the row lock is held from the UPDATE on (`Holding`), the key from the INSERT (`Inserted`) |
| `DailyQuota` | `reserve_daily_quota`, confirm, rollback, prune, reclaim | one person's day; `pc` is the next statement of each turn, `deleter` an open transaction that has deleted a row, `expired` the rows past `expires_at` |
| `PlumStream` | `create_turn_stream`, the generator, its worker, the runs, reclaim, cancel | one conversation; a request goes from `Reclaim` to `GiveBack`, then through generator and wrapper (`Accept` to `Refund`) while `worker` fills `queue`; a crash, an error of any query, a client that leaves and the passing of time are actions |
| `Referral` | registration, binding, counted messages, hold, release, retry, reward | `tx` is what each connection has written and locked; a batch goes through its subjects one by one; `Victim` is PostgreSQL's deadlock detector |
| `Moderation` | tasks, the worker's claim and verdict, the reviewers | `worker` and `desk` keep what was read; `assured` whom the answer of a claim has assured |
| `Outbound` | reminders, commitments, outbound messages, node agents | each scheduler and agent is one transaction, send or report further; what the gateway delivered is counted apart from what is recorded |
| `RoleTemplates` | versions, reviews, publishing, deletion, accounts made of a template | a review claims in one transaction and decides in another |
| `SessionMemory` | sessions, rotation, carryover, rolling summary | a summary is the set of the messages it covers, `cut` those that were given to it and fell to its limit when no model answered; `seen` is what a task has read |
| `UserMeta` | the night's refresh, updates after turns, overrides by staff | each statement is a transaction; the model's answers are choices |
| `WorldFeed`, `WorldCast`, `WorldMail`, `WorldVisits`, `AppInbox` | posts and outbox, residents, letters and wishes, visits and chat, notices | claims with tokens and leases, deadlines judged by the time a tick began, locks of people and worlds in ascending order |
| `SignIn` | codes, tokens, registration, sessions | one phone, two devices; failure between any two transactions |
| `ChatTurn` | bridge, `run_product_turn`, screening, tools, charge, delivery | one account; `Handler`s run requests of messages that may be posted again; `life` counts the resets of the session, and a row of `messages` is a message of a life, so that a reset takes all rows away at once |
| `Reactivation` | planning, storing and sending of nudges | one account; the candidate is metadata of its row |
| `PlumRooms` | codes, likes, conversations, the turn answered at once | statements where two transactions meet on a row or an index |
| `ChannelBinding` | intents, scans, messages, unbinding, wipe | accounts are numbered as they are made; asking for a QR code is two statements (`AskIntent`, `CreateIntent`), `scanWait` the request and then the task that waits for the scan, gone with a restart; `second` is the clock of `completed_at` |
| `LanguageModel` | providers, tool rounds, streams, cancellation, bindings | a piece of text is the round and attempt it came from |
| `SchemaChain`, `Migrations` | `_MIGRATIONS`, `init_db`, the operator's runner | a record for each migration: what it needs, makes, drops and mends; processes run them under the advisory lock while old writers write |

Limits of single models. `PlumStream`: the text of messages, guards of the
account (any refusal) and the polling interval of the token are abstracted;
`restart` and conversations that share a wallet are not in it. `Referral`: one
inviter, one product. `SignIn`: one phone. `ChatTurn`, `Reactivation`: one
account; the resets of `ChatTurn` are those of the person's command, not those of an
operator (`admin_ops.py:153`, `debug.py:592`, `debug.py:767`). What each part leaves out is in the notes of `PROJECT.json`.

## 3. Runs

`MCWalletLedger`, `MCDailyQuota` and `MCPlumStream` give values to their
components alone. `MCServices`, `MCWorld` and `MCPeople` put several components
side by side whose rows are disjoint as far as the models tell them apart: the
variable `focus` names the part that moves and the others stay as they begin, so
that TLC explores the sum of their states and not the product.

| Run | Instance | What it shows |
|---|---|---|
| `MCWalletLedger` | 2 connections, 2 people, requests with shared and distinct keys | the invariants of the ledger, the refinement of `WalletBook`, and that no call waits forever |
| `MCDailyQuota` | 4 turns, limit 1 | the bound on the oversell, that counts are backed, that a crashed turn's slot comes back |
| `MCPlumStream` | 3 requests, two with one key, the third clears the session, no faults | one active turn; coins buy words and what the client is told is true also when a key is sent again |
| `MCPlumFaults` | 2 keys, one message, a crash and an error of any query, those of handlers and of the settling of the day too | coins buy words, what the client is told is true, nothing is orphaned, one outcome, every stream ends |
| `MCServices` | 10 parts, two workers (or connections, turns, tasks) each | see the properties in the modules of its parts |
| `MCWorld` | feed, residents, visits | capacity, the last resident, visits and claims |
| `MCPeople` | signing in, turns, nudges, Plum's rooms, binding | one account and gift a person, charged means answered between two resets, one nudge a day, prices, where a WeChat leads |
| `MCQuotaOversell`, `MCPlumUnseen`, `MCReferralReported`, `MCMemoryWatermark`, `MCReactivationCleared` | as above | promises of docstrings and comments that do not hold (section 5) |

Bounds. Two processes are enough for every race over one row, key or lock, and a
third only repeats one of them as a waiter; where a third meets what two leave
behind there are three (requests of `MCPlumStream`, people of `MCWorld`) or four
(turns of the quota: two confirmations may slip between the two SELECTs of a
reservation). Counters that grow for ever in the code (accounts, versions,
periods, attempts, business days, posts, texts, resets, seconds) are capped by constants named in
the module, at one to three, so that each is reached and mostly passed once. One piece
of text tells "some text was sent" from "none was". `MCPeople` leaves out, for the size of
its state space, some orders (by its operators `OneReset`, `SpeaksEarly`
and `FewQrCodes`): the last post of a message comes after the reset, the person of the
nudges writes before the slots of a day, and one of the two intents belongs to first accounts;
the proofs do not have these limits. Symmetry is used where
processes are interchangeable (in `MCServices` the actors of the parts share two
values, so that one swap serves them all) and no temporal property is checked with it, except
that `MCServices` and `MCWorld` check action properties `[][A]_v`, which look at
one step at a time and do not distinguish the permuted values.

Fairness. `MCWalletLedger`: a session's next statement is strongly fair, because a
lock or key it waits for is handed over when its holder ends, and statements are
finite. `MCDailyQuota`: time passes and the scheduler's reclaim runs (weak).
`MCPlumFaults`: a node that has not crashed carries on its requests and their worker
threads (weak); there is no fairness for clients, cancellation, time or faults. The other runs check
safety only.

## 4. Proofs

Proved for every value of the constants, under the assumptions named in the
modules: that sets are finite, that bounds are natural numbers and functions of
their type, and what tells kinds of rows apart (`CastBounds`: a preset is not the
request of a draft; `MailBounds`: a wish is not a letter of its own accord).
`OneScheduler` (`Reactivation`) is the deployment that the documents demand
(`proactive_messaging_design.md:611`, `admin_guide.md:323`); with two schedulers TLC
finds a second nudge of a day. `MigrationBounds` says that the databases and the
operator name versions of the chain (`_core.py:380`); `ArbitersStay` and `MendersLock`
are closed facts of the chain, which TLC evaluates completely and the provers
would have to compute. Nothing else is assumed unless stated below.

| Module | Theorems | Argument |
|---|---|---|
| `WalletLedgerProofs` | types, `Isolation`, `BalanceIsExplained`, `KeysAreUnique`, `NoOverdraft`, `ReleasesAreBacked`, `CostsMatchCharges`, `AnswersAreTrue`, `Refinement` | a transaction in flight adds what it will commit; a holder of a key or a row is alone; every commit maps to one step of `WalletBook` |
| `DailyQuotaProofs` | `DayIsBounded`, `EveryCountIsBacked` | what the holder of the advisory lock has read bounds count and reservations between its SELECTs; a confirmation takes its own row, which nobody inserts again |
| `PlumStreamProofs` | `OneTurnAtATime`, `NothingIsOrphaned`, `OutcomesAreFinal`, `NobodyPaysForNothing`, `ClientsAreToldTheTruth`, `CoinsAreForWords` | rows belong to the request that made them; text is recorded before it is seen, the queue keeps the order, a reclaim looks at unseen runs only, a release has a reason |
| `ReferralProofs` | `RewardsAreEarned` | a transaction's own version of a row is locked and grows from the committed one; every version is sound (qualified means enough messages, passed under soft review means that the hold is over); credits are marked before the commit; two transactions share no row lock |
| `ServiceProofs` | `SummarizerSkipsNothing` | whatever a session stores, or a turn, a scan or a background task has read, was there without gaps: with a message of the session it has every earlier one; so no write, in whatever order, puts the watermark beyond what the summary covers or has cut |
| | `ModerationClaimsAreAtomic` | a claim is counted by the statement that takes it, on a row that is queued and not freshly claimed; a task has one assignee at most, and only an assignee has been assured |
| | `RolePublishingIsSound` | only the latest version is in review, what is published has passed and is having no summary reviewed; the status is a function of the versions unless an admin has set it |
| | `StagesAreNotSkipped` | only one refresh is under way, and once it has read a stage beyond the start nobody takes the person back to the start before it writes |
| | `MessagesGoOutOnce` | whoever may still hand a message to the gateway has a claim of its own, every claim is counted in its row, and claims exceed one only by those that had gone stale; a commitment has one period |
| | `OneWholeAnswer` | until its first event nothing of an attempt is collected, and after it nothing is tried again; in the last turn that asked for tools every result so far is of this round, one for each call; late requests number less than the attempts of the round |
| `WorldProofs` | `InboxTouchesOnce` | a reserved notice counts as a touch whether or not its reservation has lapsed, for a lapsed one may still be finalized: of those that the inbox still holds one at most is shown lately or reserved |
| | `ResidentsFit`, `LastLeavesOnlyWithException` | who exists has used up its draft, and a request that has read its draft has made nobody yet; the approval under way keeps, by its row locks, what it has judged of resident and exception |
| | `WishesFollowLetters` | the row of a wish and its letter tell one story after every statement; a delivery writes both or neither, and a letter that ends closes its wish in the same transaction |
| | `VisitsStaySound` | locks are held disjointly and taken in ascending order; what a transaction has asked for, listed or judged (`AskedFor`, `ListedFor`, `JudgedFor`) still holds, because rows of a world change only under its lock, and visits and blocks of a person only under theirs |
| | `ClaimsHold` | a step settles only rows whose token is its own, and changes the process it belongs to; a post is written together with the events of what happens to it |
| `PeopleProofs` | `SignInStaysSound` | whoever holds the lock of the phone has its newest code in hand; wrong guesses read but not yet counted, together with the counted tries, stay below `MaxTries` plus the number of browsers; how far a registration has come says what the person has by then (`Backed`) |
| | `TurnsStaySound` | the request that stores a message is the only one that is ever in the middle of it; its stage says which rows of the message are written, in the life in which it began; a request that a reset has overtaken writes its reply to the new life, and what it has made it tells only after it has been stored |
| | `NudgesStaySound` | every candidate that is stored or carried is one that was made, with its kind (`Made`); what the scheduler has looked up before it sends (never sent, a quiet day) stays true until it sends, because nobody else sends: a report only ends a message that was on its way |
| | `RoomsStaySound` | a request that prepares the home finds what its earlier statements inserted (`AtHome`); who holds the lock of a like knows truly whether it changed it (`Reacts`); the last conversation, and no other, is the active one; a reply answers a message that was posted |
| | `BindingHolds` | accounts are numbered as they are made; an intent of a wiped account was being asked for when the wipe committed (`askedAtWipe`); a completed intent has no task that could complete it again |
| `MigrationProofs` | `MigrationsStaySafe` | the transaction's keys are those of the schema and of the migrations it has run; no flaw that they rule out is left or can be written, since the tables are locked (`Altered`); a start that is not blocked has all contracts behind it, the operator has no old writers beside it; the version only grows |

The invariants need strengthening because the properties speak of committed rows
while the steps that change them depend on what a transaction, a worker or a task
has read earlier; each proof's inductive invariant says what such a reading is still good for.
TLC checked each inductive invariant on an instance before it was proved. Lemmas about
effects come first (what an action does to the types and fields the rest needs),
then one lemma or case for each action.

No theorem has a hypothesis on constants. What the code does not keep is named in the
properties instead, by how a request ended. In `PlumStream` a request that is
`turnedaway` (another turn is active, or its run could not be made) releases the
reservation of its key, also when a first request with that key is being served
(`GivenAway`); one that is `broken` was stopped by an error of its last query, the
release of a handler for instance, and keeps or loses its coins as they were;
one that is `misreported` told the client of a failure although it was paid and served
(a query failed after the settling); `Cleared` is a session whose messages a turn
has deleted. A completed turn may keep its reservation of the day only where
the settling failed, which the code logs and passes over (`SettleOrLog`,
`service.py:1947`). The properties say that nothing else breaks the correspondence
of coins, words, messages of the day and what the client is told.

Only model-checked: liveness (`EveryCallAnswered`, `CrashedSlotIsFreed`,
`EveryStreamEnds`; fairness and ENABLED are beyond the prover), and `ChainIsSound`:
that every migration finds what it names, that a contract is not refused after its
precheck, and that all databases end in one schema are computed from one concrete
chain of records by a recursive function. Every other property of the passing runs
is stated by a theorem.

## 5. Where code and documents disagree

Shown by runs that expect a violation (`findings` in `PROJECT.json`):

- `MCQuotaOversell`: a confirmation that commits between the two SELECTs of
  `reserve_daily_quota` is in neither number; the docstring says overselling is eliminated.
- `MCPlumUnseen`: a node that stops between abandoning a stale run and releasing its
  reservation leaves coins for text nobody has seen.
- `MCReferralReported`: an error of one relationship aborts the batch's transaction,
  is swallowed, and the answer lists rewards that were rolled back.
- `MCMemoryWatermark`: two summaries of one session may set the watermark back.
- `MCReactivationCleared`: a cleared candidate of an invitation leaves a row behind that
  blocks every later invitation.

Claims that the models violate, found with TLC by stating them as invariants, and kept
out of the runs, whose properties are what does hold:

- `summarizer.py:43` ("覆盖全部 chunk", so that the watermark is never ahead of what went into
  the summary) and `summarizer.py:114` ("既不丢信息"): without an answer of the model
  `_deterministic_summary` cuts old summary and chunk to 1000 characters (`summarizer.py:67`),
  and line 175 moves the watermark past the whole chunk. `NothingForgotten`
  (`SessionMemory`) states the claim; `NothingSkipped` is what is left: a message is after the watermark, in the summary, or was cut off.
- `admin_guide.md:721` ("同真人两次成功真人级 visible 的间隔不得严格小于 24 小时") and
  `notifications.py:562` ("同一真人的多个 resident/due worker 不会各自占一条"): the guard counts
  notices that are still visible, and `_enforce_visible_limit` takes old ones away, so
  that a notice shown and pruned within the day makes room for a second touch
  (seven steps of `AppInbox`). `OneTouchInTheInbox` speaks of the notices still held.
- A QR code that is asked for on a second device while a wipe commits: `create_binding_intent`
  reads the owner and inserts the intent without a lock (`billing.py:3119`), so that
  the wipe (`lifecycle.py:360`) does not see the intent, and its scan connects a WeChat
  to the wiped account. `WipedIsUnreachable` exempts these accounts and no others.
- Two intents of one WeChat that are completed in the same second tie
  (`billing.py:3182`, `3344`), and either may be taken for the latest: that a WeChat leads
  to one account at any time does not hold across such a tie.
- A turn of `PlumStream` that is told completed may not be paid for, without any
  fault: a retry with its key finds the reservation, is refused because the turn is active,
  and gives the coins back (`app.py:701`). And a completed turn may not be counted for the
  day, when the settling fails (`service.py:1953`).
- A command that resets the session beside a turn that is being answered: the reply of the turn
  is stored into the cleared session, and its message, posted again, is answered again.

Seen while modelling and kept in the models, not as runs: a moderation decision may
be undone by an action that was asked for before it; a scheduler that retries an
inline send whose answer was lost sends again; a post may be published after its
window, a letter delivered after its wish was withdrawn, when the tick began before;
a type set by staff may be overwritten by a refresh that read the row earlier, and
a stage may go back (`web.py:448`); the kept price of a synchronous Plum turn may have
bought only a placeholder; an unbinding while a scan or a turn is under way leaves rows
of a wiped account; `generate_reply` accepts a reply cut off by its length; retries
inside a stream do not look at the cancellation token; streaming does not ask whether
its provider is enabled; an account found by the regrant path gets no subscription;
versions 63 and 71 take away keys that old writers still name in ON CONFLICT.

## 6. Not modelled

The RPM limiter (one lock around one window), media assets, the settings of a world,
the pages and statistics of admins, analytics; of modelled parts, the texts, prompts,
policies and reports named in the notes of `PROJECT.json`.

## 7. Plan

All safety properties but `ChainIsSound` are proved. What would extend the project
is breadth: the settings of a world and the statistics of admins, more of the
companion world's and the ledger's operations that change no property above, and an
abstract specification for the turn (a message is told, stored and charged in one
step) that `ChatTurn` would be shown to implement.
