------------------------------ MODULE ChatTurn ------------------------------
(***************************************************************************)
(* A turn of a Zhaoxi conversation on WeChat, from the bridge plugin of    *)
(* the gateway (openclaw-bridge/index.js) through run_product_turn         *)
(* (app/agent_runtime/turns/service.py): the message is posted, the        *)
(* account's first message is taken up by the welcome, the row is stored   *)
(* and the message of the day reserved, the text is screened, the language *)
(* model is asked and may call tools, and the reply is stored, charged,    *)
(* counted and delivered.  The same client may post a message again.       *)
(*                                                                         *)
(* One account and one session of it are followed.  A command of the       *)
(* person removes all messages of the session: it begins a new life of the *)
(* session, and rows are told apart by the life they were stored in.  A    *)
(* step is one transaction, one call of the model or of the gateway.  How  *)
(* a charge and a reservation work inside is the subject of WalletLedger   *)
(* and DailyQuota.                                                         *)
(***************************************************************************)
EXTENDS Naturals, Sequences, FiniteSets

CONSTANTS Utterance,  \* messages of the person
          ResetText,  \* those that say "#reset the session" (#重置会话)
          Handler,    \* requests that are handled at the same time
          MaxPosts,   \* bound on how often messages are posted
          MaxResets,  \* bound on how often the session is reset
          MaxRounds   \* rounds of tool calls of a turn (llm_max_tool_rounds)

ASSUME ChatBounds == MaxPosts \in Nat /\ MaxResets \in Nat

VARIABLES posts,    \* how often messages have been posted
          life,     \* the life of the session: rows of earlier lives are deleted
          heard,    \* rows of messages
          barred,   \* rows marked as blocked by moderation
          answers,  \* for each message and life, the kinds of the rows that reply to it
          asks,     \* how often the model was asked to answer a row
          charged,  \* messages with a charge: the idempotency keys of cost events
          daily,    \* reservation of the message of the day: none, held, counted, free
          stage,    \* onboarding_state of the account
          asked,    \* the person has been asked for their name
          named,    \* the name that the person gave is in the context files
          shown,    \* the replies the person was shown; notices and apologies are left out
          turn      \* what each request is doing

chatVars == <<posts, life, heard, barred, answers, asks, charged, daily, stage, asked, named, shown, turn>>

Life == 0 .. MaxResets
Row == Utterance \X Life

AtRest == [pc |-> "idle", msg |-> 0, life |-> 0, stage |-> "none", kind |-> "none",
           round |-> 0, tools |-> FALSE, waiting |-> FALSE]

Goto(h, pc) == turn' = [turn EXCEPT ![h].pc = pc]
Leave(h) == turn' = [turn EXCEPT ![h] = AtRest]
Reply(h, kind, pc) == turn' = [turn EXCEPT ![h].kind = kind, ![h].pc = pc]
Show(m, kind) == shown' = [shown EXCEPT ![m] = @ \cup {kind}]
Mine(h) == turn[h].msg

\* The row that the request has stored, and what the table holds on its message.
Own(h) == <<turn[h].msg, turn[h].life>>
Now(h) == <<turn[h].msg, life>>

\* A reply of the model, though the outbound guard may have put a safe text in
\* its place: such a turn is charged and counted.
Normal(h) == turn[h].kind \in {"answer", "withheld"}
-----------------------------------------------------------------------------
(***************************************************************************)
(* The bridge: it posts the message and waits; when the request takes too  *)
(* long it tells the person to try again.                                  *)
(***************************************************************************)
Post(h, m) ==
    /\ turn[h].pc = "idle"
    /\ posts < MaxPosts
    /\ posts' = posts + 1
    /\ turn' = [turn EXCEPT ![h] = [AtRest EXCEPT !.pc = "enter", !.msg = m, !.waiting = TRUE]]
    /\ UNCHANGED <<life, heard, barred, answers, asks, charged, daily, stage, asked, named, shown>>

BridgeTimeout(h) ==
    /\ turn[h].waiting
    /\ turn' = [turn EXCEPT ![h].waiting = FALSE]
    /\ UNCHANGED <<posts, life, heard, barred, answers, asks, charged, daily, stage, asked, named, shown>>

\* The answer to the request, if the bridge still waits for it.
Respond(h, kind) ==
    /\ Leave(h)
    /\ IF turn[h].waiting THEN Show(Mine(h), kind) ELSE UNCHANGED shown

\* The process dies or the request raises.
TurnBreaks(h) ==
    /\ turn[h].pc # "idle"
    /\ Leave(h)
    /\ UNCHANGED <<posts, life, heard, barred, answers, asks, charged, daily, stage, asked, named, shown>>
-----------------------------------------------------------------------------
(***************************************************************************)
(* Entry and the welcome.                                                  *)
(***************************************************************************)
\* The product, the membership and the binding are checked; a request that is
\* refused gets no reply.
Turned(h) ==
    /\ turn[h].pc = "enter"
    /\ Leave(h)
    /\ UNCHANGED <<posts, life, heard, barred, answers, asks, charged, daily, stage, asked, named, shown>>

Enter(h) ==
    /\ turn[h].pc = "enter"
    /\ turn' = [turn EXCEPT ![h].stage = stage,
                            ![h].pc = IF stage = "pending" THEN "welcome" ELSE "gate"]
    /\ UNCHANGED <<posts, life, heard, barred, answers, asks, charged, daily, stage, asked, named, shown>>

\* The gateway sends the welcome once, by its idempotency key; when it cannot,
\* the message is handled as any other.
SendWelcome(h) ==
    /\ turn[h].pc = "welcome"
    /\ \/ /\ asked' = TRUE
          /\ IF asked THEN UNCHANGED shown ELSE Show(Mine(h), "welcome")
          /\ Goto(h, "start")
       \/ Goto(h, "gate") /\ UNCHANGED <<asked, shown>>
    /\ UNCHANGED <<posts, life, heard, barred, answers, asks, charged, daily, stage, named>>

\* Onboarding.start; an error falls through to the ordinary turn.
StartOnboarding(h) ==
    /\ turn[h].pc = "start"
    /\ \/ stage' = "step1" /\ Goto(h, "log")
       \/ Goto(h, "gate") /\ UNCHANGED stage
    /\ UNCHANGED <<posts, life, heard, barred, answers, asks, charged, daily, asked, named, shown>>

\* The message that the welcome has taken up is stored with it; the bridge
\* gets no reply.
LogWelcome(h) ==
    /\ turn[h].pc = "log"
    /\ heard' = heard \cup {Now(h)}
    /\ answers' = [answers EXCEPT ![Now(h)] = Append(@, "welcome")]
    /\ Leave(h)
    /\ UNCHANGED <<posts, life, barred, asks, charged, daily, stage, asked, named, shown>>

\* The account is disabled, or a limit of the minute or of the day is reached.
Limited(h) ==
    /\ turn[h].pc = "gate"
    /\ Leave(h)
    /\ UNCHANGED <<posts, life, heard, barred, answers, asks, charged, daily, stage, asked, named, shown>>

\* get_duplicate_reply: the latest reply to a message.
Latest(r) == answers[r][Len(answers[r])]

\* A message that has a reply gets it again, before and after the insertion.
Repeated(h) ==
    /\ turn[h].pc = "gate"
    /\ answers[Now(h)] # <<>>
    /\ Respond(h, Latest(Now(h)))
    /\ UNCHANGED <<posts, life, heard, barred, answers, asks, charged, daily, stage, asked, named>>

Pass(h) ==
    /\ turn[h].pc = "gate"
    /\ answers[Now(h)] = <<>>
    /\ Goto(h, "store")
    /\ UNCHANGED <<posts, life, heard, barred, answers, asks, charged, daily, stage, asked, named, shown>>
-----------------------------------------------------------------------------
(***************************************************************************)
(* The message is stored and screened.                                     *)
(***************************************************************************)
\* Variant: a message is stored again.
NewMessageAlways(r) == TRUE

\* The unique index on the message's id.
NewMessage(r) == r \notin heard

\* The row and the reservation in one transaction; the day may be full by now.
StoreMessage(h) ==
    /\ turn[h].pc = "store" /\ NewMessage(Now(h))
    /\ heard' = heard \cup {Now(h)}
    /\ \/ /\ daily' = [daily EXCEPT ![Now(h)] = "held"]
          /\ turn' = [turn EXCEPT ![h].pc = "screen", ![h].life = life]
       \/ Leave(h) /\ UNCHANGED daily
    /\ UNCHANGED <<posts, life, barred, answers, asks, charged, stage, asked, named, shown>>

AlreadyStored(h) ==
    /\ turn[h].pc = "store" /\ ~NewMessage(Now(h))
    /\ IF answers[Now(h)] = <<>> THEN Leave(h) /\ UNCHANGED shown
       ELSE Respond(h, Latest(Now(h)))
    /\ UNCHANGED <<posts, life, heard, barred, answers, asks, charged, daily, stage, asked, named>>

\* The screening lets the text pass, fails open, or blocks it.
Screen(h) ==
    /\ turn[h].pc = "screen"
    /\ \/ Goto(h, "ask")
       \/ Reply(h, "safe", "mark")
    /\ UNCHANGED <<posts, life, heard, barred, answers, asks, charged, daily, stage, asked, named, shown>>

\* A row that a reset has deleted is marked no more.
MarkBlocked(h) ==
    /\ turn[h].pc = "mark"
    /\ barred' = barred \cup ({Own(h)} \cap {Now(h)})
    /\ Goto(h, "keep")
    /\ UNCHANGED <<posts, life, heard, answers, asks, charged, daily, stage, asked, named, shown>>
-----------------------------------------------------------------------------
(***************************************************************************)
(* The reply.                                                              *)
(***************************************************************************)
\* The command to reset deletes every message of the session, also those that
\* other requests are about to answer and the row of the command.
ResetSession(h) ==
    /\ turn[h].pc = "ask" /\ Mine(h) \in ResetText
    /\ life < MaxResets
    /\ life' = life + 1
    /\ Reply(h, "fixed", "keep")
    /\ UNCHANGED <<posts, heard, barred, answers, asks, charged, daily, stage, asked, named, shown>>

\* The command that asks for the status, an image or a voice that nobody
\* understood: a fixed text, without the model.
FixedReply(h) ==
    /\ turn[h].pc = "ask" /\ Mine(h) \notin ResetText
    /\ Reply(h, "fixed", "keep")
    /\ UNCHANGED <<posts, life, heard, barred, answers, asks, charged, daily, stage, asked, named, shown>>

\* The prompt is put together.  While the onboarding asks its questions, a
\* model reads the message for a name, which is written down at once.
ReadContext(h) ==
    /\ turn[h].pc = "ask" /\ Mine(h) \notin ResetText
    /\ \/ turn[h].stage \in {"step1", "step2"} /\ named' = TRUE
       \/ UNCHANGED named
    /\ Goto(h, "model")
    /\ UNCHANGED <<posts, life, heard, barred, answers, asks, charged, daily, stage, asked, shown>>

\* A turn of the onboarding has no tools.
ToolsAllowed(h) == turn[h].stage = "complete"

\* A round with the model: it answers, calls tools, or the call fails.  Beyond
\* the last round a call of tools is an error.
AskModel(h) ==
    /\ turn[h].pc = "model"
    /\ asks' = [asks EXCEPT ![Own(h)] = IF turn[h].round = 0 THEN @ + 1 ELSE @]
    /\ \/ Reply(h, "answer", "guard")
       \/ Reply(h, "fallback", "guard")
       \/ /\ ToolsAllowed(h) /\ turn[h].round < MaxRounds
          /\ turn' = [turn EXCEPT ![h].round = @ + 1, ![h].tools = TRUE]
    /\ UNCHANGED <<posts, life, heard, barred, answers, charged, daily, stage, asked, named, shown>>

\* check_sync_guard puts a safe text in place of a reply.
GuardReply(h) ==
    /\ turn[h].pc = "guard"
    /\ \/ Goto(h, "keep")
       \/ turn[h].kind = "answer" /\ Reply(h, "withheld", "keep")
    /\ UNCHANGED <<posts, life, heard, barred, answers, asks, charged, daily, stage, asked, named, shown>>

\* _ensure_pending_onboarding_question adds the question to the reply.
Asks(h) == turn[h].stage = "pending" /\ turn[h].kind = "answer"

KeepReply(h) ==
    /\ turn[h].pc = "keep"
    /\ answers' = [answers EXCEPT ![Now(h)] = Append(@, turn[h].kind)]
    /\ asked' = (asked \/ Asks(h))
    /\ Goto(h, IF Normal(h) THEN "charge" ELSE "settle")
    /\ UNCHANGED <<posts, life, heard, barred, asks, charged, daily, stage, named, shown>>

\* record_chat_usage_charge, by an idempotency key made of the message's id: a
\* message that is answered again after a reset is not charged again.  An error
\* is logged.
Charge(h) ==
    /\ turn[h].pc = "charge"
    /\ charged' \in {charged, charged \cup {Mine(h)}}
    /\ Goto(h, "settle")
    /\ UNCHANGED <<posts, life, heard, barred, answers, asks, daily, stage, asked, named, shown>>

\* confirm_daily_quota or rollback_daily_quota; an error is logged.
SettleDaily(h) ==
    /\ turn[h].pc = "settle"
    /\ \/ daily' = [daily EXCEPT ![Own(h)] = IF Normal(h) THEN "counted" ELSE "free"]
       \/ UNCHANGED daily
    /\ Goto(h, IF Normal(h) /\ turn[h].stage # "complete" THEN "advance" ELSE "deliver")
    /\ UNCHANGED <<posts, life, heard, barred, answers, asks, charged, stage, asked, named, shown>>

\* next_onboarding_state, from the state that the turn has read: the second
\* question may be asked once more, and a campaign may leave it out.
NextStages(s) ==
    CASE s = "pending" -> {"step1"}
      [] s = "step1" -> {"step2", "complete"}
      [] s = "step2" -> {"step2", "complete"}

AdvanceOnboarding(h) ==
    /\ turn[h].pc = "advance"
    /\ stage' \in NextStages(turn[h].stage)
    /\ Goto(h, "deliver")
    /\ UNCHANGED <<posts, life, heard, barred, answers, asks, charged, daily, asked, named, shown>>

\* After tools the reply goes out by itself, since the bridge may have given
\* up; when that fails, and otherwise, it is the answer to the request.
SendToolReply(h) ==
    /\ turn[h].pc = "deliver" /\ turn[h].tools
    /\ Show(Mine(h), turn[h].kind)
    /\ Leave(h)
    /\ UNCHANGED <<posts, life, heard, barred, answers, asks, charged, daily, stage, asked, named>>

ReturnReply(h) ==
    /\ turn[h].pc = "deliver"
    /\ Respond(h, turn[h].kind)
    /\ UNCHANGED <<posts, life, heard, barred, answers, asks, charged, daily, stage, asked, named>>
-----------------------------------------------------------------------------
ChatInit ==
    /\ posts = 0 /\ life = 0
    /\ heard = {} /\ barred = {} /\ charged = {}
    /\ answers = [r \in Row |-> <<>>]
    /\ asks = [r \in Row |-> 0]
    /\ daily = [r \in Row |-> "none"]
    /\ stage \in {"pending", "complete"}
    /\ asked = (stage = "complete") /\ named = asked
    /\ shown = [m \in Utterance |-> {}]
    /\ turn = [h \in Handler |-> AtRest]

ChatNext ==
    \E h \in Handler :
        \/ \E m \in Utterance : Post(h, m)
        \/ BridgeTimeout(h) \/ TurnBreaks(h)
        \/ Turned(h) \/ Enter(h) \/ SendWelcome(h) \/ StartOnboarding(h) \/ LogWelcome(h)
        \/ Limited(h) \/ Repeated(h) \/ Pass(h)
        \/ StoreMessage(h) \/ AlreadyStored(h) \/ Screen(h) \/ MarkBlocked(h)
        \/ ResetSession(h) \/ FixedReply(h) \/ ReadContext(h) \/ AskModel(h) \/ GuardReply(h) \/ KeepReply(h)
        \/ Charge(h) \/ SettleDaily(h) \/ AdvanceOnboarding(h)
        \/ SendToolReply(h) \/ ReturnReply(h)

ChatSpec == ChatInit /\ [][ChatNext]_chatVars
-----------------------------------------------------------------------------
Kinds == {"welcome", "answer", "withheld", "safe", "fixed", "fallback"}

ChatTypeOK ==
    /\ heard \subseteq Row /\ barred \subseteq heard /\ charged \subseteq Utterance
    /\ posts \in 0..MaxPosts /\ life \in Life
    /\ \A r \in Row : daily[r] \in {"none", "held", "counted", "free"}
    /\ \A m \in Utterance : shown[m] \subseteq Kinds
    /\ stage \in {"pending", "step1", "step2", "complete"}
    /\ asked \in BOOLEAN /\ named \in BOOLEAN

\* A reply of one of these kinds stands in the history, or stood there until a
\* reset took it away.
Answered(r, kinds) == \E i \in 1..Len(answers[r]) : answers[r][i] \in kinds
Said(m, kinds) == \E l \in Life : Answered(<<m, l>>, kinds)

\* However often a message is posted, and whatever fails, the model is asked
\* for its answer once between two resets; only a row that the model was asked
\* about and that moderation let pass is counted, or charged, and only after
\* its reply was stored.
PaidOnce ==
    /\ \A r \in Row :
           /\ asks[r] <= 1
           /\ daily[r] = "counted" => asks[r] = 1 /\ r \notin barred
    /\ \A m \in charged : \E l \in Life : asks[<<m, l>>] = 1 /\ <<m, l>> \notin barred
    /\ \A m \in Utterance :
           m \in charged \/ (\E l \in Life : daily[<<m, l>>] = "counted")
               => Said(m, {"answer", "withheld"})

\* What the person was told as an answer was stored first: it is in the history
\* that the next turn reads, unless the person has had the session reset.
ToldIsRemembered ==
    \A m \in Utterance : \A kind \in shown[m] \ {"welcome"} : Said(m, {kind})

\* The onboarding moves on, and takes a message for a name, only when the
\* person has been asked for it, but for a first reply that the outbound guard
\* has withheld.
AskedFirst ==
    stage # "pending" \/ named => asked \/ \E m \in Utterance : Said(m, {"withheld"})

TurnsAreSound == ChatTypeOK /\ PaidOnce /\ ToldIsRemembered /\ AskedFirst
=============================================================================
