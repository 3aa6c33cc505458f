---------------------------- MODULE LanguageModel ----------------------------
(***************************************************************************)
(* A call of the language model (app/agent_runtime/llm: service.py,        *)
(* adapters.py, providers.py; the bindings of app/db/llm_config.py and     *)
(* app/routers/admin_llm.py): which provider answers, the rounds of tool   *)
(* calls, the stream of an answer and what of it is shown, what is tried   *)
(* again, and what a cancellation stops.                                   *)
(*                                                                         *)
(* A piece of text is the round and the attempt it was sent in.  A tool    *)
(* call is its index in the answer.  The three protocols differ in when a  *)
(* stream is complete.  Left out: usage, traces, the rows that record tool *)
(* calls, and the length of what a tool hands back.  The network and the   *)
(* provider are external.                                                  *)
(***************************************************************************)
EXTENDS Integers, Sequences, FiniteSets

CONSTANTS Catalog,    \* the providers in order: [id, family, tier, protocol, ready]
          ToolRounds, \* llm_max_tool_rounds
          Retries,    \* max_retries of a provider
          Indexes,    \* indexes of the tool calls of an answer
          MaxChunks,  \* bound on the pieces of text of an attempt
          Overridden  \* bound on the tiers that admins override

VARIABLES family,    \* active_family, as an admin has set it
          override,  \* pro_provider_id and flash_provider_id
          call,      \* the call under way
          collected, \* what the stream has collected in this round
          transcript,\* assistant messages with tool calls, and tool results
          visible,   \* what on_text_delta was given
          cancelled, \* the caller's token
          requests,  \* requests of this call: [provider, late]
          finished   \* <<round, attempt>> whose provider has said it is done

llmVars == <<family, override, call, collected, transcript, visible, cancelled, requests, finished>>
bindingState == <<family, override>>

Unset == "unset"

\* The catalog is built from ids that are not empty, each taken once.
ASSUME LlmBounds ==
    /\ Catalog \in Seq([id : STRING, family : STRING, tier : STRING, protocol : STRING, ready : BOOLEAN])
    /\ Catalog # <<>>
    /\ \A j, k \in DOMAIN Catalog : Catalog[j].id # Unset /\ (Catalog[j].id = Catalog[k].id => j = k)
    /\ ToolRounds \in Int /\ Retries \in Nat
    /\ IsFiniteSet(Indexes) /\ Indexes \subseteq Nat
Tier == {"pro", "flash"}
Families == {Catalog[k].family : k \in DOMAIN Catalog}
NoCall == [pc |-> "idle", provider |-> 1, kind |-> "plain", streams |-> FALSE, tools |-> FALSE,
           forced |-> FALSE, round |-> 0, attempt |-> 1, emitted |-> FALSE,
           result |-> "none", reply |-> <<>>]
NothingCollected == [text |-> <<>>, calls |-> {}, finish |-> "none"]
-----------------------------------------------------------------------------
(* Which provider serves a tier. *)

FirstOf(S) == CHOOSE k \in S : \A j \in S : k <= j

\* resolve_provider_for_tier
ResolveProvider(tier, fam, named) ==
    LET byId == {k \in DOMAIN Catalog : Catalog[k].id = named}
        own  == {k \in DOMAIN Catalog : Catalog[k].family = fam /\ Catalog[k].tier = tier}
        pro  == {k \in DOMAIN Catalog : Catalog[k].family = fam /\ Catalog[k].tier = "pro"}
        same == {k \in DOMAIN Catalog : Catalog[k].tier = tier}
        tried == <<byId, own, pro, same, DOMAIN Catalog>>
    IN  FirstOf(tried[FirstOf({n \in DOMAIN tried : tried[n] # {}})])

ActiveProvider(tier) == ResolveProvider(tier, family, override[tier])

\* The defaults of a family are checked, not what serves the tiers now: the
\* overrides go.
SetActiveFamily(f) ==
    /\ \A t \in Tier : Catalog[ResolveProvider(t, f, Unset)].ready
    /\ family' = f
    /\ override' = [t \in Tier |-> Unset]
    /\ UNCHANGED <<call, collected, transcript, visible, cancelled, requests, finished>>

SetTierOverride(t, k) ==
    /\ Catalog[k].ready
    /\ override' = [override EXCEPT ![t] = Catalog[k].id]
    /\ UNCHANGED <<family, call, collected, transcript, visible, cancelled, requests, finished>>

ClearTierOverride(t) ==
    /\ override' = [override EXCEPT ![t] = Unset]
    /\ UNCHANGED <<family, call, collected, transcript, visible, cancelled, requests, finished>>
-----------------------------------------------------------------------------
(* Rounds. *)

RoundLimit == IF ToolRounds < 1 THEN 1 ELSE IF ToolRounds > 8 THEN 8 ELSE ToolRounds

\* A tool that is forced has to be one of those offered.
StartCall(kind, streams, tools, forced) ==
    /\ call.pc \in {"idle", "over"}
    /\ kind = "plain" => ~tools
    /\ forced => tools
    /\ LET p == ActiveProvider("flash")
       IN  call' = [NoCall EXCEPT !.provider = p, !.kind = kind, !.streams = streams,
                                  !.tools = tools, !.forced = forced,
                                  !.pc = IF Catalog[p].ready THEN "round" ELSE "over",
                                  !.result = IF Catalog[p].ready THEN "none" ELSE "error"]
    /\ collected' = NothingCollected /\ transcript' = <<>> /\ visible' = <<>>
    /\ cancelled' = FALSE /\ requests' = <<>> /\ finished' = {}
    /\ UNCHANGED bindingState

CancelCall ==
    /\ call.streams /\ call.pc \notin {"idle", "over"}
    /\ ~cancelled /\ cancelled' = TRUE
    /\ UNCHANGED <<bindingState, call, collected, transcript, visible, requests, finished>>

EndsAs(r) == call' = [call EXCEPT !.pc = "over", !.result = r]

\* What the request of an attempt carries to the provider.
Requested(c) == requests' = Append(requests, [provider |-> c.provider, late |-> cancelled])

BeginRound ==
    /\ call.pc = "round"
    /\ collected' = NothingCollected
    /\ IF call.streams /\ cancelled
       THEN EndsAs("cancelled") /\ UNCHANGED requests
       ELSE call' = [call EXCEPT !.pc = "sent", !.attempt = 1, !.emitted = FALSE] /\ Requested(call)
    /\ UNCHANGED <<bindingState, transcript, visible, cancelled, finished>>

\* Variant: only a read timeout and the last attempt end the trying.
MayTryAgainAnyway == call.attempt <= Retries

\* A connection that fails is tried again, unless something has been read from it.
MayTryAgain == ~call.emitted /\ call.attempt <= Retries

\* The connection fails, before an answer or in the middle of one.
ConnectionFails ==
    /\ call.pc \in {"sent", "reading"}
    /\ IF MayTryAgain
       THEN /\ call' = [call EXCEPT !.pc = "sent", !.attempt = @ + 1, !.emitted = FALSE]
            /\ Requested(call)
       ELSE EndsAs("error") /\ UNCHANGED requests
    /\ UNCHANGED <<bindingState, collected, transcript, visible, cancelled, finished>>

\* A status of an error, an answer that takes too long, one that is no JSON, or
\* an error event in the stream.
AnswerFails ==
    /\ call.pc \in {"sent", "reading"}
    /\ EndsAs("error")
    /\ UNCHANGED <<bindingState, collected, transcript, visible, cancelled, requests, finished>>
-----------------------------------------------------------------------------
(* The answer. *)

Chunk == <<call.round, call.attempt>>
Forced == call.forced /\ call.round = 0

\* A model calls tools only where it is offered some.
Offered == IF call.tools THEN Indexes ELSE {}

\* The answer comes whole.
PostAnswers ==
    /\ call.pc = "sent" /\ ~call.streams
    /\ \E text \in {<<>>, <<Chunk>>}, calls \in SUBSET Offered,
          f \in {"stop", "length", "tool_calls"} :
          /\ calls # {} => f = "tool_calls"
          /\ Forced => calls # {}
          /\ collected' = [text |-> text, calls |-> calls, finish |-> f]
    /\ call' = [call EXCEPT !.pc = "finish"]
    /\ finished' = finished \cup {Chunk}
    /\ UNCHANGED <<bindingState, transcript, visible, cancelled, requests>>

StreamOpens ==
    /\ call.pc = "sent" /\ call.streams
    /\ call' = [call EXCEPT !.pc = "reading"]
    /\ UNCHANGED <<bindingState, collected, transcript, visible, cancelled, requests, finished>>

\* Text is shown as it comes, unless there are tools it may turn out to be for.
TextArrives ==
    /\ Len(collected.text) < MaxChunks
    /\ collected' = [collected EXCEPT !.text = Append(@, Chunk)]
    /\ visible' = IF call.tools THEN visible ELSE Append(visible, Chunk)

ToolPartArrives(k) ==
    /\ collected' = [collected EXCEPT !.calls = @ \cup {k}]
    /\ UNCHANGED visible

\* An event for the collector, which asks for the token first.
StreamEvent ==
    /\ call.pc = "reading" /\ collected.finish = "none"
    /\ IF cancelled
       THEN EndsAs("cancelled") /\ UNCHANGED <<collected, visible>>
       ELSE /\ call' = [call EXCEPT !.emitted = TRUE]
            /\ TextArrives \/ \E k \in Offered : ToolPartArrives(k)
    /\ UNCHANGED <<bindingState, transcript, cancelled, requests, finished>>

\* The provider says why it ends, which the adapter keeps to itself; responses
\* say it with their end.
FinishReasonArrives ==
    /\ call.pc = "reading" /\ collected.finish = "none"
    /\ Catalog[call.provider].protocol # "openai_responses"
    /\ \E f \in {"stop", "length", "tool_calls"} : collected' = [collected EXCEPT !.finish = f]
    /\ call' = [call EXCEPT !.emitted = TRUE]
    /\ finished' = finished \cup {Chunk}
    /\ UNCHANGED <<bindingState, transcript, visible, cancelled, requests>>

StreamCompletes ==
    IF cancelled THEN EndsAs("cancelled") ELSE call' = [call EXCEPT !.pc = "finish"]

\* [DONE], response.completed or message_stop.
DoneArrives ==
    /\ call.pc = "reading"
    /\ StreamCompletes
    /\ finished' = finished \cup {Chunk}
    /\ UNCHANGED <<bindingState, collected, transcript, visible, cancelled, requests>>

\* The stream closes without it; some providers of the chat protocol do.
StreamCloses ==
    /\ call.pc = "reading"
    /\ IF Catalog[call.provider].protocol = "openai_chat" /\ collected.finish # "none"
       THEN StreamCompletes
       ELSE EndsAs(IF cancelled THEN "cancelled" ELSE "error")
    /\ UNCHANGED <<bindingState, collected, transcript, visible, cancelled, requests, finished>>
-----------------------------------------------------------------------------
(* What a round comes to. *)

FinishReason ==
    IF collected.calls # {} THEN "tool_calls"
    ELSE IF collected.finish = "none" THEN "stop" ELSE collected.finish

\* With tools the text of the last round is shown in one piece.
Replies ==
    IF collected.text = <<>> THEN EndsAs("error") /\ UNCHANGED visible
    ELSE /\ call' = [call EXCEPT !.pc = "over", !.result = "ok", !.reply = collected.text]
         /\ visible' = IF call.streams /\ call.tools THEN collected.text ELSE visible

\* generate_reply and generate_reply_stream take any text for the reply.
FinishPlain ==
    /\ call.pc = "finish" /\ call.kind = "plain"
    /\ Replies
    /\ UNCHANGED <<bindingState, collected, transcript, cancelled, requests, finished>>

FinishRound ==
    /\ call.pc = "finish" /\ call.kind = "loop"
    /\ CASE FinishReason = "stop" -> Replies /\ UNCHANGED transcript
         [] FinishReason = "tool_calls" /\ call.round < RoundLimit /\ collected.calls # {} ->
              /\ call' = [call EXCEPT !.pc = "tools"]
              /\ transcript' = Append(transcript, [role |-> "assistant", calls |-> collected.calls])
              /\ UNCHANGED visible
         [] OTHER -> EndsAs("error") /\ UNCHANGED <<visible, transcript>>
    /\ UNCHANGED <<bindingState, collected, cancelled, requests, finished>>

GivenResults == {transcript[n].call : n \in {m \in DOMAIN transcript :
                transcript[m].role = "tool" /\ transcript[m].round = call.round}}
NextCall == FirstOf(collected.calls \ GivenResults)

\* A tool that fails answers with its error.
RunTool ==
    /\ call.pc = "tools"
    /\ transcript' = Append(transcript, [role |-> "tool", round |-> call.round, call |-> NextCall])
    /\ call' = IF collected.calls \ GivenResults = {NextCall}
               THEN [call EXCEPT !.pc = "round", !.round = @ + 1]
               ELSE call
    /\ UNCHANGED <<bindingState, collected, visible, cancelled, requests, finished>>
-----------------------------------------------------------------------------
LlmInit ==
    /\ family \in {f \in Families : \A t \in Tier : Catalog[ResolveProvider(t, f, Unset)].ready}
    /\ override = [t \in Tier |-> Unset]
    /\ call = NoCall /\ collected = NothingCollected
    /\ transcript = <<>> /\ visible = <<>> /\ cancelled = FALSE
    /\ requests = <<>> /\ finished = {}

LlmNext ==
    \/ \E f \in Families : SetActiveFamily(f)
    \/ \E t \in Overridden : \/ ClearTierOverride(t)
                             \/ \E k \in DOMAIN Catalog : SetTierOverride(t, k)
    \/ \E kind \in {"plain", "loop"}, s, t, f \in BOOLEAN : StartCall(kind, s, t, f)
    \/ CancelCall \/ BeginRound \/ ConnectionFails \/ AnswerFails
    \/ PostAnswers \/ StreamOpens \/ StreamEvent \/ FinishReasonArrives \/ DoneArrives \/ StreamCloses
    \/ FinishPlain \/ FinishRound \/ RunTool

LlmSpec == LlmInit /\ [][LlmNext]_llmVars
-----------------------------------------------------------------------------
Pieces == {visible[n] : n \in DOMAIN visible}

\* What is shown comes from one answer, though a request was tried again.
ShownIsOneAnswer == Cardinality(Pieces) <= 1

\* What was shown is what is stored as the reply, and the provider has finished
\* it: a stream that breaks off is no reply.
ReplyIsShownAndWhole ==
    call.result = "ok" => /\ call.streams => visible = call.reply
                          /\ \A n \in DOMAIN call.reply : call.reply[n] \in finished

\* Words that came with a tool call stay inside.
ToolRoundIsSilent == call.tools /\ visible # <<>> => call.result = "ok"

\* A provider rejects a conversation in which a tool call lacks its result.
CallsAreAnswered ==
    call.pc = "sent" =>
        \A n \in DOMAIN transcript : transcript[n].role = "assistant" =>
            LET c == Cardinality(transcript[n].calls)
            IN  /\ n + c <= Len(transcript)
                /\ {transcript[m].call : m \in (n + 1)..(n + c)} = transcript[n].calls

\* However long the loop, the requests are bounded, after a cancellation by the
\* attempts of one round; all of them go to one provider, though an admin switches.
RequestsAreBounded ==
    /\ Len(requests) <= (RoundLimit + 1) * (Retries + 1)
    /\ Cardinality({n \in DOMAIN requests : requests[n].late}) <= Retries
    /\ \A n, m \in DOMAIN requests : requests[n].provider = requests[m].provider

\* Whatever admins switch, no call stops for want of a key.
BoundIsReady == call.pc # "idle" => Catalog[call.provider].ready

\* The language model is asked in a bounded, well-formed way and what a person
\* sees is one whole answer: service.py, generate_reply_with_tools.
LanguageModelIsSound ==
    /\ ShownIsOneAnswer /\ ReplyIsShownAndWhole /\ ToolRoundIsSilent
    /\ CallsAreAnswered /\ RequestsAreBounded /\ BoundIsReady
=============================================================================
