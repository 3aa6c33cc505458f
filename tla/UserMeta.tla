------------------------------- MODULE UserMeta -------------------------------
(***************************************************************************)
(* What is known of the person behind one account: the type of companion   *)
(* (guessed by the language model or set by staff for a time) and the      *)
(* stage of the relationship.  Every night one scheduler reads the row,    *)
(* asks the model twice and writes; turns and staff write meanwhile, and   *)
(* each statement is a transaction of its own.                             *)
(***************************************************************************)
EXTENDS Naturals

CONSTANTS Chatter,     \* tasks that follow turns
          Talkative,   \* messages from which the model is asked (the code
                       \* counts those of earlier days)
          Familiar,    \* messages beyond which the person is acquainted
          MaxInbound, MaxNights \* bounds

ASSUME MetaBounds == MaxNights \in Nat

VARIABLES meta,     \* row of account_user_meta
          inbound,  \* messages of the person
          refresh,  \* the scheduler in _refresh_account
          chatter,  \* the stage a task after a turn has read
          night,    \* nights begun
          daily     \* nights with a row in account_user_meta_daily

metaVars == <<meta, inbound, refresh, chatter, night, daily>>

Stages == <<"icebreaking", "acquainted", "deep_bond">>
Rank(s) == CHOOSE k \in DOMAIN Stages : Stages[k] = s
NoMeta == [stage |-> "icebreaking", source |-> "auto", typed |-> FALSE, due |-> TRUE]
NotRefreshing == [at |-> "idle", seen |-> NoMeta]

\* compute_stage_threshold
StageByCount(stage) ==
    IF stage = "icebreaking" /\ inbound > Familiar THEN "acquainted" ELSE stage

\* Variant: whatever the model says is taken.
MergedFreely(stage, said) == said

\* merge_llm_relationship: the model may only make friends of acquaintances.
MergedStage(stage, said) ==
    IF stage = "acquainted" /\ said = "deep_bond" THEN said ELSE stage
-----------------------------------------------------------------------------
\* maybe_update_relationship_state_after_turn, in two transactions.
Talk ==
    /\ inbound < MaxInbound
    /\ inbound' = inbound + 1
    /\ UNCHANGED <<meta, refresh, chatter, night, daily>>

ReadStageAfterTurn(c) ==
    /\ chatter[c] = "idle"
    /\ StageByCount(meta.stage) # meta.stage
    /\ chatter' = [chatter EXCEPT ![c] = StageByCount(meta.stage)]
    /\ UNCHANGED <<meta, inbound, refresh, night, daily>>

WriteStageAfterTurn(c) ==
    /\ chatter[c] # "idle"
    /\ meta' = [meta EXCEPT !.stage = chatter[c]]
    /\ chatter' = [chatter EXCEPT ![c] = "idle"]
    /\ UNCHANGED <<inbound, refresh, night, daily>>

\* set_companion_type_manual; the override may name a date of expiry.
SetManualType ==
    /\ meta' = [meta EXCEPT !.source = "manual", !.typed = TRUE, !.due = FALSE]
    /\ UNCHANGED <<inbound, refresh, chatter, night, daily>>

\* Seven days since a guess, or the override's date, have passed.
TypeFallsDue ==
    /\ ~meta.due
    /\ meta' = [meta EXCEPT !.due = TRUE]
    /\ UNCHANGED <<inbound, refresh, chatter, night, daily>>
-----------------------------------------------------------------------------
\* run_once comes to the account and reads its row; run_once runs once.
BeginRefresh ==
    /\ refresh.at = "idle" /\ night < MaxNights
    /\ refresh' = [at |-> "companion", seen |-> meta]
    /\ night' = night + 1
    /\ UNCHANGED <<meta, inbound, chatter, daily>>

NeedsGuess(m) == m.due \/ (inbound >= Talkative /\ m.source = "auto" /\ ~m.typed)

\* upsert_account_user_meta after the first call of the model, which may
\* fail: all companion fields are written, the stage is not.
Refreshed ==
    LET m == refresh.seen
    IN  IF ~NeedsGuess(m) THEN {m}
        ELSE IF inbound < Talkative THEN {[m EXCEPT !.source = "auto", !.typed = FALSE, !.due = FALSE]}
        ELSE {m, [m EXCEPT !.source = "auto", !.typed = TRUE, !.due = FALSE]}

UpsertMeta ==
    /\ refresh.at = "companion"
    /\ \E m \in Refreshed : meta' = [m EXCEPT !.stage = meta.stage]
    /\ refresh' = [refresh EXCEPT !.at = "stage"]
    /\ UNCHANGED <<inbound, chatter, night, daily>>

\* apply_daily_deterministic_relationship, from the row read at the start.
WriteDailyStage ==
    /\ refresh.at = "stage"
    /\ meta' = [meta EXCEPT !.stage = StageByCount(refresh.seen.stage)]
    /\ refresh' = [at |-> IF inbound >= Talkative THEN "judge" ELSE "snapshot",
                   seen |-> [refresh.seen EXCEPT !.stage = StageByCount(@)]]
    /\ UNCHANGED <<inbound, chatter, night, daily>>

\* apply_daily_llm_relationship after the second call, which may fail.
WriteJudgedStage ==
    /\ refresh.at = "judge"
    /\ \E said \in {"icebreaking", "acquainted", "deep_bond"} :
           LET stage == MergedStage(refresh.seen.stage, said)
           IN  /\ meta' = [meta EXCEPT !.stage = stage]
               /\ refresh' = [at |-> "snapshot", seen |-> [refresh.seen EXCEPT !.stage = stage]]
    /\ UNCHANGED <<inbound, chatter, night, daily>>

JudgeFails ==
    /\ refresh.at = "judge"
    /\ refresh' = [refresh EXCEPT !.at = "snapshot"]
    /\ UNCHANGED <<meta, inbound, chatter, night, daily>>

\* insert_account_user_meta_daily
InsertDaily ==
    /\ refresh.at = "snapshot"
    /\ daily' = daily \cup {night}
    /\ refresh' = NotRefreshing
    /\ UNCHANGED <<meta, inbound, chatter, night>>

\* An exception, isolated to the account, or the process stops.
RefreshAborts ==
    /\ refresh.at # "idle"
    /\ refresh' = NotRefreshing
    /\ UNCHANGED <<meta, inbound, chatter, night, daily>>

MetaInit ==
    /\ meta = NoMeta
    /\ inbound = 0
    /\ refresh = NotRefreshing
    /\ chatter = [c \in Chatter |-> "idle"]
    /\ night = 0
    /\ daily = {}

MetaNext ==
    \/ Talk
    \/ \E c \in Chatter : ReadStageAfterTurn(c) \/ WriteStageAfterTurn(c)
    \/ SetManualType
    \/ TypeFallsDue
    \/ BeginRefresh
    \/ UpsertMeta
    \/ WriteDailyStage
    \/ WriteJudgedStage
    \/ JudgeFails
    \/ InsertDaily
    \/ RefreshAborts

MetaSpec == MetaInit /\ [][MetaNext]_metaVars
-----------------------------------------------------------------------------
MetaTypeOK ==
    /\ meta \in [stage : {"icebreaking", "acquainted", "deep_bond"}, source : {"auto", "manual"},
                 typed : BOOLEAN, due : BOOLEAN]
    /\ refresh.at \in {"idle", "companion", "stage", "judge", "snapshot"}
    /\ daily \subseteq 1..MaxNights

\* Nobody becomes a close friend without having been acquainted: whatever the
\* model says and whoever writes meanwhile, no step skips a stage.
NoStageSkipped == []MetaTypeOK /\ [][Rank(meta'.stage) <= Rank(meta.stage) + 1]_metaVars
==============================================================================
