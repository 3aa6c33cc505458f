---------------------------- MODULE SessionMemory ----------------------------
(***************************************************************************)
(* The short-term memory of one account: the sessions of one conversation  *)
(* line, the rolling summary of the active one and the carryover that a    *)
(* closed session hands to the next.                                       *)
(*                                                                         *)
(* Turns and the scheduler of the day rotate sessions, with a call of the  *)
(* language model between reading a session and closing it; after every    *)
(* turn a background task may fold the oldest messages into the rolling    *)
(* summary, with such a call between reading and writing.  Nothing locks   *)
(* a session.  A summary is the set of the messages it was made from; what *)
(* the fallback without a model cuts off at the limit is told apart.       *)
(***************************************************************************)
EXTENDS Naturals, Sequences, FiniteSets

CONSTANTS Turner,      \* turns of the account
          Summarizer,  \* background tasks after turns
          Rotator,     \* runs of the dreaming scheduler
          MaxSessions, MaxMessages, \* bounds
          TailBudget   \* messages after the watermark that are not an overflow

ASSUME MemoryBounds == MaxSessions \in Nat /\ MaxMessages \in Nat /\ TailBudget \in Nat

VARIABLES session,  \* rows of sessions, by id
          history,  \* messages by id: the session each belongs to
          businessDay,
          turner, summarizer, rotator

memoryVars == <<session, history, businessDay, turner, summarizer, rotator>>

SessionId == 1..MaxSessions
NoSession == [status |-> "none", day |-> 0, carry |-> {}, rolling |-> {}, cut |-> {},
              upto |-> 0, turns |-> 0]
Messages(s) == {m \in DOMAIN history : history[m] = s}
\* list_context_messages_for_session: what follows the watermark, oldest first.
RawTail(s) == {m \in Messages(s) : m > session[s].upto}

Current == {s \in SessionId : session[s].status = "active"}
Unused == {s \in SessionId : session[s].status = "none"}
NextId == CHOOSE s \in Unused : \A r \in Unused : s <= r

\* get_latest_closed_carryover_for_account
LatestCarry ==
    LET closed == {s \in SessionId : session[s].status = "closed"}
    IN  IF closed = {} THEN {}
        ELSE session[CHOOSE s \in closed : \A r \in closed : r <= s].carry

Asleep == [at |-> "idle", id |-> 0, seen |-> {}, cut |-> {}, mark |-> 0, fresh |-> FALSE]
-----------------------------------------------------------------------------
(***************************************************************************)
(* A turn finds its session, and rotates it when its day is over.          *)
(***************************************************************************)
\* get_or_create_session: the row of the active key, or a new one.  The turn
\* goes on with a copy of the row, of which the seed looks at "fresh".
IsFresh(s) == session[s].rolling = {} /\ session[s].turns = 0

Holding(t, s, at) ==
    turner' = [turner EXCEPT ![t] = [Asleep EXCEPT !.at = at, !.id = s, !.fresh = IsFresh(s)]]

FindSession(t, from, stay, over) ==
    /\ turner[t].at = from
    /\ \/ \E s \in Current :
              /\ Holding(t, s, IF session[s].day # businessDay THEN over ELSE stay)
              /\ UNCHANGED session
       \/ /\ Current = {} /\ Unused # {}
          /\ session' = [session EXCEPT ![NextId] =
                             [NoSession EXCEPT !.status = "active", !.day = businessDay]]
          /\ turner' = [turner EXCEPT ![t] = [Asleep EXCEPT !.at = stay, !.id = NextId, !.fresh = TRUE]]
    /\ UNCHANGED <<history, businessDay, summarizer, rotator>>

PrepareSession(t) == FindSession(t, "idle", "seed", "rotate")

\* After its own rotation a turn takes the session as it is.
NextSession(t) == FindSession(t, "closed", "seed", "seed")

Seeded(s) == [session[s] EXCEPT !.rolling = LatestCarry, !.cut = {}, !.upto = 0]

\* _maybe_seed_new_session_from_last_closed, judged by the copy.
SeedSession(t) ==
    LET s == turner[t].id
    IN  /\ turner[t].at = "seed"
        /\ session' = IF turner[t].fresh /\ LatestCarry # {}
                      THEN [session EXCEPT ![s] = Seeded(s)] ELSE session
        /\ turner' = [turner EXCEPT ![t].at = "inbound", ![t].fresh = FALSE]
        /\ UNCHANGED <<history, businessDay, summarizer, rotator>>

\* The message of the person, and the answer with the count of the turn.
InsertInbound(t) ==
    /\ turner[t].at = "inbound" /\ Len(history) < MaxMessages
    /\ history' = Append(history, turner[t].id)
    /\ turner' = [turner EXCEPT ![t].at = "outbound"]
    /\ UNCHANGED <<session, businessDay, summarizer, rotator>>

InsertOutbound(t) ==
    /\ turner[t].at = "outbound" /\ Len(history) < MaxMessages
    /\ history' = Append(history, turner[t].id)
    /\ session' = [session EXCEPT ![turner[t].id].turns = 1]
    /\ turner' = [turner EXCEPT ![t] = Asleep]
    /\ \/ UNCHANGED summarizer \* the rolling summary is switched off
       \/ \E k \in Summarizer :
              /\ summarizer[k].at = "idle"
              /\ summarizer' = [summarizer EXCEPT ![k] = [Asleep EXCEPT !.at = "read", !.id = turner[t].id]]
    /\ UNCHANGED <<businessDay, rotator>>

\* The turn dies, is refused or is a retry of a message already answered.
TurnEnds(t) ==
    /\ turner[t].at # "idle"
    /\ turner' = [turner EXCEPT ![t] = Asleep]
    /\ UNCHANGED <<session, history, businessDay, summarizer, rotator>>
-----------------------------------------------------------------------------
(***************************************************************************)
(* Rotation: a copy of the messages is read, the model condenses it (or    *)
(* the deterministic fallback), the summary is stored, the row is closed.  *)
(***************************************************************************)
Loaded(w) == [w EXCEPT !.at = "dream", !.seen = Messages(w.id)]
Summarized(w) == [session EXCEPT ![w.id].carry = w.seen]
Closed(w) == [session EXCEPT ![w.id].carry = w.seen, ![w.id].status = "closed"]
Stored(w) == [w EXCEPT !.at = "close"]

TurnDreams(t) ==
    /\ \/ /\ turner[t].at = "rotate"
          /\ turner' = [turner EXCEPT ![t] = Loaded(@)]
          /\ UNCHANGED session
       \/ /\ turner[t].at = "dream"
          /\ session' = Summarized(turner[t])
          /\ turner' = [turner EXCEPT ![t] = Stored(@)]
       \/ /\ turner[t].at = "close"
          /\ session' = Closed(turner[t])
          /\ turner' = [turner EXCEPT ![t] = [Asleep EXCEPT !.at = "closed"]]
    /\ UNCHANGED <<history, businessDay, summarizer, rotator>>

\* run_daily_dreaming_scan lists active sessions of earlier days first.
ScanSessions(r) ==
    /\ rotator[r].at = "idle"
    /\ \E s \in Current : /\ session[s].day < businessDay
                          /\ rotator' = [rotator EXCEPT ![r] = [Asleep EXCEPT !.at = "rotate", !.id = s]]
    /\ UNCHANGED <<session, history, businessDay, turner, summarizer>>

ScanDreams(r) ==
    /\ \/ /\ rotator[r].at = "rotate"
          /\ rotator' = [rotator EXCEPT ![r] = Loaded(@)]
          /\ UNCHANGED session
       \/ /\ rotator[r].at = "dream"
          /\ session' = Summarized(rotator[r])
          /\ rotator' = [rotator EXCEPT ![r] = Stored(@)]
       \/ /\ rotator[r].at = "close"
          /\ session' = Closed(rotator[r])
          /\ rotator' = [rotator EXCEPT ![r] = Asleep]
    /\ UNCHANGED <<history, businessDay, turner, summarizer>>

ScanFails(r) ==
    /\ rotator[r].at # "idle"
    /\ rotator' = [rotator EXCEPT ![r] = Asleep]
    /\ UNCHANGED <<session, history, businessDay, turner, summarizer>>
-----------------------------------------------------------------------------
(***************************************************************************)
(* maybe_update_rolling_summary                                            *)
(***************************************************************************)
Oldest(S, n) == {m \in S : Cardinality({k \in S : k < m}) < n}
LastOf(S) == CHOOSE m \in S : \A k \in S : k <= m

\* Some of the oldest messages, never the last one, join the old summary: the model
\* merges the whole chunk, _deterministic_summary appends it, oldest first, and cuts
\* the text at ROLLING_SUMMARY_MAX_CHARS.  The mark is the last of the chunk either way.
ReadTail(k) ==
    LET s == summarizer[k].id
        Chunk(n) == Oldest(RawTail(s), n)
    IN  /\ summarizer[k].at = "read"
        /\ IF Cardinality(RawTail(s)) <= TailBudget
           THEN summarizer' = [summarizer EXCEPT ![k] = Asleep]
           ELSE \E n \in 1..(Cardinality(RawTail(s)) - 1) : \E kept \in 0..n :
                    /\ session[s].rolling = {} => kept > 0
                    /\ summarizer' = [summarizer EXCEPT ![k] =
                           [Asleep EXCEPT !.at = "write", !.id = s,
                                          !.seen = session[s].rolling \cup Chunk(kept),
                                          !.cut = session[s].cut \cup (Chunk(n) \ Chunk(kept)),
                                          !.mark = LastOf(Chunk(n))]]
        /\ UNCHANGED <<session, history, businessDay, turner, rotator>>

\* Variant: the mark is the last message of the session, not of the chunk.
WriteSummaryToEnd(k) ==
    LET w == summarizer[k]
    IN  /\ w.at = "write"
        /\ session' = [session EXCEPT ![w.id].rolling = w.seen, ![w.id].cut = w.cut,
                                      ![w.id].upto = LastOf(Messages(w.id))]
        /\ summarizer' = [summarizer EXCEPT ![k] = Asleep]
        /\ UNCHANGED <<history, businessDay, turner, rotator>>

WriteSummary(k) ==
    LET w == summarizer[k]
    IN  /\ w.at = "write"
        /\ session' = [session EXCEPT ![w.id].rolling = w.seen, ![w.id].cut = w.cut,
                                      ![w.id].upto = w.mark]
        /\ summarizer' = [summarizer EXCEPT ![k] = Asleep]
        /\ UNCHANGED <<history, businessDay, turner, rotator>>

SummaryFails(k) ==
    /\ summarizer[k].at # "idle"
    /\ summarizer' = [summarizer EXCEPT ![k] = Asleep]
    /\ UNCHANGED <<session, history, businessDay, turner, rotator>>

DayTurns ==
    /\ businessDay < MaxSessions - 1
    /\ businessDay' = businessDay + 1
    /\ UNCHANGED <<session, history, turner, summarizer, rotator>>

MemoryInit ==
    /\ session = [s \in SessionId |-> NoSession]
    /\ history = <<>>
    /\ businessDay = 0
    /\ turner = [t \in Turner |-> Asleep]
    /\ summarizer = [k \in Summarizer |-> Asleep]
    /\ rotator = [r \in Rotator |-> Asleep]

MemoryNext ==
    \/ \E t \in Turner : \/ PrepareSession(t)
                         \/ NextSession(t)
                         \/ SeedSession(t)
                         \/ InsertInbound(t)
                         \/ InsertOutbound(t)
                         \/ TurnEnds(t)
                         \/ TurnDreams(t)
    \/ \E r \in Rotator : \/ ScanSessions(r)
                          \/ ScanDreams(r)
                          \/ ScanFails(r)
    \/ \E k \in Summarizer : \/ ReadTail(k)
                             \/ WriteSummary(k)
                             \/ SummaryFails(k)
    \/ DayTurns

MemorySpec == MemoryInit /\ [][MemoryNext]_memoryVars
-----------------------------------------------------------------------------
MemoryTypeOK ==
    /\ history \in Seq(SessionId)
    /\ \A s \in SessionId : /\ session[s].status \in {"none", "active", "closed"}
                            /\ session[s].upto \in 0..MaxMessages
                            /\ session[s].carry \cup session[s].rolling \cup session[s].cut
                                   \subseteq 1..MaxMessages
    /\ Cardinality(Current) <= 1

\* Nothing passes the summarizer by: whoever rotates, seeds and summarizes at
\* the same time, a message of a session that the prompt no longer shows has
\* gone into its rolling summary, or was offered to it and cut off at the limit.
NothingSkipped ==
    /\ MemoryTypeOK
    /\ \A s \in SessionId : \A m \in Messages(s) :
           m <= session[s].upto => m \in session[s].rolling \cup session[s].cut

\* summarizer.py says that compressing loses no information: what the watermark
\* has passed is in the summary.  The fallback cuts what it has passed.
NothingForgotten ==
    \A s \in SessionId : \A m \in Messages(s) : m <= session[s].upto => m \in session[s].rolling

\* summarizer.py says that the watermark only advances and that what has been
\* summarized is not summarized again.  The code lets two background tasks of
\* one session write in any order.
WatermarkAdvances ==
    [][\A s \in SessionId : session'[s].upto >= session[s].upto]_memoryVars
==============================================================================
