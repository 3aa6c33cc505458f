---------------------------- MODULE ServiceProofs ----------------------------
(***************************************************************************)
(* What is proved about services that ask a model between two of their     *)
(* transactions, for any number of workers, tasks and rows: the rolling    *)
(* summary of a session, moderation, the publishing of role templates, the *)
(* relationship stage, proactive messages, the language model's calls.     *)
(***************************************************************************)
EXTENDS SessionMemory, Moderation, RoleTemplates, UserMeta, Outbound, LanguageModel, FiniteSetTheorems, WellFoundedInduction, TLAPS

(* Least and greatest numbers of a set. *)

LEMMA LeastNumber ==
    ASSUME NEW T \in SUBSET Nat, T # {}
    PROVE  \E x \in T : \A y \in T : x <= y
<1> DEFINE R == {ss \in Nat \X Nat : ss[1] < ss[2]}
<1>1. IsWellFoundedOn(R, Nat)
  BY NatLessThanWellFounded, Zenon DEF OpToRel
<1>2. PICK x \in T : \A y \in T : ~(<<y, x>> \in R)
  <2> HIDE DEF R
  <2> QED BY <1>1, WFMin
<1>3. \A y \in T : ~(y < x)
  BY <1>2
<1> QED BY <1>2, <1>3

LEMMA GreatestNumber ==
    ASSUME NEW N \in Nat, NEW T \in SUBSET (0 .. N), T # {}
    PROVE  \E x \in T : \A y \in T : y <= x
<1> DEFINE U == {N - x : x \in T}
<1>1. U \in SUBSET Nat /\ U # {}
  <2>1. \A x \in T : N - x \in Nat
    OBVIOUS
  <2>2. \A u \in U : \E x \in T : u = N - x
    OBVIOUS
  <2>3. PICK x \in T : TRUE
    OBVIOUS
  <2>4. N - x \in U
    OBVIOUS
  <2> QED BY <2>1, <2>2, <2>4
<1>2. PICK u \in U : \A v \in U : u <= v
  <2> HIDE DEF U
  <2> QED BY <1>1, LeastNumber
<1>3. PICK x \in T : u = N - x
  <2>1. u \in U
    BY <1>2
  <2> QED BY <2>1
<1>4. ASSUME NEW y \in T PROVE y <= x
  <2>1. N - y \in U
    OBVIOUS
  <2>2. N \in Nat /\ x \in 0 .. N /\ y \in 0 .. N /\ N - x <= N - y
    BY <1>2, <1>3, <2>1
  <2> QED BY <2>2
<1> QED BY <1>3, <1>4
-----------------------------------------------------------------------------
(* The invariant of the conversation memory. *)

InSession(h, s) == {m \in DOMAIN h : h[m] = s}

\* Every message of a session up to the mark is in X.
HasUpTo(h, s, mark, X) == \A m \in InSession(h, s) : m <= mark => m \in X

SessionRow ==
    [status : {"none", "active", "closed"}, day : Nat, carry : SUBSET (1 .. MaxMessages),
     rolling : SUBSET (1 .. MaxMessages), cut : SUBSET (1 .. MaxMessages),
     upto : 0 .. MaxMessages, turns : {0, 1}]

MemoryWorker ==
    [at : {"idle", "seed", "rotate", "closed", "inbound", "outbound", "dream", "close", "read", "write"},
     id : 0 .. MaxSessions, seen : SUBSET (1 .. MaxMessages), cut : SUBSET (1 .. MaxMessages),
     mark : 0 .. MaxMessages, fresh : BOOLEAN]

\* What a row of a session stores was there when it was stored, and up to its
\* watermark nothing is missing.
RowRemembers(h, s, row) ==
    /\ row.upto <= Len(h)
    /\ row.carry \cup row.rolling \cup row.cut \subseteq DOMAIN h
    /\ HasUpTo(h, s, row.upto, row.rolling \cup row.cut)

\* So it is with what a turn, a scan or a background task has read and not written yet.
WorkerRemembers(h, w) ==
    /\ w.seen \cup w.cut \subseteq DOMAIN h
    /\ w.mark <= Len(h)
    /\ w.at \notin {"idle", "closed"} => w.id \in SessionId
    /\ w.at = "write" => HasUpTo(h, w.id, w.mark, w.seen \cup w.cut)

HistoryInv ==
    history \in Seq(SessionId) /\ Len(history) <= MaxMessages /\ businessDay \in Nat

SessionInv ==
    /\ session \in [SessionId -> SessionRow]
    /\ \A s \in SessionId : RowRemembers(history, s, session[s])
    /\ \A r, s \in SessionId : session[r].status = "active" /\ session[s].status = "active" => r = s

TurnerInv ==
    /\ turner \in [Turner -> MemoryWorker]
    /\ \A t \in Turner : WorkerRemembers(history, turner[t]) /\ turner[t].at \notin {"read", "write"}

SummarizerInv ==
    /\ summarizer \in [Summarizer -> MemoryWorker]
    /\ \A k \in Summarizer :
          WorkerRemembers(history, summarizer[k]) /\ summarizer[k].at \in {"idle", "read", "write"}

RotatorInv ==
    /\ rotator \in [Rotator -> MemoryWorker]
    /\ \A r \in Rotator :
          /\ WorkerRemembers(history, rotator[r])
          /\ rotator[r].at \in {"idle", "rotate", "dream", "close"}

MemoryInv == HistoryInv /\ SessionInv /\ TurnerInv /\ SummarizerInv /\ RotatorInv
-----------------------------------------------------------------------------
(* What a session has grows at its end. *)

LEMMA SessionGrows ==
    ASSUME NEW h \in Seq(SessionId), NEW x \in SessionId
    PROVE  /\ Append(h, x) \in Seq(SessionId) /\ Len(Append(h, x)) = Len(h) + 1
           /\ DOMAIN h = 1 .. Len(h) /\ DOMAIN Append(h, x) = 1 .. Len(h) + 1
           /\ \A s \in SessionId : \A m \in 1 .. Len(h) :
                 m \in InSession(Append(h, x), s) <=> m \in InSession(h, s)
           /\ \A s \in SessionId : InSession(Append(h, x), s) \subseteq 1 .. Len(h) + 1
           /\ \A s \in SessionId : InSession(h, s) \subseteq 1 .. Len(h)
  BY DEF InSession

LEMMA MarkStays ==
    ASSUME NEW h \in Seq(SessionId), NEW x \in SessionId, NEW s \in SessionId,
           NEW mark \in Nat, mark <= Len(h), NEW X, HasUpTo(h, s, mark, X)
    PROVE  HasUpTo(Append(h, x), s, mark, X)
<1> DEFINE g == Append(h, x)
<1>1. /\ Len(h) \in Nat /\ InSession(g, s) \subseteq 1 .. Len(h) + 1
      /\ \A m \in 1 .. Len(h) : m \in InSession(g, s) <=> m \in InSession(h, s)
  BY SessionGrows
<1> HIDE DEF g
<1>2. ASSUME NEW m \in InSession(g, s), m <= mark PROVE m \in X
  <2>1. m \in 1 .. Len(h)
    BY <1>1, <1>2
  <2> QED BY <1>1, <1>2, <2>1 DEF HasUpTo
<1> QED BY <1>2 DEF HasUpTo, g

LEMMA RowGrows ==
    ASSUME NEW h \in Seq(SessionId), NEW x \in SessionId, NEW s \in SessionId,
           NEW row \in SessionRow, RowRemembers(h, s, row)
    PROVE  RowRemembers(Append(h, x), s, row)
<1> DEFINE g == Append(h, x)
<1>1. Len(h) \in Nat /\ Len(g) = Len(h) + 1 /\ DOMAIN h \subseteq DOMAIN g
  BY SessionGrows
<1>2. row.upto \in Nat
  BY DEF SessionRow
<1>3. HasUpTo(g, s, row.upto, row.rolling \cup row.cut)
  BY <1>2, MarkStays DEF RowRemembers
<1> HIDE DEF g
<1>4. row.upto <= Len(g) /\ row.carry \cup row.rolling \cup row.cut \subseteq DOMAIN g
  BY <1>1, <1>2 DEF RowRemembers
<1> QED BY <1>3, <1>4 DEF RowRemembers, g

LEMMA WorkerGrows ==
    ASSUME NEW h \in Seq(SessionId), NEW x \in SessionId,
           NEW w \in MemoryWorker, WorkerRemembers(h, w)
    PROVE  WorkerRemembers(Append(h, x), w)
<1> DEFINE g == Append(h, x)
<1>1. Len(h) \in Nat /\ Len(g) = Len(h) + 1 /\ DOMAIN h \subseteq DOMAIN g
  BY SessionGrows
<1>2. w.mark \in Nat
  BY DEF MemoryWorker
<1>3. w.at = "write" => HasUpTo(g, w.id, w.mark, w.seen \cup w.cut)
  BY <1>2, MarkStays DEF WorkerRemembers
<1> HIDE DEF g
<1>4. w.mark <= Len(g) /\ w.seen \cup w.cut \subseteq DOMAIN g
  BY <1>1, <1>2 DEF WorkerRemembers
<1> QED BY <1>3, <1>4 DEF WorkerRemembers, g
-----------------------------------------------------------------------------
(* Which session a choice finds. *)

LEMMA NextIsUnused ==
    ASSUME Unused # {}
    PROVE  NextId \in Unused /\ NextId \in SessionId
<1>1. Unused \in SUBSET Nat
  BY MemoryBounds DEF Unused, SessionId
<1>2. \E s \in Unused : \A r \in Unused : s <= r
  BY <1>1, LeastNumber
<1>3. NextId \in Unused
  BY <1>2 DEF NextId
<1> QED BY <1>3 DEF Unused

LEMMA CarryIsStored ==
    ASSUME LatestCarry # {}
    PROVE  \E c \in SessionId : LatestCarry = session[c].carry
<1> DEFINE closed == {s \in SessionId : session[s].status = "closed"}
           last == CHOOSE s \in closed : \A r \in closed : r <= s
<1>1. closed # {} /\ LatestCarry = session[last].carry
  BY DEF LatestCarry
<1>2. closed \in SUBSET (0 .. MaxSessions)
  BY MemoryBounds DEF SessionId
<1>3. \E s \in closed : \A r \in closed : r <= s
  <2> HIDE DEF closed
  <2> QED BY <1>1, <1>2, GreatestNumber, MemoryBounds
<1>4. last \in closed
  BY <1>3
<1> QED BY <1>1, <1>4
-----------------------------------------------------------------------------
(* What a step of one session, turn, task or scan has to show. *)

LEMMA OneSession ==
    ASSUME SessionInv, UNCHANGED history, session' \in [SessionId -> SessionRow], NEW s \in SessionId,
           \A r \in SessionId : r # s => session'[r] = session[r],
           RowRemembers(history, s, session'[s]),
           session'[s].status = "active" => session[s].status = "active" \/ Current = {}
    PROVE  SessionInv'
  BY DEF SessionInv, Current

LEMMA OneTurner ==
    ASSUME TurnerInv, UNCHANGED history, turner' \in [Turner -> MemoryWorker], NEW t \in Turner,
           \A u \in Turner : u # t => turner'[u] = turner[u],
           WorkerRemembers(history, turner'[t]), turner'[t].at \notin {"read", "write"}
    PROVE  TurnerInv'
  BY DEF TurnerInv

LEMMA OneSummarizer ==
    ASSUME SummarizerInv, UNCHANGED history, summarizer' \in [Summarizer -> MemoryWorker],
           NEW k \in Summarizer,
           \A j \in Summarizer : j # k => summarizer'[j] = summarizer[j],
           WorkerRemembers(history, summarizer'[k]), summarizer'[k].at \in {"idle", "read", "write"}
    PROVE  SummarizerInv'
  BY DEF SummarizerInv

LEMMA OneRotator ==
    ASSUME RotatorInv, UNCHANGED history, rotator' \in [Rotator -> MemoryWorker], NEW r \in Rotator,
           \A q \in Rotator : q # r => rotator'[q] = rotator[q],
           WorkerRemembers(history, rotator'[r]),
           rotator'[r].at \in {"idle", "rotate", "dream", "close"}
    PROVE  RotatorInv'
  BY DEF RotatorInv

LEMMA MemoryStays ==
    ASSUME UNCHANGED history
    PROVE  /\ SessionInv /\ UNCHANGED session => SessionInv'
           /\ TurnerInv /\ UNCHANGED turner => TurnerInv'
           /\ SummarizerInv /\ UNCHANGED summarizer => SummarizerInv'
           /\ RotatorInv /\ UNCHANGED rotator => RotatorInv'
           /\ HistoryInv /\ UNCHANGED businessDay => HistoryInv'
  BY DEF SessionInv, TurnerInv, SummarizerInv, RotatorInv, HistoryInv, Current

\* One that starts, and one that has ended.
LEMMA Starts ==
    ASSUME NEW h \in Seq(SessionId), NEW at, NEW s \in 0 .. MaxSessions, NEW b \in BOOLEAN,
           at \in {"idle", "seed", "rotate", "closed", "inbound", "outbound", "read"},
           at \notin {"idle", "closed"} => s \in SessionId
    PROVE  LET w == [Asleep EXCEPT !.at = at, !.id = s, !.fresh = b]
           IN  w \in MemoryWorker /\ w.at = at /\ WorkerRemembers(h, w)
<1> DEFINE w == [Asleep EXCEPT !.at = at, !.id = s, !.fresh = b]
<1>1. w.at = at /\ w.id = s /\ w.seen = {} /\ w.cut = {} /\ w.mark = 0
  BY DEF Asleep
<1>2. 0 \in 0 .. MaxMessages /\ Len(h) \in Nat
  BY MemoryBounds
<1>3. w \in MemoryWorker
  BY <1>2 DEF Asleep, MemoryWorker
<1>4. WorkerRemembers(h, w)
  BY <1>1, <1>2 DEF WorkerRemembers
<1> QED BY <1>1, <1>3, <1>4

LEMMA Reads ==
    ASSUME NEW h \in Seq(SessionId), NEW at \in {"rotate", "read"}, NEW s \in SessionId
    PROVE  LET w == [Asleep EXCEPT !.at = at, !.id = s]
           IN  w \in MemoryWorker /\ w.at = at /\ WorkerRemembers(h, w)
<1> DEFINE w == [Asleep EXCEPT !.at = at, !.id = s]
<1>1. w.at = at /\ w.id = s /\ w.seen = {} /\ w.cut = {} /\ w.mark = 0
  BY DEF Asleep
<1>2. s \in 0 .. MaxSessions /\ 0 \in 0 .. MaxMessages
  BY MemoryBounds DEF SessionId
<1>3. w \in MemoryWorker
  BY <1>2 DEF Asleep, MemoryWorker
<1>4. WorkerRemembers(h, w)
  BY <1>1 DEF WorkerRemembers
<1> QED BY <1>1, <1>3, <1>4

LEMMA Ends ==
    ASSUME NEW h \in Seq(SessionId)
    PROVE  /\ Asleep \in MemoryWorker /\ Asleep.at = "idle" /\ WorkerRemembers(h, Asleep)
           /\ LET w == [Asleep EXCEPT !.at = "closed"]
              IN  w \in MemoryWorker /\ w.at = "closed" /\ WorkerRemembers(h, w)
<1> DEFINE w == [Asleep EXCEPT !.at = "closed"]
<1>1. Asleep = [at |-> "idle", id |-> 0, seen |-> {}, cut |-> {}, mark |-> 0, fresh |-> FALSE]
  BY DEF Asleep
<1>2. w.at = "closed" /\ w.seen = {} /\ w.cut = {} /\ w.mark = 0
  BY DEF Asleep
<1>3. 0 \in 0 .. MaxSessions /\ 0 \in 0 .. MaxMessages
  BY MemoryBounds
<1>4. Asleep \in MemoryWorker /\ w \in MemoryWorker
  BY <1>1, <1>3 DEF MemoryWorker
<1>5. WorkerRemembers(h, Asleep)
  BY <1>1 DEF WorkerRemembers
<1>6. WorkerRemembers(h, w)
  BY <1>2 DEF WorkerRemembers
<1> QED BY <1>1, <1>2, <1>4, <1>5, <1>6

LEMMA NewSession ==
    ASSUME NEW h \in Seq(SessionId), NEW s \in SessionId, NEW d \in Nat
    PROVE  LET row == [NoSession EXCEPT !.status = "active", !.day = d]
           IN  row \in SessionRow /\ row.status = "active" /\ RowRemembers(h, s, row)
<1> DEFINE row == [NoSession EXCEPT !.status = "active", !.day = d]
<1>1. /\ row.status = "active" /\ row.day = d
      /\ row.carry = {} /\ row.rolling = {} /\ row.cut = {} /\ row.upto = 0 /\ row.turns = 0
  BY DEF NoSession
<1>2. row \in SessionRow
  <2>1. 0 \in 0 .. MaxMessages
    BY MemoryBounds
  <2> QED BY <2>1 DEF SessionRow, NoSession
<1> HIDE DEF row
<1>3. InSession(h, s) \subseteq 1 .. Len(h) /\ Len(h) \in Nat
  BY DEF InSession
<1>4. RowRemembers(h, s, row)
  BY <1>1, <1>3 DEF RowRemembers, HasUpTo
<1> QED BY <1>1, <1>2, <1>4 DEF row
-----------------------------------------------------------------------------
(* A turn finds its session and seeds it. *)

LEMMA FindKeeps ==
    ASSUME MemoryInv, NEW t \in Turner, NEW from, NEW over \in {"seed", "rotate"},
           FindSession(t, from, "seed", over)
    PROVE  MemoryInv'
<1>1. /\ history \in Seq(SessionId) /\ businessDay \in Nat
      /\ session \in [SessionId -> SessionRow] /\ turner \in [Turner -> MemoryWorker]
      /\ SessionInv /\ TurnerInv
  BY DEF MemoryInv, HistoryInv, SessionInv, TurnerInv
<1>2. UNCHANGED <<history, businessDay, summarizer, rotator>>
  BY DEF FindSession
<1>3. HistoryInv' /\ SummarizerInv' /\ RotatorInv'
  BY <1>2, MemoryStays DEF MemoryInv
<1>4. \A s \in SessionId : s \in 0 .. MaxSessions
  BY MemoryBounds DEF SessionId
<1>5. CASE \E s \in Current : /\ Holding(t, s, IF session[s].day # businessDay THEN over ELSE "seed")
                              /\ UNCHANGED session
  <2>1. PICK s \in Current : /\ Holding(t, s, IF session[s].day # businessDay THEN over ELSE "seed")
                             /\ UNCHANGED session
    BY <1>5
  <2>2. PICK at \in {"seed", "rotate"} : at = IF session[s].day # businessDay THEN over ELSE "seed"
    OBVIOUS
  <2>3. PICK b \in BOOLEAN : b = IsFresh(s)
    BY DEF IsFresh
  <2> DEFINE w == [Asleep EXCEPT !.at = at, !.id = s, !.fresh = b]
  <2>4. turner' = [turner EXCEPT ![t] = w]
    BY <2>1, <2>2, <2>3 DEF Holding
  <2>5. w \in MemoryWorker /\ w.at = at /\ WorkerRemembers(history, w)
    BY <1>1, <1>4, Starts DEF Current
  <2> HIDE DEF w
  <2>6. TurnerInv'
    BY <1>1, <1>2, <2>4, <2>5, OneTurner
  <2>7. SessionInv'
    BY <1>1, <1>2, <2>1, MemoryStays
  <2> QED BY <1>3, <2>6, <2>7 DEF MemoryInv
<1>6. CASE /\ Current = {} /\ Unused # {}
           /\ session' = [session EXCEPT ![NextId] =
                             [NoSession EXCEPT !.status = "active", !.day = businessDay]]
           /\ turner' = [turner EXCEPT ![t] = [Asleep EXCEPT !.at = "seed", !.id = NextId, !.fresh = TRUE]]
  <2>1. PICK s \in SessionId : s = NextId
    BY <1>6, NextIsUnused
  <2> DEFINE w == [Asleep EXCEPT !.at = "seed", !.id = s, !.fresh = TRUE]
             row == [NoSession EXCEPT !.status = "active", !.day = businessDay]
  <2>2. turner' = [turner EXCEPT ![t] = w] /\ session' = [session EXCEPT ![s] = row]
    BY <1>6, <2>1
  <2>3. w \in MemoryWorker /\ w.at = "seed" /\ WorkerRemembers(history, w)
    BY <1>1, <1>4, Starts
  <2>4. row \in SessionRow /\ row.status = "active" /\ RowRemembers(history, s, row)
    BY <1>1, NewSession
  <2> HIDE DEF w, row
  <2>5. TurnerInv'
    BY <1>1, <1>2, <2>2, <2>3, OneTurner
  <2>6. SessionInv'
    BY <1>1, <1>2, <1>6, <2>2, <2>4, OneSession, ZenonT(30)
  <2> QED BY <1>3, <2>5, <2>6 DEF MemoryInv
<1> QED BY <1>5, <1>6 DEF FindSession

\* A session takes over what a closed one has carried over.
LEMMA CarryIsOld ==
    ASSUME MemoryInv
    PROVE  LatestCarry \in SUBSET (DOMAIN history)
<1>1. CASE LatestCarry = {}
  BY <1>1
<1>2. CASE LatestCarry # {}
  <2>1. PICK c \in SessionId : LatestCarry = session[c].carry
    BY <1>2, CarryIsStored
  <2>2. RowRemembers(history, c, session[c])
    BY DEF MemoryInv, SessionInv
  <2> QED BY <2>1, <2>2 DEF RowRemembers
<1> QED BY <1>1, <1>2

\* Before its first message nothing can be missing.
LEMMA NothingBeforeFirst ==
    ASSUME NEW h \in Seq(SessionId), NEW s, NEW X
    PROVE  HasUpTo(h, s, 0, X)
<1>1. InSession(h, s) \subseteq 1 .. Len(h) /\ Len(h) \in Nat
  BY DEF InSession
<1> QED BY <1>1 DEF HasUpTo

\* Types of the state, for the proofs of the actions.
LEMMA MemoryTypes ==
    ASSUME MemoryInv
    PROVE  /\ history \in Seq(SessionId) /\ Len(history) <= MaxMessages /\ businessDay \in Nat
           /\ session \in [SessionId -> SessionRow]
           /\ turner \in [Turner -> MemoryWorker]
           /\ summarizer \in [Summarizer -> MemoryWorker]
           /\ rotator \in [Rotator -> MemoryWorker]
           /\ HistoryInv /\ SessionInv /\ TurnerInv /\ SummarizerInv /\ RotatorInv
  BY DEF MemoryInv, HistoryInv, SessionInv, TurnerInv, SummarizerInv, RotatorInv

LEMMA InHistory ==
    ASSUME MemoryInv
    PROVE  /\ Len(history) \in Nat /\ DOMAIN history = 1 .. Len(history)
           /\ DOMAIN history \subseteq 1 .. MaxMessages
           /\ \A s : InSession(history, s) \subseteq 1 .. Len(history)
  BY MemoryTypes, MemoryBounds DEF InSession

LEMMA SeedKeeps ==
    ASSUME MemoryInv, NEW t \in Turner, SeedSession(t)
    PROVE  MemoryInv'
<1> DEFINE s == turner[t].id
<1>1. /\ turner[t].at = "seed" /\ UNCHANGED <<history, businessDay, summarizer, rotator>>
      /\ turner' = [turner EXCEPT ![t].at = "inbound", ![t].fresh = FALSE]
      /\ \/ session' = [session EXCEPT ![s] = Seeded(s)]
         \/ session' = session
  BY DEF SeedSession
<1>2. HistoryInv' /\ SummarizerInv' /\ RotatorInv'
  BY <1>1, MemoryTypes, MemoryStays
<1>3. turner[t] \in MemoryWorker /\ WorkerRemembers(history, turner[t]) /\ s \in SessionId
  BY <1>1, MemoryTypes DEF TurnerInv, WorkerRemembers
<1>4. TurnerInv'
  <2>1. /\ turner' \in [Turner -> MemoryWorker] /\ turner'[t].at = "inbound"
        /\ turner'[t].id = s /\ turner'[t].seen = turner[t].seen
        /\ turner'[t].cut = turner[t].cut /\ turner'[t].mark = turner[t].mark
        /\ \A u \in Turner : u # t => turner'[u] = turner[u]
    BY <1>1, <1>3, MemoryTypes DEF MemoryWorker
  <2>2. WorkerRemembers(history, turner'[t])
    BY <1>3, <2>1 DEF WorkerRemembers
  <2> QED BY <1>1, <2>1, <2>2, MemoryTypes, OneTurner
<1>5. SessionInv'
  <2>1. CASE session' = session
    BY <1>1, <2>1, MemoryTypes, MemoryStays
  <2>2. CASE session' = [session EXCEPT ![s] = Seeded(s)]
    <3> DEFINE row == Seeded(s)
    <3>1. LatestCarry \in SUBSET (1 .. MaxMessages) /\ 0 \in 0 .. MaxMessages
      BY CarryIsOld, InHistory, MemoryBounds
    <3>2. session[s] \in SessionRow /\ RowRemembers(history, s, session[s])
      BY <1>3, MemoryTypes DEF SessionInv
    <3>3. /\ row \in SessionRow /\ row.status = session[s].status /\ row.carry = session[s].carry
          /\ row.rolling = LatestCarry /\ row.cut = {} /\ row.upto = 0
      BY <3>1, <3>2 DEF Seeded, SessionRow
    <3> HIDE DEF row
    <3>4. RowRemembers(history, s, row)
      <4>1. LatestCarry \subseteq DOMAIN history /\ Len(history) \in Nat /\ history \in Seq(SessionId)
        BY CarryIsOld, InHistory, MemoryTypes
      <4>2. HasUpTo(history, s, 0, row.rolling \cup row.cut)
        BY <4>1, NothingBeforeFirst
      <4> QED BY <3>2, <3>3, <4>1, <4>2 DEF RowRemembers
    <3>5. session' = [session EXCEPT ![s] = row]
      BY <2>2 DEF row
    <3>6. /\ session' \in [SessionId -> SessionRow] /\ session'[s] = row
          /\ \A r \in SessionId : r # s => session'[r] = session[r]
      BY <3>3, <3>5, <1>3, MemoryTypes
    <3>7. RowRemembers(history, s, session'[s])
      BY <3>4, <3>6
    <3>8. session'[s].status = session[s].status
      BY <3>3, <3>6
    <3> QED BY <1>1, <1>3, <3>6, <3>7, <3>8, MemoryTypes, OneSession
  <2> QED BY <1>1, <2>1, <2>2
<1> QED BY <1>2, <1>4, <1>5 DEF MemoryInv
-----------------------------------------------------------------------------
(* Messages are added. *)

LEMMA HistoryGrows ==
    ASSUME MemoryInv, NEW s \in SessionId, Len(history) < MaxMessages,
           history' = Append(history, s), UNCHANGED businessDay
    PROVE  /\ HistoryInv'
           /\ \A r \in SessionId : RowRemembers(history', r, session[r])
           /\ \A t \in Turner : WorkerRemembers(history', turner[t])
           /\ \A k \in Summarizer : WorkerRemembers(history', summarizer[k])
           /\ \A r \in Rotator : WorkerRemembers(history', rotator[r])
<1>1. HistoryInv'
  BY MemoryTypes, SessionGrows, MemoryBounds DEF HistoryInv
<1>2. \A r \in SessionId : RowRemembers(history', r, session[r])
  BY MemoryTypes, RowGrows DEF SessionInv
<1>3. \A t \in Turner : WorkerRemembers(history', turner[t])
  BY MemoryTypes, WorkerGrows DEF TurnerInv
<1>4. \A k \in Summarizer : WorkerRemembers(history', summarizer[k])
  BY MemoryTypes, WorkerGrows DEF SummarizerInv
<1>5. \A r \in Rotator : WorkerRemembers(history', rotator[r])
  BY MemoryTypes, WorkerGrows DEF RotatorInv
<1> QED BY <1>1, <1>2, <1>3, <1>4, <1>5

LEMMA InboundKeeps ==
    ASSUME MemoryInv, NEW t \in Turner, InsertInbound(t)
    PROVE  MemoryInv'
<1>1. /\ turner[t].at = "inbound" /\ Len(history) < MaxMessages
      /\ history' = Append(history, turner[t].id)
      /\ turner' = [turner EXCEPT ![t].at = "outbound"]
      /\ UNCHANGED <<session, businessDay, summarizer, rotator>>
  BY DEF InsertInbound
<1>2. turner[t] \in MemoryWorker /\ turner[t].id \in SessionId
  BY <1>1, MemoryTypes DEF TurnerInv, WorkerRemembers
<1>3. /\ HistoryInv'
      /\ \A r \in SessionId : RowRemembers(history', r, session[r])
      /\ \A u \in Turner : WorkerRemembers(history', turner[u])
      /\ \A k \in Summarizer : WorkerRemembers(history', summarizer[k])
      /\ \A r \in Rotator : WorkerRemembers(history', rotator[r])
  BY <1>1, <1>2, HistoryGrows
<1>4. /\ turner' \in [Turner -> MemoryWorker] /\ turner'[t].at = "outbound"
      /\ turner'[t].id = turner[t].id /\ turner'[t].seen = turner[t].seen
      /\ turner'[t].cut = turner[t].cut /\ turner'[t].mark = turner[t].mark
      /\ \A u \in Turner : u # t => turner'[u] = turner[u]
  BY <1>1, <1>2, MemoryTypes DEF MemoryWorker
<1>5. WorkerRemembers(history', turner'[t])
  BY <1>2, <1>3, <1>4 DEF WorkerRemembers
<1>6. TurnerInv'
  BY <1>3, <1>4, <1>5, MemoryTypes DEF TurnerInv
<1>7. SessionInv'
  BY <1>1, <1>3, MemoryTypes DEF SessionInv
<1>8. SummarizerInv' /\ RotatorInv'
  BY <1>1, <1>3, MemoryTypes DEF SummarizerInv, RotatorInv
<1> QED BY <1>3, <1>6, <1>7, <1>8 DEF MemoryInv

LEMMA OutboundKeeps ==
    ASSUME MemoryInv, NEW t \in Turner, InsertOutbound(t)
    PROVE  MemoryInv'
<1> DEFINE s == turner[t].id
<1>1. /\ turner[t].at = "outbound" /\ Len(history) < MaxMessages
      /\ history' = Append(history, s)
      /\ session' = [session EXCEPT ![s].turns = 1]
      /\ turner' = [turner EXCEPT ![t] = Asleep]
      /\ UNCHANGED <<businessDay, rotator>>
      /\ \/ UNCHANGED summarizer
         \/ \E k \in Summarizer :
              summarizer' = [summarizer EXCEPT ![k] = [Asleep EXCEPT !.at = "read", !.id = s]]
  BY DEF InsertOutbound
<1>2. turner[t] \in MemoryWorker /\ s \in SessionId
  BY <1>1, MemoryTypes DEF TurnerInv, WorkerRemembers
<1>3. /\ HistoryInv'
      /\ \A r \in SessionId : RowRemembers(history', r, session[r])
      /\ \A u \in Turner : WorkerRemembers(history', turner[u])
      /\ \A k \in Summarizer : WorkerRemembers(history', summarizer[k])
      /\ \A r \in Rotator : WorkerRemembers(history', rotator[r])
  BY <1>1, <1>2, HistoryGrows
<1>4. history' \in Seq(SessionId)
  BY <1>3 DEF HistoryInv
<1>5. Asleep \in MemoryWorker /\ Asleep.at = "idle" /\ WorkerRemembers(history', Asleep)
  BY <1>4, Ends
<1>6. TurnerInv'
  BY <1>1, <1>3, <1>5, MemoryTypes DEF TurnerInv
<1>7. SessionInv'
  <2>1. /\ session' \in [SessionId -> SessionRow]
        /\ \A r \in SessionId : /\ session'[r].status = session[r].status
                                /\ session'[r].carry = session[r].carry
                                /\ session'[r].rolling = session[r].rolling
                                /\ session'[r].cut = session[r].cut
                                /\ session'[r].upto = session[r].upto
    <3> DEFINE row == [session[s] EXCEPT !.turns = 1]
    <3>1. session[s] \in SessionRow
      BY <1>2, MemoryTypes
    <3>2. /\ row \in SessionRow /\ row.status = session[s].status /\ row.carry = session[s].carry
          /\ row.rolling = session[s].rolling /\ row.cut = session[s].cut
          /\ row.upto = session[s].upto
      BY <3>1 DEF SessionRow
    <3>3. session' = [session EXCEPT ![s] = row]
      BY <1>1
    <3> HIDE DEF row
    <3> QED BY <1>2, <3>2, <3>3, MemoryTypes
  <2>2. \A r \in SessionId : RowRemembers(history', r, session'[r])
    BY <1>3, <2>1 DEF RowRemembers
  <2> QED BY <2>1, <2>2, MemoryTypes DEF SessionInv
<1>8. RotatorInv'
  BY <1>1, <1>3, MemoryTypes DEF RotatorInv
<1>9. SummarizerInv'
  <2>1. CASE UNCHANGED summarizer
    BY <1>3, <2>1, MemoryTypes DEF SummarizerInv
  <2>2. CASE \E k \in Summarizer :
              summarizer' = [summarizer EXCEPT ![k] = [Asleep EXCEPT !.at = "read", !.id = s]]
    <3> DEFINE w == [Asleep EXCEPT !.at = "read", !.id = s]
    <3>1. PICK k \in Summarizer : summarizer' = [summarizer EXCEPT ![k] = w]
      BY <2>2
    <3>2. w \in MemoryWorker /\ w.at = "read" /\ WorkerRemembers(history', w)
      BY <1>2, <1>4, Reads
    <3> HIDE DEF w
    <3> QED BY <1>3, <3>1, <3>2, MemoryTypes DEF SummarizerInv
  <2> QED BY <1>1, <2>1, <2>2
<1> QED BY <1>3, <1>6, <1>7, <1>8, <1>9 DEF MemoryInv
-----------------------------------------------------------------------------
(* A session is condensed and closed. *)

LEMMA LoadedRemembers ==
    ASSUME MemoryInv, NEW w \in MemoryWorker, WorkerRemembers(history, w), w.id \in SessionId
    PROVE  Loaded(w) \in MemoryWorker /\ Loaded(w).at = "dream" /\ WorkerRemembers(history, Loaded(w))
<1> DEFINE v == Loaded(w)
<1>1. Messages(w.id) = InSession(history, w.id)
  BY DEF Messages, InSession
<1>2. InSession(history, w.id) \subseteq DOMAIN history /\ DOMAIN history \subseteq 1 .. MaxMessages
  BY InHistory
<1>3. v \in MemoryWorker /\ v.at = "dream" /\ v.id = w.id /\ v.seen = InSession(history, w.id)
      /\ v.cut = w.cut /\ v.mark = w.mark
  BY <1>1, <1>2 DEF Loaded, MemoryWorker
<1> HIDE DEF v
<1>4. WorkerRemembers(history, v)
  BY <1>2, <1>3 DEF WorkerRemembers
<1> QED BY <1>3, <1>4 DEF v

LEMMA StoredRemembers ==
    ASSUME NEW w \in MemoryWorker, w.at = "dream", WorkerRemembers(history, w)
    PROVE  Stored(w) \in MemoryWorker /\ Stored(w).at = "close" /\ WorkerRemembers(history, Stored(w))
<1> DEFINE v == Stored(w)
<1>1. v \in MemoryWorker /\ v.at = "close" /\ v.id = w.id /\ v.seen = w.seen
      /\ v.cut = w.cut /\ v.mark = w.mark
  BY DEF Stored, MemoryWorker
<1> HIDE DEF v
<1>2. WorkerRemembers(history, v)
  BY <1>1 DEF WorkerRemembers
<1> QED BY <1>1, <1>2 DEF v

LEMMA CarryKeeps ==
    ASSUME MemoryInv, UNCHANGED history, NEW w \in MemoryWorker, w.at \in {"dream", "close"},
           WorkerRemembers(history, w), session' = Summarized(w) \/ session' = Closed(w)
    PROVE  SessionInv'
<1>1. /\ w.id \in SessionId /\ w.seen \in SUBSET (1 .. MaxMessages)
      /\ w.seen \subseteq DOMAIN history
  BY DEF WorkerRemembers, MemoryWorker
<1>2. session[w.id] \in SessionRow /\ RowRemembers(history, w.id, session[w.id])
  BY <1>1, MemoryTypes DEF SessionInv
<1>3. PICK row \in SessionRow : /\ session' = [session EXCEPT ![w.id] = row]
                                /\ row.status \in {session[w.id].status, "closed"}
                                /\ row.carry = w.seen /\ row.rolling = session[w.id].rolling
                                /\ row.cut = session[w.id].cut /\ row.upto = session[w.id].upto
  <2>1. CASE session' = Summarized(w)
    <3> DEFINE row == [session[w.id] EXCEPT !.carry = w.seen]
    <3>1. row \in SessionRow /\ row.status = session[w.id].status /\ row.carry = w.seen
          /\ row.rolling = session[w.id].rolling /\ row.cut = session[w.id].cut
          /\ row.upto = session[w.id].upto
      BY <1>1, <1>2 DEF SessionRow
    <3>2. session' = [session EXCEPT ![w.id] = row]
      BY <2>1 DEF Summarized
    <3> HIDE DEF row
    <3> QED BY <3>1, <3>2
  <2>2. CASE session' = Closed(w)
    <3> DEFINE row == [session[w.id] EXCEPT !.carry = w.seen, !.status = "closed"]
    <3>1. row \in SessionRow /\ row.status = "closed" /\ row.carry = w.seen
          /\ row.rolling = session[w.id].rolling /\ row.cut = session[w.id].cut
          /\ row.upto = session[w.id].upto
      BY <1>1, <1>2 DEF SessionRow
    <3>2. session' = [session EXCEPT ![w.id] = row]
      BY <1>1, <2>2, MemoryTypes DEF Closed
    <3> HIDE DEF row
    <3> QED BY <3>1, <3>2
  <2> QED BY <2>1, <2>2
<1>4. RowRemembers(history, w.id, row)
  BY <1>1, <1>2, <1>3 DEF RowRemembers
<1>5. /\ session' \in [SessionId -> SessionRow] /\ session'[w.id] = row
      /\ \A r \in SessionId : r # w.id => session'[r] = session[r]
  BY <1>1, <1>3, MemoryTypes
<1>6. session'[w.id].status = "active" => session[w.id].status = "active" \/ Current = {}
  BY <1>3, <1>5
<1>7. RowRemembers(history, w.id, session'[w.id])
  BY <1>4, <1>5
<1> QED BY <1>1, <1>5, <1>6, <1>7, MemoryTypes, OneSession

LEMMA TurnDreamsKeeps ==
    ASSUME MemoryInv, NEW t \in Turner, TurnDreams(t)
    PROVE  MemoryInv'
<1>1. UNCHANGED <<history, businessDay, summarizer, rotator>>
  BY DEF TurnDreams
<1>2. HistoryInv' /\ SummarizerInv' /\ RotatorInv'
  BY <1>1, MemoryTypes, MemoryStays
<1>3. turner[t] \in MemoryWorker /\ WorkerRemembers(history, turner[t]) /\ history \in Seq(SessionId)
  BY MemoryTypes DEF TurnerInv
<1>4. turner[t].at \notin {"idle", "closed"} => turner[t].id \in SessionId
  BY <1>3 DEF WorkerRemembers
<1>5. ASSUME NEW w \in MemoryWorker, turner' = [turner EXCEPT ![t] = w], WorkerRemembers(history, w),
             w.at \notin {"read", "write"}
      PROVE  TurnerInv'
  BY <1>1, <1>5, MemoryTypes, OneTurner
<1>6. CASE /\ turner[t].at = "rotate" /\ UNCHANGED session
           /\ turner' = [turner EXCEPT ![t] = Loaded(turner[t])]
  <2>1. TurnerInv'
    BY <1>3, <1>4, <1>5, <1>6, LoadedRemembers
  <2> QED BY <1>1, <1>2, <1>6, <2>1, MemoryTypes, MemoryStays DEF MemoryInv
<1>7. CASE /\ turner[t].at = "dream" /\ session' = Summarized(turner[t])
           /\ turner' = [turner EXCEPT ![t] = Stored(turner[t])]
  <2>1. TurnerInv'
    BY <1>3, <1>5, <1>7, StoredRemembers
  <2>2. SessionInv'
    BY <1>1, <1>3, <1>7, CarryKeeps
  <2> QED BY <1>2, <2>1, <2>2 DEF MemoryInv
<1>8. CASE /\ turner[t].at = "close" /\ session' = Closed(turner[t])
           /\ turner' = [turner EXCEPT ![t] = [Asleep EXCEPT !.at = "closed"]]
  <2>1. TurnerInv'
    BY <1>3, <1>5, <1>8, Ends
  <2>2. SessionInv'
    BY <1>1, <1>3, <1>8, CarryKeeps
  <2> QED BY <1>2, <2>1, <2>2 DEF MemoryInv
<1> QED BY <1>6, <1>7, <1>8 DEF TurnDreams

LEMMA ScanDreamsKeeps ==
    ASSUME MemoryInv, NEW r \in Rotator, ScanDreams(r)
    PROVE  MemoryInv'
<1>1. UNCHANGED <<history, businessDay, turner, summarizer>>
  BY DEF ScanDreams
<1>2. HistoryInv' /\ SummarizerInv' /\ TurnerInv'
  BY <1>1, MemoryTypes, MemoryStays
<1>3. rotator[r] \in MemoryWorker /\ WorkerRemembers(history, rotator[r]) /\ history \in Seq(SessionId)
  BY MemoryTypes DEF RotatorInv
<1>4. rotator[r].at \notin {"idle", "closed"} => rotator[r].id \in SessionId
  BY <1>3 DEF WorkerRemembers
<1>5. ASSUME NEW w \in MemoryWorker, rotator' = [rotator EXCEPT ![r] = w], WorkerRemembers(history, w),
             w.at \in {"idle", "dream", "close"}
      PROVE  RotatorInv'
  BY <1>1, <1>5, MemoryTypes, OneRotator
<1>6. CASE /\ rotator[r].at = "rotate" /\ UNCHANGED session
           /\ rotator' = [rotator EXCEPT ![r] = Loaded(rotator[r])]
  <2>1. RotatorInv'
    BY <1>3, <1>4, <1>5, <1>6, LoadedRemembers
  <2> QED BY <1>1, <1>2, <1>6, <2>1, MemoryTypes, MemoryStays DEF MemoryInv
<1>7. CASE /\ rotator[r].at = "dream" /\ session' = Summarized(rotator[r])
           /\ rotator' = [rotator EXCEPT ![r] = Stored(rotator[r])]
  <2>1. RotatorInv'
    BY <1>3, <1>5, <1>7, StoredRemembers
  <2>2. SessionInv'
    BY <1>1, <1>3, <1>7, CarryKeeps
  <2> QED BY <1>2, <2>1, <2>2 DEF MemoryInv
<1>8. CASE /\ rotator[r].at = "close" /\ session' = Closed(rotator[r])
           /\ rotator' = [rotator EXCEPT ![r] = Asleep]
  <2>1. RotatorInv'
    BY <1>3, <1>5, <1>8, Ends
  <2>2. SessionInv'
    BY <1>1, <1>3, <1>8, CarryKeeps
  <2> QED BY <1>2, <2>1, <2>2 DEF MemoryInv
<1> QED BY <1>6, <1>7, <1>8 DEF ScanDreams
-----------------------------------------------------------------------------
(* The oldest messages of the tail are folded into the summary. *)

LEMMA OldestHasEarlier ==
    ASSUME NEW T, T \subseteq Nat, IsFiniteSet(T), NEW c \in Nat,
           NEW m \in Oldest(T, c), NEW k \in T, k < m
    PROVE  k \in Oldest(T, c)
<1> DEFINE Below(x) == {j \in T : j < x}
<1>1. Below(k) \in SUBSET Below(m) /\ Below(m) \in SUBSET T
  <2>1. m \in Nat /\ k \in Nat /\ \A j \in T : j \in Nat
    BY DEF Oldest
  <2>2. \A j \in T : j < k => j < m
    BY <2>1
  <2> QED BY <2>2
<1>2. /\ IsFiniteSet(Below(m)) /\ IsFiniteSet(Below(k))
      /\ Cardinality(Below(k)) <= Cardinality(Below(m))
  BY <1>1, FS_Subset
<1>3. Cardinality(Below(m)) \in Nat /\ Cardinality(Below(k)) \in Nat
  BY <1>2, FS_CardinalityType
<1>4. Cardinality(Below(m)) < c
  BY DEF Oldest
<1> QED BY <1>2, <1>3, <1>4 DEF Oldest

LEMMA OldestIsThere ==
    ASSUME NEW T \in SUBSET Nat, T # {}, NEW c \in Nat, c > 0
    PROVE  Oldest(T, c) # {}
<1>1. PICK x \in T : \A y \in T : x <= y
  BY LeastNumber
<1>2. {j \in T : j < x} = {}
  <2>1. \A y \in T : y \in Nat /\ x \in Nat /\ x <= y
    BY <1>1
  <2>2. \A y \in T : ~(y < x)
    BY <2>1
  <2> QED BY <2>2
<1>3. Cardinality({j \in T : j < x}) < c
  BY <1>2, FS_EmptySet
<1> QED BY <1>3 DEF Oldest

LEMMA TailIsFinite ==
    ASSUME MemoryInv, NEW s
    PROVE  /\ IsFiniteSet(RawTail(s)) /\ RawTail(s) \in SUBSET Nat
           /\ Cardinality(RawTail(s)) \in Nat
<1>1. RawTail(s) \in SUBSET (1 .. Len(history)) /\ Len(history) \in Nat
  BY InHistory DEF RawTail, Messages
<1>2. IsFiniteSet(1 .. Len(history))
  BY <1>1, FS_Interval
<1>3. IsFiniteSet(RawTail(s))
  BY <1>1, <1>2, FS_Subset
<1> QED BY <1>1, <1>3, FS_CardinalityType

LEMMA SummaryIsRead ==
    ASSUME MemoryInv, NEW s \in SessionId, NEW n \in 1 .. (Cardinality(RawTail(s)) - 1),
           NEW kept \in 0 .. n,
           NEW v, v = [Asleep EXCEPT !.at = "write", !.id = s,
                          !.seen = session[s].rolling \cup Oldest(RawTail(s), kept),
                          !.cut = session[s].cut
                                  \cup (Oldest(RawTail(s), n) \ Oldest(RawTail(s), kept)),
                          !.mark = LastOf(Oldest(RawTail(s), n))]
    PROVE  v \in MemoryWorker /\ v.at = "write" /\ WorkerRemembers(history, v)
<1> DEFINE T == RawTail(s)
           C == Oldest(T, n)
           X == session[s].rolling \cup Oldest(T, kept)
           Y == session[s].cut \cup (C \ Oldest(T, kept))
           last == LastOf(C)
<1>1. session[s] \in SessionRow /\ RowRemembers(history, s, session[s])
  BY MemoryTypes DEF SessionInv
<1>2. /\ T = {m \in InSession(history, s) : m > session[s].upto}
      /\ InSession(history, s) \subseteq 1 .. Len(history) /\ Len(history) \in Nat
      /\ DOMAIN history = 1 .. Len(history) /\ 1 .. Len(history) \subseteq 1 .. MaxMessages
  BY InHistory DEF RawTail, Messages, InSession
<1>3. IsFiniteSet(T) /\ T \in SUBSET Nat /\ Cardinality(T) \in Nat
  BY TailIsFinite
<1>4. n \in Nat /\ n > 0 /\ T # {}
  BY <1>3, FS_EmptySet
<1>5. Oldest(T, kept) \subseteq T /\ C \subseteq T /\ C # {}
  <2>1. Oldest(T, kept) \subseteq T /\ C \subseteq T
    BY DEF Oldest
  <2> QED BY <1>3, <1>4, <2>1, OldestIsThere
<1>6. last \in C /\ \A k \in C : k <= last
  <2>1. C \in SUBSET (0 .. Len(history))
    BY <1>2, <1>5
  <2>2. \E x \in C : \A k \in C : k <= x
    <3> HIDE DEF C
    <3> QED BY <1>2, <1>5, <2>1, GreatestNumber
  <2> QED BY <2>2 DEF LastOf
<1>7. last \in 0 .. MaxMessages /\ last \in Nat /\ last <= Len(history) /\ last \in T
  <2>1. last \in 1 .. Len(history)
    BY <1>2, <1>5, <1>6
  <2>2. last \in 1 .. MaxMessages
    BY <1>2, <2>1
  <2>3. last \in T
    BY <1>5, <1>6
  <2> HIDE DEF last
  <2> QED BY <1>2, <2>1, <2>2, <2>3
<1>8. X \cup Y \subseteq DOMAIN history /\ X \in SUBSET (1 .. MaxMessages) /\ Y \in SUBSET (1 .. MaxMessages)
  BY <1>1, <1>2, <1>5 DEF RowRemembers
<1>9. ASSUME NEW m \in InSession(history, s), m <= last PROVE m \in X \cup Y
  <2>1. CASE m <= session[s].upto
    BY <1>1, <2>1 DEF RowRemembers, HasUpTo
  <2>2. CASE ~(m <= session[s].upto)
    <3>1. m \in Nat /\ session[s].upto \in Nat
      BY <1>1, <1>2 DEF SessionRow
    <3>2. m \in T
      BY <1>2, <2>2, <3>1
    <3>3. m \in C
      <4>1. CASE m = last
        BY <1>6, <4>1
      <4>2. CASE m # last
        <5>1. m < last
          BY <1>7, <1>9, <3>1, <4>2
        <5> HIDE DEF T, last
        <5> QED BY <1>3, <1>4, <1>6, <3>2, <5>1, OldestHasEarlier
      <4> QED BY <4>1, <4>2
    <3> QED BY <3>3
  <2> QED BY <2>1, <2>2
<1>10. /\ v.at = "write" /\ v.id = s /\ v.seen = X /\ v.cut = Y /\ v.mark = last
       /\ v \in MemoryWorker
  <2>1. v = [Asleep EXCEPT !.at = "write", !.id = s, !.seen = X, !.cut = Y, !.mark = last]
    OBVIOUS
  <2> HIDE DEF X, Y, last
  <2>2. s \in 0 .. MaxSessions
    BY MemoryBounds DEF SessionId
  <2>3. v.at = "write" /\ v.id = s /\ v.seen = X /\ v.cut = Y /\ v.mark = last
    BY <2>1 DEF Asleep
  <2>4. v \in MemoryWorker
    BY <1>7, <1>8, <2>1, <2>2 DEF Asleep, MemoryWorker
  <2> QED BY <2>3, <2>4
<1> HIDE DEF X, Y, last
<1>11. WorkerRemembers(history, v)
  BY <1>7, <1>8, <1>9, <1>10 DEF WorkerRemembers, HasUpTo
<1> QED BY <1>10, <1>11

LEMMA ReadKeeps ==
    ASSUME MemoryInv, NEW k \in Summarizer, ReadTail(k)
    PROVE  MemoryInv'
<1> DEFINE s == summarizer[k].id
           T == RawTail(s)
<1>1. summarizer[k].at = "read" /\ UNCHANGED <<session, history, businessDay, turner, rotator>>
  BY DEF ReadTail
<1>2. HistoryInv' /\ SessionInv' /\ TurnerInv' /\ RotatorInv'
  BY <1>1, MemoryTypes, MemoryStays
<1>3. /\ summarizer[k] \in MemoryWorker /\ WorkerRemembers(history, summarizer[k])
      /\ history \in Seq(SessionId)
  BY MemoryTypes DEF SummarizerInv
<1>4. ASSUME NEW w \in MemoryWorker, summarizer' = [summarizer EXCEPT ![k] = w],
             WorkerRemembers(history, w), w.at \in {"idle", "write"}
      PROVE  SummarizerInv'
  BY <1>1, <1>4, MemoryTypes, OneSummarizer
<1>5. CASE summarizer' = [summarizer EXCEPT ![k] = Asleep]
  BY <1>2, <1>3, <1>4, <1>5, Ends DEF MemoryInv
<1> DEFINE Read(n, kept) ==
              [Asleep EXCEPT !.at = "write", !.id = s,
                  !.seen = session[s].rolling \cup Oldest(T, kept),
                  !.cut = session[s].cut \cup (Oldest(T, n) \ Oldest(T, kept)),
                  !.mark = LastOf(Oldest(T, n))]
<1>6. ASSUME NEW n \in 1 .. (Cardinality(T) - 1), NEW kept \in 0 .. n,
             summarizer' = [summarizer EXCEPT ![k] = Read(n, kept)]
      PROVE  MemoryInv'
  <2> DEFINE v == Read(n, kept)
  <2>1. s \in SessionId
    BY <1>1, <1>3 DEF WorkerRemembers
  <2>2. v \in MemoryWorker /\ v.at = "write" /\ WorkerRemembers(history, v)
    BY <2>1, SummaryIsRead
  <2>3. summarizer' = [summarizer EXCEPT ![k] = v]
    BY <1>6
  <2> HIDE DEF v
  <2>4. SummarizerInv'
    BY <1>4, <2>2, <2>3
  <2> QED BY <1>2, <2>4 DEF MemoryInv
<1> QED BY <1>5, <1>6 DEF ReadTail

LEMMA WriteKeeps ==
    ASSUME MemoryInv, NEW k \in Summarizer, WriteSummary(k)
    PROVE  MemoryInv'
<1> DEFINE w == summarizer[k]
<1>1. /\ w.at = "write" /\ summarizer' = [summarizer EXCEPT ![k] = Asleep]
      /\ session' = [session EXCEPT ![w.id].rolling = w.seen, ![w.id].cut = w.cut,
                                    ![w.id].upto = w.mark]
      /\ UNCHANGED <<history, businessDay, turner, rotator>>
  BY DEF WriteSummary
<1>2. HistoryInv' /\ TurnerInv' /\ RotatorInv'
  BY <1>1, MemoryTypes, MemoryStays
<1>3. w \in MemoryWorker /\ WorkerRemembers(history, w) /\ history \in Seq(SessionId)
  BY MemoryTypes DEF SummarizerInv
<1>4. /\ w.id \in SessionId /\ w.seen \cup w.cut \subseteq DOMAIN history /\ w.mark <= Len(history)
      /\ HasUpTo(history, w.id, w.mark, w.seen \cup w.cut)
  BY <1>1, <1>3 DEF WorkerRemembers
<1>5. session[w.id] \in SessionRow /\ RowRemembers(history, w.id, session[w.id])
  BY <1>4, MemoryTypes DEF SessionInv
<1> DEFINE row == [session[w.id] EXCEPT !.rolling = w.seen, !.cut = w.cut, !.upto = w.mark]
<1>6. /\ row \in SessionRow /\ row.status = session[w.id].status
      /\ row.carry = session[w.id].carry /\ row.rolling = w.seen /\ row.cut = w.cut
      /\ row.upto = w.mark
  BY <1>3, <1>5 DEF SessionRow, MemoryWorker
<1>7. session' = [session EXCEPT ![w.id] = row]
  BY <1>1, <1>4, MemoryTypes
<1> HIDE DEF row
<1>8. RowRemembers(history, w.id, row)
  BY <1>4, <1>5, <1>6 DEF RowRemembers
<1>9. /\ session' \in [SessionId -> SessionRow] /\ session'[w.id] = row
      /\ \A r \in SessionId : r # w.id => session'[r] = session[r]
  BY <1>4, <1>6, <1>7, MemoryTypes
<1>10. SessionInv'
  <2>1. session'[w.id].status = "active" => session[w.id].status = "active" \/ Current = {}
    BY <1>6, <1>9
  <2>2. RowRemembers(history, w.id, session'[w.id])
    BY <1>8, <1>9
  <2> QED BY <1>1, <1>4, <1>9, <2>1, <2>2, MemoryTypes, OneSession
<1>11. SummarizerInv'
  BY <1>1, <1>3, MemoryTypes, Ends, OneSummarizer
<1> QED BY <1>2, <1>10, <1>11 DEF MemoryInv
-----------------------------------------------------------------------------
LEMMA MemoryStep ==
    ASSUME MemoryInv, [MemoryNext]_memoryVars
    PROVE  MemoryInv'
<1>1. CASE UNCHANGED memoryVars
  BY <1>1, MemoryTypes, MemoryStays DEF memoryVars, MemoryInv
<1>2. ASSUME NEW t \in Turner, PrepareSession(t) \/ NextSession(t) PROVE MemoryInv'
  BY <1>2, FindKeeps DEF PrepareSession, NextSession
<1>3. ASSUME NEW t \in Turner, TurnEnds(t) PROVE MemoryInv'
  <2>1. Asleep \in MemoryWorker /\ Asleep.at = "idle" /\ WorkerRemembers(history, Asleep)
    BY MemoryTypes, Ends
  <2>2. turner' = [turner EXCEPT ![t] = Asleep]
        /\ UNCHANGED <<session, history, businessDay, summarizer, rotator>>
    BY <1>3 DEF TurnEnds
  <2>3. TurnerInv'
    BY <2>1, <2>2, MemoryTypes, OneTurner
  <2> QED BY <2>2, <2>3, MemoryTypes, MemoryStays DEF MemoryInv
<1>4. ASSUME NEW k \in Summarizer, SummaryFails(k) PROVE MemoryInv'
  <2>1. Asleep \in MemoryWorker /\ Asleep.at = "idle" /\ WorkerRemembers(history, Asleep)
    BY MemoryTypes, Ends
  <2>2. summarizer' = [summarizer EXCEPT ![k] = Asleep]
        /\ UNCHANGED <<session, history, businessDay, turner, rotator>>
    BY <1>4 DEF SummaryFails
  <2>3. SummarizerInv'
    BY <2>1, <2>2, MemoryTypes, OneSummarizer
  <2> QED BY <2>2, <2>3, MemoryTypes, MemoryStays DEF MemoryInv
<1>5. ASSUME NEW r \in Rotator, ScanFails(r) PROVE MemoryInv'
  <2>1. Asleep \in MemoryWorker /\ Asleep.at = "idle" /\ WorkerRemembers(history, Asleep)
    BY MemoryTypes, Ends
  <2>2. rotator' = [rotator EXCEPT ![r] = Asleep]
        /\ UNCHANGED <<session, history, businessDay, turner, summarizer>>
    BY <1>5 DEF ScanFails
  <2>3. RotatorInv'
    BY <2>1, <2>2, MemoryTypes, OneRotator
  <2> QED BY <2>2, <2>3, MemoryTypes, MemoryStays DEF MemoryInv
<1>6. ASSUME NEW r \in Rotator, ScanSessions(r) PROVE MemoryInv'
  <2>1. PICK s \in Current : rotator' = [rotator EXCEPT ![r] = [Asleep EXCEPT !.at = "rotate", !.id = s]]
    BY <1>6 DEF ScanSessions
  <2> DEFINE w == [Asleep EXCEPT !.at = "rotate", !.id = s]
  <2>2. w \in MemoryWorker /\ w.at = "rotate" /\ WorkerRemembers(history, w)
    BY MemoryTypes, Reads DEF Current
  <2>3. rotator' = [rotator EXCEPT ![r] = w]
    BY <2>1
  <2> HIDE DEF w
  <2>4. UNCHANGED <<session, history, businessDay, turner, summarizer>>
    BY <1>6 DEF ScanSessions
  <2>5. RotatorInv'
    BY <2>2, <2>3, <2>4, MemoryTypes, OneRotator
  <2> QED BY <2>4, <2>5, MemoryTypes, MemoryStays DEF MemoryInv
<1>7. ASSUME DayTurns PROVE MemoryInv'
  <2>1. businessDay' = businessDay + 1 /\ UNCHANGED <<session, history, turner, summarizer, rotator>>
    BY <1>7 DEF DayTurns
  <2>2. HistoryInv'
    BY <2>1, MemoryTypes DEF HistoryInv
  <2> QED BY <2>1, <2>2, MemoryTypes, MemoryStays DEF MemoryInv
<1> QED BY <1>1, <1>2, <1>3, <1>4, <1>5, <1>6, <1>7, SeedKeeps, InboundKeeps, OutboundKeeps,
           TurnDreamsKeeps, ScanDreamsKeeps, ReadKeeps, WriteKeeps DEF MemoryNext

LEMMA MemoryStart ==
    ASSUME MemoryInit
    PROVE  MemoryInv
<1>1. history = <<>> /\ history \in Seq(SessionId) /\ Len(history) = 0
  BY DEF MemoryInit
<1>2. HistoryInv
  BY <1>1, MemoryBounds DEF MemoryInit, HistoryInv
<1>3. Asleep \in MemoryWorker /\ Asleep.at = "idle" /\ WorkerRemembers(history, Asleep)
  BY <1>1, Ends
<1>4. TurnerInv
  BY <1>3 DEF MemoryInit, TurnerInv
<1>5. SummarizerInv
  BY <1>3 DEF MemoryInit, SummarizerInv
<1>6. RotatorInv
  BY <1>3 DEF MemoryInit, RotatorInv
<1>7. SessionInv
  <2>1. NoSession \in SessionRow
    <3>1. 0 \in 0 .. MaxMessages
      BY MemoryBounds
    <3> QED BY <3>1 DEF NoSession, SessionRow
  <2>2. \A s : InSession(history, s) = {}
    BY <1>1 DEF InSession
  <2>3. /\ NoSession.upto = 0 /\ NoSession.carry = {} /\ NoSession.rolling = {} /\ NoSession.cut = {}
        /\ NoSession.status = "none"
    BY DEF NoSession
  <2>4. \A s \in SessionId : RowRemembers(history, s, NoSession)
    BY <1>1, <2>2, <2>3 DEF RowRemembers, HasUpTo
  <2> QED BY <2>1, <2>3, <2>4 DEF MemoryInit, SessionInv
<1> QED BY <1>2, <1>4, <1>5, <1>6, <1>7 DEF MemoryInv

LEMMA MemoryShows == MemoryInv => NothingSkipped
<1> SUFFICES ASSUME MemoryInv PROVE NothingSkipped
  OBVIOUS
<1>1. /\ \A s \in SessionId : session[s] \in SessionRow /\ RowRemembers(history, s, session[s])
      /\ \A r, s \in SessionId : session[r].status = "active" /\ session[s].status = "active" => r = s
  BY MemoryTypes DEF SessionInv
<1>2. \A s \in SessionId : /\ session[s].status \in {"none", "active", "closed"}
                           /\ session[s].upto \in 0 .. MaxMessages
                           /\ session[s].carry \cup session[s].rolling \cup session[s].cut
                                  \subseteq 1 .. MaxMessages
  BY <1>1 DEF SessionRow
<1>3. Cardinality(Current) <= 1
  <2>1. CASE Current = {}
    BY <2>1, FS_EmptySet
  <2>2. CASE Current # {}
    <3>1. PICK s \in Current : Current = {s}
      BY <1>1, <2>2 DEF Current
    <3> QED BY <3>1, FS_Singleton
  <2> QED BY <2>1, <2>2
<1>4. MemoryTypeOK
  BY <1>2, <1>3, MemoryTypes DEF MemoryTypeOK
<1>5. \A s \in SessionId : \A m \in Messages(s) :
         m <= session[s].upto => m \in session[s].rolling \cup session[s].cut
  BY <1>1 DEF RowRemembers, HasUpTo, Messages, InSession
<1> QED BY <1>4, <1>5 DEF NothingSkipped

\* Whoever rotates, seeds and summarizes a session at the same time: what the
\* prompt no longer shows of it has gone into its rolling summary, or was offered
\* to it and cut off.
THEOREM SummarizerSkipsNothing == MemorySpec => []NothingSkipped
<1>1. MemoryInit => MemoryInv
  BY MemoryStart
<1>2. MemoryInv /\ [MemoryNext]_memoryVars => MemoryInv'
  BY MemoryStep
<1> QED BY <1>1, <1>2, MemoryShows, PTL DEF MemorySpec
-----------------------------------------------------------------------------
(* The invariant of the moderation tasks. *)

TaskRow ==
    [status : TaskStatus, claim : {"none", "fresh", "stale"}, attempts : 0 .. MaxClaims,
     assigned : SUBSET Staff]

ModerationWorker ==
    [pc : {"idle", "claim", "review", "write"}, todo : Seq(Task \X TaskRow),
     verdict : {"none", "pass", "flagged", "error"}]

Desk == [pc : {"idle", "claim", "decide", "act"}, of : SUBSET Task]

TaskInv ==
    /\ task \in [Task -> TaskRow]
    /\ assured \in [Task -> SUBSET Staff]
    /\ \A k \in Task : /\ \A r, s \in task[k].assigned : r = s
                       /\ assured[k] \subseteq task[k].assigned
                       /\ task[k].status = "none" => task[k].assigned = {}

WorkerInv ==
    /\ worker \in [Worker -> ModerationWorker]
    /\ \A w \in Worker : worker[w].pc # "idle" => worker[w].todo # <<>>

RuleInv == rule \in [Task -> {"none", "pass", "flagged"}]

DeskInv == desk \in [Staff -> Desk]

ModerationInv == TaskInv /\ WorkerInv /\ RuleInv /\ DeskInv

LEMMA RestOfList ==
    ASSUME NEW S, NEW q \in Seq(S), q # <<>>, Len(q) # 1
    PROVE  Tail(q) \in Seq(S) /\ Tail(q) # <<>>
<1>1. Len(q) \in Nat /\ Len(q) # 0
  OBVIOUS
<1>2. Tail(q) \in Seq(S) /\ Len(Tail(q)) = Len(q) - 1
  OBVIOUS
<1>3. Len(Tail(q)) # 0
  BY <1>1, <1>2
<1>4. Len(<<>>) = 0
  OBVIOUS
<1>5. Tail(q) # <<>>
  BY <1>3, <1>4, Zenon
<1> QED BY <1>2, <1>5

LEMMA ListOfTasks ==
    ASSUME NEW ids \in SUBSET Task, NEW f \in [ids -> TaskRow]
    PROVE  LET list == SetToSeq({<<k, f[k]>> : k \in ids})
           IN  list \in Seq(Task \X TaskRow) /\ (ids # {} => list # <<>>)
<1> DEFINE S == {<<k, f[k]>> : k \in ids}
           g == [k \in ids |-> <<k, f[k]>>]
           n == Cardinality(S)
<1>1. g \in [ids -> S] /\ \A p \in S : \E k \in ids : g[k] = p
  OBVIOUS
<1>2. IsFiniteSet(ids)
  BY ModerationBounds, FS_Subset
<1>3. IsFiniteSet(S)
  <2> HIDE DEF g, S
  <2>1. g \in Surjection(ids, S)
    BY <1>1 DEF Surjection
  <2> QED BY <1>2, <2>1, FS_Surjection
<1>4. S \in SUBSET (Task \X TaskRow) /\ (ids # {} => S # {})
  <2>1. \A k \in ids : <<k, f[k]>> \in Task \X TaskRow /\ <<k, f[k]>> \in S
    OBVIOUS
  <2>2. \A p \in S : \E k \in ids : p = <<k, f[k]>>
    OBVIOUS
  <2> HIDE DEF S
  <2> QED BY <2>1, <2>2
<1> HIDE DEF S
<1>5. n \in Nat
  BY <1>3, FS_CardinalityType
<1>6. \E h \in [1 .. n -> S] : IsInjective(h)
  BY <1>3, <1>5, FS_CardinalityType DEF ExistsBijection, Bijection, Injection
<1> HIDE DEF n
<1>7. SetToSeq(S) \in [1 .. n -> S]
  BY <1>6 DEF SetToSeq, n
<1>8. S # {} => n # 0
  BY <1>3, FS_EmptySet DEF n
<1>9. SetToSeq(S) \in Seq(Task \X TaskRow) /\ Len(SetToSeq(S)) = n
  BY <1>4, <1>5, <1>7
<1>10. ids # {} => SetToSeq(S) # <<>>
  BY <1>4, <1>8, <1>9
<1> QED BY <1>9, <1>10 DEF S

\* What a step of one task, worker or desk has to show.
LEMMA OneTask ==
    ASSUME TaskInv, UNCHANGED assured, NEW k \in Task, NEW row \in TaskRow,
           task' = [task EXCEPT ![k] = row], row.assigned = task[k].assigned,
           row.status # "none" \/ task[k].assigned = {}
    PROVE  TaskInv'
  BY DEF TaskInv

LEMMA OneWorker ==
    ASSUME WorkerInv, NEW w \in Worker, NEW new \in ModerationWorker,
           worker' = [worker EXCEPT ![w] = new], new.pc # "idle" => new.todo # <<>>
    PROVE  WorkerInv'
  BY DEF WorkerInv

LEMMA OneDesk ==
    ASSUME DeskInv, NEW s \in Staff, NEW new \in Desk, desk' = [desk EXCEPT ![s] = new]
    PROVE  DeskInv'
  BY DEF DeskInv

LEMMA ModerationStays ==
    /\ TaskInv /\ UNCHANGED <<task, assured>> => TaskInv'
    /\ WorkerInv /\ UNCHANGED worker => WorkerInv'
    /\ RuleInv /\ UNCHANGED rule => RuleInv'
    /\ DeskInv /\ UNCHANGED desk => DeskInv'
  BY DEF TaskInv, WorkerInv, RuleInv, DeskInv

LEMMA AtWork ==
    ASSUME ModerationInv, NEW w \in Worker, worker[w].pc # "idle"
    PROVE  /\ Id(w) \in Task /\ Claimed(w) \in TaskRow
           /\ worker[w] \in ModerationWorker /\ worker[w].todo # <<>>
           /\ task[Id(w)] \in TaskRow
<1>1. worker[w].todo \in Seq(Task \X TaskRow) /\ worker[w].todo # <<>>
      /\ worker[w] \in ModerationWorker
  BY DEF ModerationInv, WorkerInv, ModerationWorker
<1>2. worker[w].todo[1] \in Task \X TaskRow
  BY <1>1
<1> QED BY <1>1, <1>2 DEF Id, Claimed, ModerationInv, TaskInv

LEMMA NothingTodo ==
    /\ NoTask \in TaskRow /\ NoTask.assigned = {} /\ NoTask.attempts = 0
    /\ Resting \in ModerationWorker /\ Resting.pc = "idle"
    /\ AtRest \in Desk
<1>1. 0 \in 0 .. MaxClaims
  BY ModerationBounds
<1>2. NoTask \in TaskRow /\ NoTask.assigned = {} /\ NoTask.attempts = 0
  BY <1>1 DEF NoTask, TaskRow, TaskStatus
<1>3. Resting \in ModerationWorker /\ Resting.pc = "idle"
  BY DEF Resting, ModerationWorker
<1> QED BY <1>2, <1>3 DEF AtRest, Desk
-----------------------------------------------------------------------------
(* Tasks are created. *)

\* The attempts of a task only grow by a claim that finds it queued and not claimed.
Respected ==
    \A k \in Task : task'[k].attempts > task[k].attempts =>
        task[k].claim # "fresh" /\ task[k].status = "queued"

LEMMA CreateKeeps ==
    ASSUME ModerationInv, NEW k \in Task, NEW status \in TaskStatus \ {"none"}, Create(k, status)
    PROVE  ModerationInv' /\ Respected
<1> DEFINE row == [NoTask EXCEPT !.status = status]
<1>1. /\ task[k].status = "none" /\ task' = [task EXCEPT ![k] = row]
      /\ UNCHANGED <<rule, worker, desk, assured>>
  BY DEF Create
<1>2. row \in TaskRow /\ row.status = status /\ row.assigned = {} /\ row.attempts = 0
  BY NothingTodo DEF NoTask, TaskRow
<1> HIDE DEF row
<1>3. task[k].assigned = {} /\ task \in [Task -> TaskRow]
  BY <1>1 DEF ModerationInv, TaskInv
<1>4. TaskInv'
  BY <1>1, <1>2, <1>3, OneTask DEF ModerationInv
<1>5. Respected
  BY <1>1, <1>2, <1>3 DEF Respected, TaskRow
<1> QED BY <1>1, <1>4, <1>5, ModerationStays DEF ModerationInv

LEMMA RuleKeeps ==
    ASSUME ModerationInv, NEW k \in Task, StoreRule(k)
    PROVE  ModerationInv' /\ Respected
<1>1. rule' = [rule EXCEPT ![k] = "pass"] /\ UNCHANGED <<task, worker, desk, assured>>
  BY DEF StoreRule
<1>2. RuleInv'
  BY <1>1 DEF ModerationInv, RuleInv
<1>3. Respected
  BY <1>1 DEF Respected, ModerationInv, TaskInv, TaskRow
<1> QED BY <1>1, <1>2, <1>3, ModerationStays DEF ModerationInv

LEMMA StaleKeeps ==
    ASSUME ModerationInv, NEW k \in Task, GoStale(k)
    PROVE  ModerationInv' /\ Respected
<1> DEFINE row == [task[k] EXCEPT !.claim = "stale"]
<1>1. task' = [task EXCEPT ![k] = row] /\ UNCHANGED <<rule, worker, desk, assured>>
  BY DEF GoStale
<1>2. task \in [Task -> TaskRow] /\ (task[k].status = "none" => task[k].assigned = {})
  BY DEF ModerationInv, TaskInv
<1>3. /\ row \in TaskRow /\ row.status = task[k].status
      /\ row.assigned = task[k].assigned /\ row.attempts = task[k].attempts
  BY <1>2 DEF TaskRow
<1> HIDE DEF row
<1>4. TaskInv'
  BY <1>1, <1>2, <1>3, OneTask DEF ModerationInv
<1>5. Respected
  BY <1>1, <1>2, <1>3 DEF Respected, TaskRow
<1> QED BY <1>1, <1>4, <1>5, ModerationStays DEF ModerationInv
-----------------------------------------------------------------------------
(* The workers. *)

LEMMA SelectKeeps ==
    ASSUME ModerationInv, NEW w \in Worker, SelectQueued(w)
    PROVE  ModerationInv' /\ Respected
<1>1. PICK ids \in SUBSET Task :
          /\ Cardinality(ids) \in 1 .. BatchSize
          /\ worker' = [worker EXCEPT ![w].pc = "claim",
                        ![w].todo = SetToSeq({<<k, NoTask>> : k \in ids})]
  BY DEF SelectQueued
<1>2. UNCHANGED <<task, rule, desk, assured>>
  BY DEF SelectQueued
<1> DEFINE f == [k \in ids |-> NoTask]
           list == SetToSeq({<<k, f[k]>> : k \in ids})
           new == [worker[w] EXCEPT !.pc = "claim", !.todo = list]
<1>3. list \in Seq(Task \X TaskRow) /\ (ids # {} => list # <<>>)
  <2>1. f \in [ids -> TaskRow]
    BY NothingTodo
  <2> HIDE DEF f
  <2> QED BY <2>1, ListOfTasks
<1>4. ids # {}
  BY <1>1, FS_EmptySet
<1>5. list = SetToSeq({<<k, NoTask>> : k \in ids})
  <2>1. {<<k, f[k]>> : k \in ids} = {<<k, NoTask>> : k \in ids}
    OBVIOUS
  <2> QED BY <2>1
<1> HIDE DEF list
<1>6. worker[w] \in ModerationWorker /\ worker \in [Worker -> ModerationWorker]
  BY DEF ModerationInv, WorkerInv
<1>7. worker' = [worker EXCEPT ![w] = new]
  BY <1>1, <1>5, <1>6
<1>8. new \in ModerationWorker /\ new.todo # <<>>
  BY <1>3, <1>4, <1>6 DEF ModerationWorker
<1> HIDE DEF new
<1>9. WorkerInv'
  BY <1>7, <1>8, OneWorker DEF ModerationInv
<1>10. Respected
  BY <1>2 DEF Respected, ModerationInv, TaskInv, TaskRow
<1> QED BY <1>2, <1>9, <1>10, ModerationStays DEF ModerationInv

LEMMA ClaimKeeps ==
    ASSUME ModerationInv, NEW w \in Worker, ClaimBatch(w)
    PROVE  ModerationInv' /\ Respected
<1> DEFINE mine == {k \in Task : StillClaimable(k)
                       /\ \E i \in DOMAIN worker[w].todo : worker[w].todo[i][1] = k}
           Row(k) == [task[k] EXCEPT !.claim = "fresh", !.attempts = task[k].attempts + 1]
           f == [k \in mine |-> Row(k)]
           list == SetToSeq({<<k, f[k]>> : k \in mine})
           new == [worker[w] EXCEPT !.pc = "review", !.todo = list]
<1>1. /\ worker[w].pc = "claim" /\ \A k \in mine : task[k].attempts < MaxClaims
      /\ task' = [k \in Task |-> IF k \in mine THEN Row(k) ELSE task[k]]
      /\ UNCHANGED <<rule, desk, assured>>
  BY DEF ClaimBatch
<1>2. worker' = [worker EXCEPT ![w] = IF mine = {} THEN Resting ELSE new]
  <2>1. {<<k, f[k]>> : k \in mine} = {<<k, Row(k)>> : k \in mine}
    OBVIOUS
  <2>2. worker' = [worker EXCEPT
              ![w] = IF mine = {} THEN Resting
                     ELSE [worker[w] EXCEPT !.pc = "review",
                                    !.todo = SetToSeq({<<k, Row(k)>> : k \in mine})]]
    BY DEF ClaimBatch
  <2> QED BY <2>1, <2>2
<1>3. task \in [Task -> TaskRow] /\ mine \in SUBSET Task
  BY DEF ModerationInv, TaskInv
<1>4. \A k \in mine : task[k].claim # "fresh" /\ task[k].status = "queued"
  BY DEF StillClaimable, Claimable
<1>5. \A k \in mine : /\ Row(k) \in TaskRow /\ Row(k).status = task[k].status
                      /\ Row(k).assigned = task[k].assigned
  <2> SUFFICES ASSUME NEW k \in mine
               PROVE  /\ Row(k) \in TaskRow /\ Row(k).status = task[k].status
                      /\ Row(k).assigned = task[k].assigned
    OBVIOUS
  <2>1. task[k] \in TaskRow /\ task[k].attempts < MaxClaims
    <3> HIDE DEF mine
    <3> QED BY <1>1, <1>3
  <2>2. task[k].attempts + 1 \in 0 .. MaxClaims
    BY <2>1, ModerationBounds DEF TaskRow
  <2> QED BY <2>1, <2>2 DEF TaskRow
<1>6. f \in [mine -> TaskRow]
  BY <1>5
<1>7. list \in Seq(Task \X TaskRow) /\ (mine # {} => list # <<>>)
  <2> HIDE DEF f, mine
  <2> QED BY <1>3, <1>6, ListOfTasks
<1> HIDE DEF list, f, mine, Row
<1>8. worker[w] \in ModerationWorker
  BY DEF ModerationInv, WorkerInv
<1>9. WorkerInv'
  <2>1. CASE mine = {}
    BY <1>2, <2>1, NothingTodo, OneWorker DEF ModerationInv
  <2>2. CASE mine # {}
    <3>1. worker' = [worker EXCEPT ![w] = new]
      BY <1>2, <2>2
    <3>2. new \in ModerationWorker /\ new.todo # <<>>
      BY <1>7, <1>8, <2>2 DEF ModerationWorker
    <3> HIDE DEF new
    <3> QED BY <3>1, <3>2, OneWorker DEF ModerationInv
  <2> QED BY <2>1, <2>2
<1>10. \A k \in Task : /\ task'[k] \in TaskRow /\ task'[k].status = task[k].status
                       /\ task'[k].assigned = task[k].assigned
                       /\ k \notin mine => task'[k] = task[k]
  BY <1>1, <1>3, <1>5
<1>11. TaskInv'
  <2>1. task' \in [Task -> TaskRow]
    BY <1>1, <1>10
  <2> QED BY <1>1, <1>10, <2>1 DEF ModerationInv, TaskInv
<1>12. Respected
  BY <1>3, <1>4, <1>10 DEF Respected, TaskRow
<1> QED BY <1>1, <1>9, <1>11, <1>12, ModerationStays DEF ModerationInv

LEMMA ReviewKeeps ==
    ASSUME ModerationInv, NEW w \in Worker, Review(w) \/ SkipTask(w)
    PROVE  ModerationInv' /\ Respected
<1>1. worker[w].pc = "review" /\ UNCHANGED <<task, desk, assured>>
  BY DEF Review, SkipTask
<1>2. Id(w) \in Task /\ worker[w] \in ModerationWorker /\ worker[w].todo # <<>>
  BY <1>1, AtWork
<1>3. PICK v \in {"pass", "flagged", "error"} :
          worker' = [worker EXCEPT ![w].pc = "write", ![w].verdict = v]
  BY DEF Review, SkipTask
<1> DEFINE new == [worker[w] EXCEPT !.pc = "write", !.verdict = v]
<1>4. new \in ModerationWorker /\ new.todo = worker[w].todo
  BY <1>2 DEF ModerationWorker
<1>5. worker' = [worker EXCEPT ![w] = new]
  BY <1>3 DEF ModerationInv, WorkerInv
<1> HIDE DEF new
<1>6. WorkerInv'
  BY <1>2, <1>4, <1>5, OneWorker DEF ModerationInv
<1>7. RuleInv'
  <2>1. UNCHANGED rule \/ \E match \in {"pass", "flagged"} : rule' = [rule EXCEPT ![Id(w)] = match]
    BY DEF Review, SkipTask
  <2> QED BY <1>2, <2>1 DEF ModerationInv, RuleInv
<1>8. Respected
  BY <1>1 DEF Respected, ModerationInv, TaskInv, TaskRow
<1> QED BY <1>1, <1>6, <1>7, <1>8, ModerationStays DEF ModerationInv

LEMMA VerdictKeeps ==
    ASSUME ModerationInv, NEW w \in Worker, WriteVerdict(w)
    PROVE  ModerationInv' /\ Respected
<1> DEFINE k == Id(w)
           row == [task[k] EXCEPT !.status = VerdictStatus(w), !.claim = "none"]
           rest == [pc |-> "review", todo |-> Tail(worker[w].todo), verdict |-> "none"]
<1>1. /\ worker[w].pc = "write"
      /\ task' = [task EXCEPT ![Id(w)].status = VerdictStatus(w), ![Id(w)].claim = "none"]
      /\ worker' = [worker EXCEPT ![w] = IF Len(worker[w].todo) = 1 THEN Resting ELSE rest]
      /\ UNCHANGED <<rule, desk, assured>>
  BY DEF WriteVerdict
<1>2. /\ k \in Task /\ worker[w] \in ModerationWorker /\ worker[w].todo # <<>>
      /\ task[k] \in TaskRow /\ task \in [Task -> TaskRow]
  BY <1>1, AtWork DEF ModerationInv, TaskInv
<1>3. VerdictStatus(w) \in {"machine_passed", "needs_review", "queued"}
  BY DEF VerdictStatus
<1>4. task' = [task EXCEPT ![k] = row]
  BY <1>1, <1>2
<1>5. /\ row \in TaskRow /\ row.status # "none"
      /\ row.assigned = task[k].assigned /\ row.attempts = task[k].attempts
  BY <1>2, <1>3 DEF TaskRow, TaskStatus, Reviewable
<1> HIDE DEF row
<1>6. TaskInv'
  BY <1>1, <1>2, <1>4, <1>5, OneTask DEF ModerationInv
<1>7. WorkerInv'
  <2>1. worker[w].todo \in Seq(Task \X TaskRow)
    BY <1>2 DEF ModerationWorker
  <2>2. CASE Len(worker[w].todo) = 1
    BY <1>1, <2>2, NothingTodo, OneWorker DEF ModerationInv
  <2>3. CASE Len(worker[w].todo) # 1
    <3>1. Tail(worker[w].todo) \in Seq(Task \X TaskRow) /\ Tail(worker[w].todo) # <<>>
      BY <1>2, <2>1, <2>3, RestOfList
    <3>2. rest \in ModerationWorker /\ rest.todo # <<>>
      BY <3>1 DEF ModerationWorker
    <3>3. worker' = [worker EXCEPT ![w] = rest]
      BY <1>1, <2>3
    <3> HIDE DEF rest
    <3> QED BY <3>2, <3>3, OneWorker DEF ModerationInv
  <2> QED BY <2>2, <2>3
<1>8. Respected
  BY <1>2, <1>4, <1>5 DEF Respected, TaskRow
<1> QED BY <1>1, <1>6, <1>7, <1>8, ModerationStays DEF ModerationInv

LEMMA DiesKeeps ==
    ASSUME ModerationInv, NEW w \in Worker, WorkerDies(w)
    PROVE  ModerationInv' /\ Respected
<1>1. worker' = [worker EXCEPT ![w] = Resting] /\ UNCHANGED <<task, rule, desk, assured>>
  BY DEF WorkerDies
<1>2. WorkerInv'
  BY <1>1, NothingTodo, OneWorker DEF ModerationInv
<1>3. Respected
  BY <1>1 DEF Respected, ModerationInv, TaskInv, TaskRow
<1> QED BY <1>1, <1>2, <1>3, ModerationStays DEF ModerationInv
-----------------------------------------------------------------------------
(* The staff. *)

\* Only a write of the row of one task by one of the staff; the rest stays.
LEMMA DeskKeeps ==
    ASSUME ModerationInv, NEW s \in Staff, NEW new \in Desk,
           desk' = [desk EXCEPT ![s] = new], UNCHANGED <<rule, worker, assured>>,
           NEW k \in Task, NEW status \in TaskStatus \ {"none"},
           task' = task \/ task' = [task EXCEPT ![k].status = status]
    PROVE  ModerationInv' /\ Respected
<1> DEFINE row == [task[k] EXCEPT !.status = status]
<1>1. DeskInv'
  BY OneDesk DEF ModerationInv
<1>2. task \in [Task -> TaskRow]
  BY DEF ModerationInv, TaskInv
<1>3. CASE task' = task
  BY <1>1, <1>3, <1>2, ModerationStays DEF ModerationInv, Respected, TaskRow
<1>4. CASE task' = [task EXCEPT ![k].status = status]
  <2>1. task' = [task EXCEPT ![k] = row]
    BY <1>4
  <2>2. /\ row \in TaskRow /\ row.status = status
        /\ row.assigned = task[k].assigned /\ row.attempts = task[k].attempts
    BY <1>2 DEF TaskRow
  <2> HIDE DEF row
  <2>3. TaskInv'
    BY <2>1, <2>2, OneTask DEF ModerationInv
  <2>4. Respected
    BY <1>2, <2>1, <2>2 DEF Respected, TaskRow
  <2> QED BY <1>1, <2>3, <2>4, ModerationStays DEF ModerationInv
<1> QED BY <1>3, <1>4

LEMMA AsksKeep ==
    ASSUME ModerationInv, NEW s \in Staff, NEW k \in Task,
           AskToClaim(s, k) \/ AskToDecide(s, k) \/ AskToAct(s, k)
    PROVE  ModerationInv' /\ Respected
<1>1. PICK pc \in {"claim", "decide", "act"} : desk' = [desk EXCEPT ![s] = [pc |-> pc, of |-> {k}]]
  BY DEF AskToClaim, AskToDecide, AskToAct
<1>2. UNCHANGED <<task, rule, worker, assured>>
  BY DEF AskToClaim, AskToDecide, AskToAct
<1>3. [pc |-> pc, of |-> {k}] \in Desk
  BY DEF Desk
<1>4. "closed" \in TaskStatus \ {"none"}
  BY DEF TaskStatus, Decisions
<1> QED BY <1>1, <1>2, <1>3, <1>4, DeskKeeps

LEMMA DecideKeeps ==
    ASSUME ModerationInv, NEW s \in Staff, Decide(s)
    PROVE  ModerationInv' /\ Respected
<1>1. PICK k \in desk[s].of, decision \in Decisions, act \in BOOLEAN :
          /\ task' = [task EXCEPT ![k].status = decision]
          /\ desk' = [desk EXCEPT ![s] = IF act THEN [pc |-> "act", of |-> {k}] ELSE AtRest]
  BY DEF Decide
<1>2. k \in Task
  BY DEF ModerationInv, DeskInv, Desk
<1>3. PICK new \in Desk : desk' = [desk EXCEPT ![s] = new]
  <2>1. [pc |-> "act", of |-> {k}] \in Desk
    BY <1>2 DEF Desk
  <2> QED BY <1>1, <2>1, NothingTodo
<1>4. decision \in TaskStatus \ {"none"}
  BY DEF TaskStatus, Decisions
<1>5. UNCHANGED <<rule, worker, assured>>
  BY DEF Decide
<1> QED BY <1>1, <1>2, <1>3, <1>4, <1>5, DeskKeeps

LEMMA ActKeeps ==
    ASSUME ModerationInv, NEW s \in Staff, Act(s)
    PROVE  ModerationInv' /\ Respected
<1>1. PICK k \in desk[s].of :
          \/ \E status \in {"blocked", "closed"} : task' = [task EXCEPT ![k].status = status]
          \/ UNCHANGED task
  BY DEF Act
<1>2. k \in Task
  BY DEF ModerationInv, DeskInv, Desk
<1>3. desk' = [desk EXCEPT ![s] = AtRest] /\ UNCHANGED <<rule, worker, assured>>
  BY DEF Act
<1>4. \A status \in {"blocked", "closed"} : status \in TaskStatus \ {"none"}
  BY DEF TaskStatus, Decisions, Reviewable
<1> QED BY <1>1, <1>2, <1>3, <1>4, NothingTodo, DeskKeeps

LEMMA TakeKeeps ==
    ASSUME ModerationInv, NEW s \in Staff, ClaimTask(s)
    PROVE  ModerationInv' /\ Respected
<1>1. /\ desk' = [desk EXCEPT ![s] = AtRest] /\ UNCHANGED <<rule, worker>>
      /\ task \in [Task -> TaskRow] /\ assured \in [Task -> SUBSET Staff]
  BY DEF ClaimTask, ModerationInv, TaskInv
<1>2. DeskInv'
  BY <1>1, NothingTodo, OneDesk DEF ModerationInv
<1>3. CASE UNCHANGED <<task, assured>>
  BY <1>1, <1>2, <1>3, ModerationStays DEF ModerationInv, Respected, TaskRow
<1>4. ASSUME NEW k \in desk[s].of, Takeable(task[k], s),
             task' = [task EXCEPT ![k].status = "reviewing", ![k].assigned = {s}],
             assured' = [assured EXCEPT ![k] = assured[k] \cup {s}]
      PROVE  ModerationInv' /\ Respected
  <2> DEFINE row == [task[k] EXCEPT !.status = "reviewing", !.assigned = {s}]
  <2>1. k \in Task
    BY DEF ModerationInv, DeskInv, Desk
  <2>2. task' = [task EXCEPT ![k] = row]
    BY <1>1, <1>4, <2>1
  <2>3. /\ row \in TaskRow /\ row.status = "reviewing" /\ row.assigned = {s}
        /\ row.attempts = task[k].attempts
    BY <1>1, <2>1 DEF TaskRow, TaskStatus, Reviewable
  <2> HIDE DEF row
  <2>4. task[k].assigned = {} \/ task[k].assigned = {s}
    BY <1>4 DEF Takeable, Free, Assigned
  <2>5. assured[k] \subseteq task[k].assigned
    BY <2>1 DEF ModerationInv, TaskInv
  <2>6. TaskInv'
    <3>1. task' \in [Task -> TaskRow] /\ assured' \in [Task -> SUBSET Staff]
      BY <1>1, <1>4, <2>1, <2>2, <2>3
    <3>2. ASSUME NEW j \in Task
          PROVE  /\ \A q, r \in task'[j].assigned : q = r
                 /\ assured'[j] \subseteq task'[j].assigned
                 /\ task'[j].status = "none" => task'[j].assigned = {}
      <4>1. CASE j = k
        <5>1. task'[j] = row /\ assured'[j] = assured[k] \cup {s}
          BY <1>1, <1>4, <2>1, <2>2, <4>1
        <5> QED BY <2>3, <2>4, <2>5, <5>1
      <4>2. CASE j # k
        <5>1. task'[j] = task[j] /\ assured'[j] = assured[j]
          BY <1>1, <1>4, <2>1, <2>2, <4>2
        <5> QED BY <5>1 DEF ModerationInv, TaskInv
      <4> QED BY <4>1, <4>2
    <3> QED BY <3>1, <3>2 DEF TaskInv
  <2>7. Respected
    BY <1>1, <2>2, <2>3 DEF Respected, TaskRow
  <2> QED BY <1>1, <1>2, <2>6, <2>7, ModerationStays DEF ModerationInv
<1> QED BY <1>3, <1>4 DEF ClaimTask
-----------------------------------------------------------------------------
LEMMA ModerationStep ==
    ASSUME ModerationInv, ModerationNext
    PROVE  ModerationInv' /\ Respected
<1>1. ASSUME NEW k \in Task, Enqueue(k) \/ ScreenInbound(k) \/ RecordBlockedReply(k)
      PROVE  ModerationInv' /\ Respected
  <2>1. PICK status \in {"needs_review", "queued", "machine_passed", "blocked"} : Create(k, status)
    BY <1>1 DEF Enqueue, ScreenInbound, RecordBlockedReply
  <2>2. status \in TaskStatus \ {"none"}
    BY DEF TaskStatus, Reviewable
  <2> QED BY <2>1, <2>2, CreateKeeps
<1>2. ASSUME NEW w \in Worker, WorkerStep(w) PROVE ModerationInv' /\ Respected
  BY <1>2, SelectKeeps, ClaimKeeps, ReviewKeeps, VerdictKeeps, DiesKeeps DEF WorkerStep
<1>3. ASSUME NEW s \in Staff, StaffStep(s) PROVE ModerationInv' /\ Respected
  BY <1>3, TakeKeeps, DecideKeeps, ActKeeps, AsksKeep DEF StaffStep
<1> QED BY <1>1, <1>2, <1>3, RuleKeeps, StaleKeeps DEF ModerationNext

LEMMA ModerationStart == ModerationInit => ModerationInv
<1> SUFFICES ASSUME ModerationInit PROVE ModerationInv
  OBVIOUS
<1>1. TaskInv
  BY NothingTodo DEF ModerationInit, TaskInv
<1>2. WorkerInv
  BY NothingTodo DEF ModerationInit, WorkerInv
<1>3. RuleInv /\ DeskInv
  BY NothingTodo DEF ModerationInit, RuleInv, DeskInv
<1> QED BY <1>1, <1>2, <1>3 DEF ModerationInv

LEMMA AtMostOne ==
    ASSUME NEW S, \A r, s \in S : r = s
    PROVE  Cardinality(S) <= 1
<1>1. CASE S = {}
  BY <1>1, FS_EmptySet
<1>2. CASE S # {}
  <2>1. PICK s \in S : S = {s}
    BY <1>2
  <2> QED BY <2>1, FS_Singleton, SMTT(30)
<1> QED BY <1>1, <1>2

LEMMA ModerationShows == ModerationInv => ModerationTypeOK /\ OneReviewer
<1> SUFFICES ASSUME ModerationInv PROVE ModerationTypeOK /\ OneReviewer
  OBVIOUS
<1>1. \A k \in Task : /\ task[k] \in TaskRow /\ assured[k] \subseteq Staff
                      /\ \A r, s \in task[k].assigned : r = s
                      /\ \A r, s \in assured[k] : r = s
  BY DEF ModerationInv, TaskInv
<1>2. \A k \in Task : Cardinality(task[k].assigned) <= 1 /\ Cardinality(assured[k]) <= 1
  BY <1>1, AtMostOne
<1>3. \A k \in Task : rule[k] \in {"none", "pass", "flagged"}
  BY DEF ModerationInv, RuleInv
<1>4. \A w \in Worker : worker[w].pc \in {"idle", "claim", "review", "write"}
  BY DEF ModerationInv, WorkerInv, ModerationWorker
<1>5. \A s \in Staff : desk[s].pc \in {"idle", "claim", "decide", "act"}
  BY DEF ModerationInv, DeskInv, Desk
<1>6. ModerationTypeOK
  BY <1>1, <1>2, <1>3, <1>4, <1>5 DEF ModerationTypeOK, TaskRow
<1> QED BY <1>2, <1>6 DEF OneReviewer

\* A task goes to one worker at a time and to one reviewer, whatever several of
\* them have selected or asked for, and whichever of them dies on the way.
THEOREM ModerationClaimsAreAtomic == ModerationSpec => ClaimsAreAtomic
<1>1. ModerationInit => ModerationInv
  BY ModerationStart
<1>2. ModerationInv /\ [ModerationNext]_moderationVars => ModerationInv'
  BY ModerationStep, ModerationStays DEF moderationVars, ModerationInv
<1>3. ModerationInv /\ [ModerationNext]_moderationVars => [Respected]_moderationVars
  BY ModerationStep
<1>4. ModerationSpec => [][Respected]_moderationVars
  BY <1>1, <1>2, <1>3, PTL DEF ModerationSpec
<1>5. ModerationSpec => FreshClaimIsRespected
  BY <1>4 DEF Respected, FreshClaimIsRespected
<1>6. ModerationSpec => []ModerationTypeOK /\ []OneReviewer
  BY <1>1, <1>2, ModerationShows, PTL DEF ModerationSpec
<1> QED BY <1>5, <1>6 DEF ClaimsAreAtomic
-----------------------------------------------------------------------------
(* The invariant of the role templates. *)

RoleRow ==
    [status : {"none", "pending_review", "approved", "rejected", "active", "disabled_creator",
               "disabled_admin", "deleted"},
     activated : BOOLEAN, expired : BOOLEAN,
     before : {"none", "pending_review", "approved", "rejected", "active", "disabled_creator",
               "disabled_admin", "deleted"}]

VersionRow ==
    [review : {"none", "pending", "reviewing", "passed", "rejected"}, published : BOOLEAN,
     edit : {"unavailable", "available", "reviewing", "accepted", "rejected"},
     summary : {"none", "generated", "edited"}]

RoleClaim == [kind : {"none", "version", "summary"}, on : SUBSET (Role \X VersionNo)]

\* n is the latest of the versions v that have been written.
IsLatest(v, n) ==
    v[n].review # "none" /\ \A m \in VersionNo : v[m].review # "none" => m <= n

\* A template and its versions.
Mirrors(row, v) ==
    /\ row.status = "none" => ~row.activated /\ \A n \in VersionNo : v[n].review = "none"
    /\ row.status # "none" => \E n \in VersionNo : v[n].review # "none"
    /\ \A n \in VersionNo : v[n].review \in {"pending", "reviewing"} => IsLatest(v, n)
    /\ \A n \in VersionNo : v[n].published => v[n].review = "passed" /\ v[n].edit # "reviewing"
    /\ \A n \in VersionNo : v[n].edit = "reviewing" => v[n].review = "passed"
    /\ \A m, n \in VersionNo : v[m].published /\ v[n].published => m = n
    /\ row.activated <=> \E n \in VersionNo : v[n].published
    /\ row.status \notin {"none", "deleted", "disabled_admin"} =>
          IF row.activated THEN row.status \in {"active", "disabled_creator"}
          ELSE \A n \in VersionNo : IsLatest(v, n) => row.status = StatusFor(v[n].review)

RoleInv ==
    /\ role \in [Role -> RoleRow]
    /\ version \in [Role -> [VersionNo -> VersionRow]]
    /\ reviewer \in [Reviewer -> RoleClaim]
    /\ erasing \subseteq Role
    /\ \A t \in Role : Mirrors(role[t], version[t])

\* What is published keeps its review and its summary.
Final(v, w) ==
    \A n \in VersionNo : v[n].published => w[n].review = "passed" /\ w[n].summary = v[n].summary

FinalStep ==
    \A t \in Role : \A n \in PublishedOf(t) :
        /\ version[t][n].review = "passed" /\ version'[t][n].review = "passed"
        /\ version'[t][n].summary = version[t][n].summary
        /\ version[t][n].edit # "reviewing"

LEMMA RoleTypes ==
    ASSUME RoleInv, NEW t \in Role
    PROVE  /\ role[t] \in RoleRow /\ version[t] \in [VersionNo -> VersionRow]
           /\ \A n \in VersionNo : version[t][n] \in VersionRow
           /\ Mirrors(role[t], version[t])
           /\ role \in [Role -> RoleRow] /\ version \in [Role -> [VersionNo -> VersionRow]]
  BY DEF RoleInv

LEMMA FinalOfMirrors ==
    ASSUME RoleInv, \A t \in Role : Final(version[t], version'[t])
    PROVE  FinalStep
<1> SUFFICES ASSUME NEW t \in Role, NEW n \in PublishedOf(t)
             PROVE  /\ version[t][n].review = "passed" /\ version'[t][n].review = "passed"
                    /\ version'[t][n].summary = version[t][n].summary
                    /\ version[t][n].edit # "reviewing"
  BY DEF FinalStep
<1>1. n \in VersionNo /\ version[t][n].published
  BY DEF PublishedOf, Written
<1>2. version[t][n].review = "passed" /\ version[t][n].edit # "reviewing"
  BY <1>1, RoleTypes DEF Mirrors
<1> QED BY <1>1, <1>2 DEF Final

\* What a step of one template has to show.
LEMMA OneTemplate ==
    ASSUME RoleInv, NEW t \in Role, role' \in [Role -> RoleRow],
           version' \in [Role -> [VersionNo -> VersionRow]],
           \A u \in Role : u # t => role'[u] = role[u] /\ version'[u] = version[u],
           reviewer' \in [Reviewer -> RoleClaim],
           erasing' \subseteq Role,
           Mirrors(role'[t], version'[t]), Final(version[t], version'[t])
    PROVE  RoleInv' /\ FinalStep
<1>1. \A u \in Role : Final(version[u], version'[u])
  BY RoleTypes DEF Final, Mirrors
<1>2. FinalStep
  BY <1>1, FinalOfMirrors
<1>3. \A u \in Role : Mirrors(role'[u], version'[u])
  BY RoleTypes
<1>4. RoleInv'
  BY <1>3 DEF RoleInv
<1> QED BY <1>2, <1>4

\* Where only the row of a template changes.
LEMMA OneRole ==
    ASSUME RoleInv, NEW t \in Role, NEW row \in RoleRow, role' = [role EXCEPT ![t] = row],
           UNCHANGED <<version, reviewer, erasing>>, Mirrors(row, version[t])
    PROVE  RoleInv' /\ FinalStep
<1>1. /\ role' \in [Role -> RoleRow] /\ role'[t] = row
      /\ \A u \in Role : u # t => role'[u] = role[u]
  BY RoleTypes
<1>2. Final(version[t], version'[t])
  BY RoleTypes DEF Final, Mirrors
<1>3. Mirrors(role'[t], version'[t])
  BY <1>1
<1>4. /\ version' \in [Role -> [VersionNo -> VersionRow]] /\ erasing' \subseteq Role
      /\ reviewer' \in [Reviewer -> RoleClaim]
      /\ \A u \in Role : u # t => role'[u] = role[u] /\ version'[u] = version[u]
  BY <1>1 DEF RoleInv
<1> QED BY <1>1, <1>2, <1>3, <1>4, OneTemplate

LEMMA RoleStays ==
    ASSUME RoleInv, UNCHANGED <<role, version>>,
           reviewer' \in [Reviewer -> RoleClaim], erasing' \subseteq Role
    PROVE  RoleInv' /\ FinalStep
<1>1. \A t \in Role : Final(version[t], version'[t])
  BY RoleTypes DEF Final, Mirrors
<1>2. RoleInv'
  BY DEF RoleInv
<1> QED BY <1>1, <1>2, FinalOfMirrors

LEMMA Statuses ==
    /\ StatusFor("passed") = "approved" /\ StatusFor("rejected") = "rejected"
    /\ StatusFor("pending") = "pending_review" /\ StatusFor("reviewing") = "pending_review"
    /\ \A review : StatusFor(review) \in {"approved", "rejected", "pending_review"}
  BY DEF StatusFor

LEMMA LatestIsThere ==
    ASSUME RoleInv, NEW t \in Role, role[t].status # "none"
    PROVE  /\ LatestOf(t) \in VersionNo /\ IsLatest(version[t], LatestOf(t))
           /\ \A n \in VersionNo : IsLatest(version[t], n) => n = LatestOf(t)
<1>1. Written(t) # {} /\ Written(t) \in SUBSET (0 .. MaxVersions)
  <2>1. Written(t) # {}
    BY RoleTypes DEF Written, Mirrors
  <2>2. Written(t) \subseteq VersionNo
    BY DEF Written
  <2>3. VersionNo \subseteq 0 .. MaxVersions
    BY RoleBounds DEF VersionNo
  <2> QED BY <2>1, <2>2, <2>3
<1>2. \E n \in Written(t) : \A m \in Written(t) : m <= n
  BY <1>1, GreatestNumber, RoleBounds
<1>3. LatestOf(t) \in Written(t) /\ \A m \in Written(t) : m <= LatestOf(t)
  BY <1>2 DEF LatestOf
<1>4. LatestOf(t) \in VersionNo /\ IsLatest(version[t], LatestOf(t))
  BY <1>3 DEF Written, IsLatest
<1>5. ASSUME NEW n \in VersionNo, IsLatest(version[t], n) PROVE n = LatestOf(t)
  BY <1>4, <1>5, RoleBounds DEF IsLatest, VersionNo
<1> QED BY <1>4, <1>5
-----------------------------------------------------------------------------
(* The creator. *)

LEMMA FreshVersion ==
    /\ NewVersion \in VersionRow
    /\ NewVersion.review = "pending" /\ ~NewVersion.published /\ NewVersion.edit = "unavailable"
  BY DEF NewVersion, NoVersion, VersionRow

LEMMA CreateRoleKeeps ==
    ASSUME RoleInv, NEW t \in Role, CreateRole(t)
    PROVE  RoleInv' /\ FinalStep
<1> DEFINE row == [role[t] EXCEPT !.status = "pending_review"]
           v == [version[t] EXCEPT ![1] = NewVersion]
<1>1. role' = [role EXCEPT ![t] = row] /\ version' = [version EXCEPT ![t] = v]
      /\ UNCHANGED <<reviewer, erasing>> /\ role[t] = NoRole
  BY DEF CreateRole
<1>2. role[t].status = "none"
  BY <1>1 DEF NoRole
<1>3. row \in RoleRow /\ row.status = "pending_review" /\ row.activated = role[t].activated
  BY RoleTypes DEF RoleRow
<1>4. /\ ~role[t].activated /\ \A n \in VersionNo : version[t][n].review = "none"
      /\ \A n \in VersionNo : ~version[t][n].published
  BY <1>2, RoleTypes DEF Mirrors
<1>5. 1 \in VersionNo
  BY RoleBounds DEF VersionNo
<1>6. /\ v \in [VersionNo -> VersionRow] /\ v[1] = NewVersion
      /\ \A n \in VersionNo : n # 1 => v[n] = version[t][n]
  BY <1>5, RoleTypes, FreshVersion
<1> HIDE DEF row, v
<1>7. \A n \in VersionNo : /\ ~v[n].published /\ v[n].edit # "reviewing"
                           /\ v[n].review # "none" => n = 1
  <2>1. \A n \in VersionNo : version[t][n].edit # "reviewing"
    BY <1>4, RoleTypes DEF Mirrors
  <2> QED BY <1>4, <1>6, <2>1, FreshVersion
<1>8. IsLatest(v, 1) /\ \A n \in VersionNo : IsLatest(v, n) => n = 1
  BY <1>5, <1>6, <1>7, FreshVersion DEF IsLatest
<1>9. Mirrors(row, v)
  BY <1>3, <1>4, <1>5, <1>6, <1>7, <1>8, FreshVersion, Statuses DEF Mirrors
<1>10. Final(version[t], v)
  BY <1>4 DEF Final
<1>11. /\ role' \in [Role -> RoleRow] /\ version' \in [Role -> [VersionNo -> VersionRow]]
       /\ role'[t] = row /\ version'[t] = v
       /\ \A u \in Role : u # t => role'[u] = role[u] /\ version'[u] = version[u]
  BY <1>1, <1>3, <1>6, RoleTypes
<1>12. /\ reviewer' \in [Reviewer -> RoleClaim]
       /\ erasing' \subseteq Role
  BY <1>1 DEF RoleInv
<1>13. Mirrors(role'[t], version'[t]) /\ Final(version[t], version'[t])
  BY <1>9, <1>10, <1>11
<1> QED BY <1>11, <1>12, <1>13, OneTemplate

LEMMA EditKeeps ==
    ASSUME RoleInv, NEW t \in Role, EditRole(t)
    PROVE  RoleInv' /\ FinalStep
<1> DEFINE last == LatestOf(t)
           row == [role[t] EXCEPT !.status = IF role[t].activated THEN role[t].status
                                             ELSE "pending_review"]
           v == [version[t] EXCEPT ![last + 1] = NewVersion]
<1>1. /\ role' = [role EXCEPT ![t] = row] /\ version' = [version EXCEPT ![t] = v]
      /\ UNCHANGED <<reviewer, erasing>> /\ last < MaxVersions /\ InReview(t) = {}
      /\ role[t].status \notin {"none", "deleted", "disabled_admin"}
  BY DEF EditRole, Live
<1>2. /\ last \in VersionNo /\ IsLatest(version[t], last)
  BY <1>1, LatestIsThere
<1>3. last + 1 \in VersionNo /\ \A n \in VersionNo : n <= last => n # last + 1 /\ n <= last + 1
  BY <1>1, <1>2, RoleBounds DEF VersionNo
<1>4. row \in RoleRow /\ row.activated = role[t].activated
      /\ (role[t].activated => row.status = role[t].status)
      /\ (~role[t].activated => row.status = "pending_review")
  BY RoleTypes DEF RoleRow
<1>5. /\ v \in [VersionNo -> VersionRow] /\ v[last + 1] = NewVersion
      /\ \A n \in VersionNo : n # last + 1 => v[n] = version[t][n]
  BY <1>3, RoleTypes, FreshVersion
<1>6. version[t][last + 1].review = "none" /\ ~version[t][last + 1].published
  <2>1. ~(last + 1 <= last)
    BY <1>2, RoleBounds DEF VersionNo
  <2>2. version[t][last + 1].review = "none"
    BY <1>2, <1>3, <2>1 DEF IsLatest
  <2> QED BY <1>3, <2>2, RoleTypes DEF Mirrors
<1>7. \A n \in VersionNo : version[t][n].review \notin {"pending", "reviewing"}
  BY <1>1 DEF InReview, Written
<1> HIDE DEF row, v, last
<1>8. \A n \in VersionNo : v[n].published <=> version[t][n].published
  BY <1>5, <1>6, FreshVersion
<1>9. IsLatest(v, last + 1)
  <2>1. \A m \in VersionNo : v[m].review # "none" => m <= last + 1
    <3>1. last + 1 <= last + 1
      BY <1>2, RoleBounds DEF VersionNo
    <3> QED BY <1>2, <1>3, <1>5, <3>1 DEF IsLatest
  <2> QED BY <1>5, <2>1, FreshVersion DEF IsLatest
<1>10. \A n \in VersionNo : IsLatest(v, n) => n = last + 1
  BY <1>3, <1>9, RoleBounds DEF IsLatest, VersionNo
<1>11. \A n \in VersionNo : v[n].published => v[n] = version[t][n]
  BY <1>5, FreshVersion
<1>12. \A n \in VersionNo : v[n].review \in {"pending", "reviewing"} => n = last + 1
  BY <1>5, <1>7
<1>13. Mirrors(row, v)
  <2>1. row.status \notin {"none"}
    BY <1>1, <1>4
  <2>2. row.activated <=> \E n \in VersionNo : v[n].published
    BY <1>4, <1>8, RoleTypes DEF Mirrors
  <2>3. \A n \in VersionNo : v[n].published => v[n].review = "passed" /\ v[n].edit # "reviewing"
    BY <1>8, <1>11, RoleTypes DEF Mirrors
  <2>4. \A m, n \in VersionNo : v[m].published /\ v[n].published => m = n
    BY <1>8, RoleTypes DEF Mirrors
  <2>5. IF row.activated THEN row.status \in {"active", "disabled_creator"}
        ELSE \A n \in VersionNo : IsLatest(v, n) => row.status = StatusFor(v[n].review)
    <3>1. CASE role[t].activated
      BY <1>1, <1>4, <3>1, RoleTypes DEF Mirrors
    <3>2. CASE ~role[t].activated
      BY <1>4, <1>5, <1>10, <3>2, FreshVersion, Statuses
    <3> QED BY <3>1, <3>2
  <2>6. \A n \in VersionNo : v[n].edit = "reviewing" => v[n].review = "passed"
    BY <1>5, FreshVersion, RoleTypes DEF Mirrors
  <2> QED BY <1>3, <1>5, <1>9, <1>12, <2>1, <2>2, <2>3, <2>4, <2>5, <2>6, FreshVersion DEF Mirrors
<1>14. Final(version[t], v)
  BY <1>8, <1>11, RoleTypes DEF Final, Mirrors
<1>15. /\ role' \in [Role -> RoleRow] /\ version' \in [Role -> [VersionNo -> VersionRow]]
       /\ role'[t] = row /\ version'[t] = v
       /\ \A u \in Role : u # t => role'[u] = role[u] /\ version'[u] = version[u]
  BY <1>1, <1>4, <1>5, RoleTypes
<1>16. /\ reviewer' \in [Reviewer -> RoleClaim]
       /\ erasing' \subseteq Role
  BY <1>1 DEF RoleInv
<1>17. Mirrors(role'[t], version'[t]) /\ Final(version[t], version'[t])
  BY <1>13, <1>14, <1>15
<1> QED BY <1>15, <1>16, <1>17, OneTemplate

LEMMA PublishKeeps ==
    ASSUME RoleInv, NEW t \in Role, NEW n \in VersionNo, PublishVersion(t, n)
    PROVE  RoleInv' /\ FinalStep
<1>1. /\ version' = [version EXCEPT ![t] =
             [m \in VersionNo |-> [version[t][m] EXCEPT !.published = (m = n)]]]
      /\ role' = [role EXCEPT ![t] =
             IF role[t].activated THEN role[t]
             ELSE [role[t] EXCEPT !.status = "active", !.activated = TRUE]]
      /\ UNCHANGED <<reviewer, erasing>>
      /\ version[t][n].review = "passed" /\ version[t][n].edit # "reviewing"
      /\ role[t].status \notin {"none", "deleted", "disabled_admin"}
  BY DEF PublishVersion, Publishable, Live
<1> DEFINE row == IF role[t].activated THEN role[t]
                  ELSE [role[t] EXCEPT !.status = "active", !.activated = TRUE]
           v == [m \in VersionNo |-> [version[t][m] EXCEPT !.published = (m = n)]]
<1>2. role' = [role EXCEPT ![t] = row] /\ version' = [version EXCEPT ![t] = v]
  BY <1>1
<1>3. \A m \in VersionNo : /\ v[m] \in VersionRow /\ (v[m].published <=> m = n)
                           /\ v[m].review = version[t][m].review
                           /\ v[m].edit = version[t][m].edit
                           /\ v[m].summary = version[t][m].summary
  <2> SUFFICES ASSUME NEW m \in VersionNo
               PROVE  /\ v[m] \in VersionRow /\ (v[m].published <=> m = n)
                      /\ v[m].review = version[t][m].review
                      /\ v[m].edit = version[t][m].edit
                      /\ v[m].summary = version[t][m].summary
    OBVIOUS
  <2>1. version[t][m] \in VersionRow
    BY RoleTypes
  <2>2. PICK b \in BOOLEAN : b = (m = n)
    OBVIOUS
  <2>3. v[m] = [version[t][m] EXCEPT !.published = b]
    BY <2>2
  <2> HIDE DEF v
  <2>4. /\ v[m] \in VersionRow /\ v[m].published = b
        /\ v[m].review = version[t][m].review
        /\ v[m].edit = version[t][m].edit
        /\ v[m].summary = version[t][m].summary
    BY <2>1, <2>3 DEF VersionRow
  <2> QED BY <2>2, <2>4
<1>4. v \in [VersionNo -> VersionRow]
  <2>1. v = [m \in VersionNo |-> v[m]]
    OBVIOUS
  <2> HIDE DEF v
  <2> QED BY <1>3, <2>1
<1>5. row \in RoleRow /\ row.activated /\ row.status \in {"active", "disabled_creator"}
  BY <1>1, RoleTypes DEF RoleRow, Mirrors
<1> HIDE DEF row, v
<1>6. \A m \in VersionNo : IsLatest(v, m) <=> IsLatest(version[t], m)
  BY <1>3 DEF IsLatest
<1>7. Mirrors(row, v)
  <2>1. \A m \in VersionNo : v[m].published => v[m].review = "passed" /\ v[m].edit # "reviewing"
    BY <1>1, <1>3
  <2>2. \A m, k \in VersionNo : v[m].published /\ v[k].published => m = k
    BY <1>3
  <2>3. row.activated <=> \E m \in VersionNo : v[m].published
    BY <1>3, <1>5
  <2>4. \A m \in VersionNo : v[m].review \in {"pending", "reviewing"} => IsLatest(v, m)
    BY <1>3, <1>6, RoleTypes DEF Mirrors
  <2>5. row.status # "none" /\ v[n].review # "none"
    BY <1>1, <1>3, <1>5
  <2>6. \A m \in VersionNo : v[m].edit = "reviewing" => v[m].review = "passed"
    BY <1>3, RoleTypes DEF Mirrors
  <2> QED BY <1>5, <2>1, <2>2, <2>3, <2>4, <2>5, <2>6 DEF Mirrors
<1>8. Final(version[t], v)
  BY <1>3, RoleTypes DEF Final, Mirrors
<1>9. /\ role' \in [Role -> RoleRow] /\ version' \in [Role -> [VersionNo -> VersionRow]]
      /\ role'[t] = row /\ version'[t] = v
      /\ \A u \in Role : u # t => role'[u] = role[u] /\ version'[u] = version[u]
  BY <1>2, <1>4, <1>5, RoleTypes
<1>10. /\ reviewer' \in [Reviewer -> RoleClaim]
       /\ erasing' \subseteq Role
  BY <1>1 DEF RoleInv
<1>11. Mirrors(role'[t], version'[t]) /\ Final(version[t], version'[t])
  BY <1>7, <1>8, <1>9
<1> QED BY <1>9, <1>10, <1>11, OneTemplate

\* A status that its creator, the deletion of the account or time gives it.
LEMMA StatusKeeps ==
    ASSUME RoleInv, NEW t \in Role,
           \/ \E enabled \in BOOLEAN : SwitchRole(t, enabled)
           \/ DeleteRole(t)
           \/ RoleExpires(t)
    PROVE  RoleInv' /\ FinalStep
<1>1. UNCHANGED <<version, reviewer, erasing>> /\ role[t] \in RoleRow /\ Mirrors(role[t], version[t])
  BY RoleTypes DEF SwitchRole, DeleteRole, RoleExpires
<1>2. ASSUME NEW enabled \in BOOLEAN, SwitchRole(t, enabled) PROVE RoleInv' /\ FinalStep
  <2> DEFINE row == [role[t] EXCEPT !.status = IF enabled THEN "active" ELSE "disabled_creator"]
  <2>1. role[t].status \in {"active", "disabled_creator"} /\ role' = [role EXCEPT ![t] = row]
    BY <1>2 DEF SwitchRole
  <2>2. /\ row \in RoleRow /\ row.status \in {"active", "disabled_creator"}
        /\ row.activated = role[t].activated
    BY <1>1 DEF RoleRow
  <2> HIDE DEF row
  <2>3. role[t].activated
    <3> SUFFICES ASSUME ~role[t].activated PROVE FALSE
      OBVIOUS
    <3>1. role[t].status = StatusFor(version[t][LatestOf(t)].review)
      BY <1>1, <2>1, LatestIsThere DEF Mirrors
    <3> QED BY <2>1, <3>1, Statuses
  <2>4. Mirrors(row, version[t])
    BY <1>1, <2>1, <2>2, <2>3 DEF Mirrors
  <2> QED BY <1>1, <2>1, <2>2, <2>4, OneRole
<1>3. ASSUME DeleteRole(t) PROVE RoleInv' /\ FinalStep
  <2> DEFINE row == [role[t] EXCEPT !.status = "deleted"]
  <2>1. role' = [role EXCEPT ![t] = row] /\ role[t].status # "none"
    BY <1>3 DEF DeleteRole, Live
  <2>2. row \in RoleRow /\ row.status = "deleted" /\ row.activated = role[t].activated
    BY <1>1 DEF RoleRow
  <2> HIDE DEF row
  <2>3. Mirrors(row, version[t])
    BY <1>1, <2>1, <2>2 DEF Mirrors
  <2> QED BY <1>1, <2>1, <2>2, <2>3, OneRole
<1>4. ASSUME RoleExpires(t) PROVE RoleInv' /\ FinalStep
  <2> DEFINE row == [role[t] EXCEPT !.expired = TRUE]
  <2>1. role' = [role EXCEPT ![t] = row]
    BY <1>4 DEF RoleExpires
  <2>2. row \in RoleRow /\ row.status = role[t].status /\ row.activated = role[t].activated
    BY <1>1 DEF RoleRow
  <2> HIDE DEF row
  <2>3. Mirrors(row, version[t])
    BY <1>1, <2>2 DEF Mirrors
  <2> QED BY <1>1, <2>1, <2>2, <2>3, OneRole
<1> QED BY <1>2, <1>3, <1>4

LEMMA EraseKeeps ==
    ASSUME RoleInv, ListForErasure \/ EraseRoles
    PROVE  RoleInv' /\ FinalStep
<1>1. CASE ListForErasure
  BY <1>1, RoleStays DEF ListForErasure, Live, RoleInv
<1>2. CASE EraseRoles
  <2>1. /\ UNCHANGED <<version, reviewer>> /\ erasing' = {}
        /\ role' = [t \in Role |-> IF t \in erasing \cap Live
                                   THEN [role[t] EXCEPT !.status = "deleted"] ELSE role[t]]
    BY <1>2 DEF EraseRoles
  <2>2. ASSUME NEW t \in Role
        PROVE  role'[t] \in RoleRow /\ Mirrors(role'[t], version'[t]) /\ Final(version[t], version'[t])
    <3>1. role[t] \in RoleRow /\ Mirrors(role[t], version[t]) /\ version'[t] = version[t]
      BY <2>1, RoleTypes
    <3>2. Final(version[t], version'[t])
      BY <3>1 DEF Final, Mirrors
    <3>3. CASE t \in erasing \cap Live
      <4> DEFINE row == [role[t] EXCEPT !.status = "deleted"]
      <4>1. role'[t] = row /\ role[t].status # "none"
        BY <2>1, <3>3 DEF Live
      <4>2. row \in RoleRow /\ row.status = "deleted" /\ row.activated = role[t].activated
        BY <3>1 DEF RoleRow
      <4> HIDE DEF row
      <4>3. Mirrors(row, version[t])
        BY <3>1, <4>1, <4>2 DEF Mirrors
      <4> QED BY <3>1, <3>2, <4>1, <4>2, <4>3
    <3>4. CASE t \notin erasing \cap Live
      <4>1. role'[t] = role[t]
        BY <2>1, <3>4
      <4> QED BY <3>1, <3>2, <4>1
    <3> QED BY <3>3, <3>4
  <2>3. role' \in [Role -> RoleRow] /\ version' = version
    <3>1. role' = [t \in Role |-> role'[t]]
      BY <2>1
    <3> QED BY <2>1, <2>2, <3>1
  <2>4. RoleInv'
    BY <2>1, <2>2, <2>3 DEF RoleInv
  <2> QED BY <2>2, <2>4, FinalOfMirrors
<1> QED BY <1>1, <1>2
-----------------------------------------------------------------------------
(* The staff, and the reviews. *)

LEMMA AdminKeeps ==
    ASSUME RoleInv, NEW t \in Role, DisableByAdmin(t) \/ EnableByAdmin(t)
    PROVE  RoleInv' /\ FinalStep
<1>1. UNCHANGED <<version, reviewer, erasing>> /\ role[t] \in RoleRow /\ Mirrors(role[t], version[t])
  BY RoleTypes DEF DisableByAdmin, EnableByAdmin
<1>2. CASE DisableByAdmin(t)
  <2> DEFINE row == [role[t] EXCEPT !.status = "disabled_admin", !.before = role[t].status]
  <2>1. role' = [role EXCEPT ![t] = row] /\ role[t].status # "none"
    BY <1>2, RoleTypes DEF DisableByAdmin, Live
  <2>2. row \in RoleRow /\ row.status = "disabled_admin" /\ row.activated = role[t].activated
    BY <1>1 DEF RoleRow
  <2> HIDE DEF row
  <2>3. Mirrors(row, version[t])
    BY <1>1, <2>1, <2>2 DEF Mirrors
  <2> QED BY <1>1, <2>1, <2>2, <2>3, OneRole
<1>3. CASE EnableByAdmin(t)
  <2> DEFINE row == [role[t] EXCEPT !.status = RestoredStatus(t), !.before = "none"]
  <2>1. role' = [role EXCEPT ![t] = row] /\ role[t].status = "disabled_admin"
    BY <1>3, RoleTypes DEF EnableByAdmin
  <2>2. /\ role[t].activated => RestoredStatus(t) \in {"active", "disabled_creator"}
        /\ ~role[t].activated => RestoredStatus(t) = StatusFor(version[t][LatestOf(t)].review)
    BY DEF RestoredStatus
  <2>3. RestoredStatus(t) \in {"active", "disabled_creator", "approved", "rejected", "pending_review"}
    BY <2>2, Statuses
  <2>4. row \in RoleRow /\ row.status = RestoredStatus(t) /\ row.activated = role[t].activated
    BY <1>1, <2>3 DEF RoleRow
  <2> HIDE DEF row
  <2>5. ASSUME ~row.activated, NEW n \in VersionNo, IsLatest(version[t], n)
        PROVE  row.status = StatusFor(version[t][n].review)
    <3>1. n = LatestOf(t)
      BY <2>1, <2>5, LatestIsThere
    <3> QED BY <2>2, <2>4, <2>5, <3>1
  <2>6. row.activated => row.status \in {"active", "disabled_creator"}
    BY <2>2, <2>4
  <2>7. row.status # "none" /\ \E n \in VersionNo : version[t][n].review # "none"
    BY <1>1, <2>1, <2>3, <2>4 DEF Mirrors
  <2>8. Mirrors(row, version[t])
    BY <1>1, <2>4, <2>5, <2>6, <2>7 DEF Mirrors
  <2> QED BY <1>1, <2>1, <2>4, <2>8, OneRole
<1> QED BY <1>2, <1>3

\* One version of a template changes, which has been written and is not published.
LEMMA OneVersion ==
    ASSUME RoleInv, NEW t \in Role, NEW n \in VersionNo, NEW x \in VersionRow,
           version' = [version EXCEPT ![t][n] = x], x.review # "none",
           version[t][n].review # "none", ~version[t][n].published, ~x.published,
           x.edit = "reviewing" => x.review = "passed",
           x.review \in {"pending", "reviewing"} =>
               version[t][n].review \in {"pending", "reviewing"},
           reviewer' \in [Reviewer -> RoleClaim], UNCHANGED erasing,
           NEW row \in RoleRow, role' = [role EXCEPT ![t] = row],
           role[t].status # "none", row.status # "none", row.activated = role[t].activated,
           row.status \in {"deleted", "disabled_admin"} => row.status = role[t].status,
           row.status \notin {"deleted", "disabled_admin"} =>
               IF row.activated THEN row.status = role[t].status
               ELSE \/ version[t][n].review \in {"pending", "reviewing"} /\ row.status = StatusFor(x.review)
                    \/ x.review = version[t][n].review /\ row.status = role[t].status
    PROVE  RoleInv' /\ FinalStep
<1> DEFINE v == [version[t] EXCEPT ![n] = x]
<1>1. /\ version' = [version EXCEPT ![t] = v] /\ v \in [VersionNo -> VersionRow] /\ v[n] = x
      /\ \A m \in VersionNo : m # n => v[m] = version[t][m]
      /\ role[t] \in RoleRow /\ Mirrors(role[t], version[t])
  BY RoleTypes
<1> HIDE DEF v
<1>2. \A m \in VersionNo : v[m].review # "none" <=> version[t][m].review # "none"
  BY <1>1
<1>3. \A m \in VersionNo : IsLatest(v, m) <=> IsLatest(version[t], m)
  BY <1>2 DEF IsLatest
<1>4. \A m \in VersionNo : /\ v[m].published <=> version[t][m].published
                           /\ v[m].published => v[m] = version[t][m]
  BY <1>1
<1>5. \A m \in VersionNo : v[m].review \in {"pending", "reviewing"} => IsLatest(v, m)
  <2> SUFFICES ASSUME NEW m \in VersionNo, v[m].review \in {"pending", "reviewing"}
               PROVE  IsLatest(version[t], m)
    BY <1>3
  <2>1. version[t][m].review \in {"pending", "reviewing"}
    BY <1>1
  <2> QED BY <1>1, <2>1 DEF Mirrors
<1>6. /\ \A m \in VersionNo : v[m].published => v[m].review = "passed" /\ v[m].edit # "reviewing"
      /\ \A m, k \in VersionNo : v[m].published /\ v[k].published => m = k
      /\ row.activated <=> \E m \in VersionNo : v[m].published
  BY <1>1, <1>4 DEF Mirrors
<1>7. row.status \notin {"none", "deleted", "disabled_admin"} =>
          IF row.activated THEN row.status \in {"active", "disabled_creator"}
          ELSE \A m \in VersionNo : IsLatest(v, m) => row.status = StatusFor(v[m].review)
  <2> SUFFICES ASSUME row.status \notin {"none", "deleted", "disabled_admin"}
               PROVE  IF row.activated THEN row.status \in {"active", "disabled_creator"}
                      ELSE \A m \in VersionNo : IsLatest(v, m) => row.status = StatusFor(v[m].review)
    OBVIOUS
  <2>1. CASE row.activated
    BY <1>1, <2>1 DEF Mirrors
  <2>2. CASE ~row.activated
    <3> SUFFICES ASSUME NEW m \in VersionNo, IsLatest(version[t], m)
                 PROVE  row.status = StatusFor(v[m].review)
      BY <1>3, <2>2
    <3>1. CASE version[t][n].review \in {"pending", "reviewing"} /\ row.status = StatusFor(x.review)
      <4>1. IsLatest(version[t], n)
        BY <1>1, <3>1 DEF Mirrors
      <4>2. m = n
        BY <4>1, RoleBounds DEF IsLatest, VersionNo
      <4> QED BY <1>1, <3>1, <4>2
    <3>2. CASE x.review = version[t][n].review /\ row.status = role[t].status
      <4>1. row.status = StatusFor(version[t][m].review)
        BY <1>1, <2>2, <3>2 DEF Mirrors
      <4>2. v[m].review = version[t][m].review
        BY <1>1, <3>2
      <4> QED BY <4>1, <4>2
    <3> QED BY <2>2, <3>1, <3>2
  <2> QED BY <2>1, <2>2
<1>8. Mirrors(row, v)
  <2>1. \A m \in VersionNo : v[m].edit = "reviewing" => v[m].review = "passed"
    BY <1>1 DEF Mirrors
  <2> QED BY <1>1, <1>5, <1>6, <1>7, <2>1 DEF Mirrors
<1>9. Final(version[t], v)
  BY <1>1, <1>4 DEF Final, Mirrors
<1>10. /\ role' \in [Role -> RoleRow] /\ version' \in [Role -> [VersionNo -> VersionRow]]
       /\ role'[t] = row /\ version'[t] = v
       /\ \A u \in Role : u # t => role'[u] = role[u] /\ version'[u] = version[u]
  BY <1>1, RoleTypes
<1>11. /\ erasing' \subseteq Role
       /\ reviewer' \in [Reviewer -> RoleClaim]
  BY DEF RoleInv
<1>12. Mirrors(role'[t], version'[t]) /\ Final(version[t], version'[t])
  BY <1>8, <1>9, <1>10
<1> QED BY <1>10, <1>11, <1>12, OneTemplate

LEMMA ReviewersTyped ==
    ASSUME RoleInv, NEW r \in Reviewer, NEW t \in Role, NEW n \in VersionNo,
           NEW kind \in {"version", "summary"},
           \/ reviewer' = [reviewer EXCEPT ![r] = [kind |-> kind, on |-> {<<t, n>>}]]
           \/ reviewer' = [reviewer EXCEPT ![r] = NoClaim]
           \/ reviewer' = reviewer
    PROVE  reviewer' \in [Reviewer -> RoleClaim]
<1>1. [kind |-> kind, on |-> {<<t, n>>}] \in RoleClaim /\ NoClaim \in RoleClaim
  BY DEF NoClaim, RoleClaim
<1> QED BY <1>1 DEF RoleInv

LEMMA ClaimReviewKeeps ==
    ASSUME RoleInv, NEW r \in Reviewer, NEW t \in Role, NEW n \in VersionNo, ClaimReview(r, t, n)
    PROVE  RoleInv' /\ FinalStep
<1> DEFINE x == [version[t][n] EXCEPT !.review = "reviewing"]
<1>1. /\ role[t].status \notin {"none", "deleted", "disabled_admin"}
      /\ version[t][n].review = "pending" /\ version' = [version EXCEPT ![t][n].review = "reviewing"]
      /\ reviewer' = [reviewer EXCEPT ![r] = [kind |-> "version", on |-> {<<t, n>>}]]
      /\ UNCHANGED <<role, erasing>>
  BY DEF ClaimReview, Live
<1>2. version[t][n] \in VersionRow /\ role[t] \in RoleRow
  BY RoleTypes
<1>3. version' = [version EXCEPT ![t][n] = x]
  BY <1>1, RoleTypes
<1>4. /\ x \in VersionRow /\ x.review = "reviewing" /\ x.published = version[t][n].published
      /\ x.edit = version[t][n].edit
  BY <1>2 DEF VersionRow
<1> HIDE DEF x
<1>5. ~version[t][n].published
  BY <1>1, RoleTypes DEF Mirrors
<1>6. role' = [role EXCEPT ![t] = role[t]]
  BY <1>1, RoleTypes
<1>7. reviewer' \in [Reviewer -> RoleClaim]
  BY <1>1, ReviewersTyped
<1>8. ~role[t].activated => role[t].status = StatusFor("reviewing")
  <2> SUFFICES ASSUME ~role[t].activated PROVE role[t].status = StatusFor("reviewing")
    OBVIOUS
  <2>1. role[t].status = StatusFor("pending")
    BY <1>1, RoleTypes DEF Mirrors
  <2> QED BY <2>1, Statuses
<1>9. /\ x.review # "none" /\ version[t][n].review # "none" /\ ~x.published
      /\ version[t][n].review \in {"pending", "reviewing"}
      /\ x.edit = "reviewing" => x.review = "passed"
  BY <1>1, <1>4, <1>5, RoleTypes DEF Mirrors
<1>10. /\ role[t].status # "none" /\ UNCHANGED erasing
       /\ role[t].status \in {"deleted", "disabled_admin"} => role[t].status = role[t].status
       /\ role[t].status \notin {"deleted", "disabled_admin"} =>
            IF role[t].activated THEN role[t].status = role[t].status
            ELSE \/ version[t][n].review \in {"pending", "reviewing"} /\ role[t].status = StatusFor(x.review)
                 \/ x.review = version[t][n].review /\ role[t].status = role[t].status
  BY <1>1, <1>4, <1>8
<1> QED BY <1>2, <1>3, <1>4, <1>5, <1>6, <1>7, <1>9, <1>10, OneVersion

LEMMA CompleteReviewKeeps ==
    ASSUME RoleInv, NEW r \in Reviewer, NEW t \in Role, NEW n \in VersionNo,
           NEW decision \in {"passed", "rejected", "pending"}, CompleteReview(r, t, n, decision)
    PROVE  RoleInv' /\ FinalStep
<1> DEFINE edit == IF decision = "passed" THEN "available" ELSE "unavailable"
           summary == IF decision = "passed" THEN "generated" ELSE "none"
           x == [version[t][n] EXCEPT !.review = decision, !.edit = edit, !.summary = summary]
           row == [role[t] EXCEPT !.status = IF role[t].activated \/ role[t].status = "disabled_admin"
                                             THEN role[t].status ELSE StatusFor(decision)]
<1>1. /\ role[t].status \notin {"none", "deleted"}
      /\ version[t][n].review = "reviewing" /\ version' = [version EXCEPT ![t][n] = x]
      /\ role' = [role EXCEPT ![t] = row]
      /\ reviewer' = [reviewer EXCEPT ![r] = NoClaim] /\ UNCHANGED erasing
  BY RoleTypes DEF CompleteReview, Live
<1>2. version[t][n] \in VersionRow /\ role[t] \in RoleRow
  BY RoleTypes
<1>3. /\ x \in VersionRow /\ x.review = decision /\ x.published = version[t][n].published
      /\ x.edit # "reviewing"
  BY <1>2 DEF VersionRow
<1>4. ~version[t][n].published
  BY <1>1, RoleTypes DEF Mirrors
<1>5. /\ row \in RoleRow /\ row.activated = role[t].activated
      /\ role[t].activated \/ role[t].status = "disabled_admin" => row.status = role[t].status
      /\ ~(role[t].activated \/ role[t].status = "disabled_admin") => row.status = StatusFor(decision)
  BY <1>2, Statuses DEF RoleRow
<1> HIDE DEF x, row
<1>6. reviewer' \in [Reviewer -> RoleClaim]
  BY <1>1, ReviewersTyped
<1>7. /\ row.status # "none"
      /\ row.status \in {"deleted", "disabled_admin"} => row.status = role[t].status
      /\ row.status \notin {"deleted", "disabled_admin"} =>
            IF row.activated THEN row.status = role[t].status
            ELSE row.status = StatusFor(decision)
  BY <1>1, <1>5, Statuses
<1> QED BY <1>1, <1>2, <1>3, <1>4, <1>5, <1>6, <1>7, OneVersion

LEMMA SummaryKeeps ==
    ASSUME RoleInv, NEW r \in Reviewer, NEW t \in Role, NEW n \in VersionNo,
           \/ ClaimSummaryReview(r, t, n)
           \/ \E decision \in {"accepted", "rejected", "available"} :
                 CompleteSummaryReview(r, t, n, decision)
    PROVE  RoleInv' /\ FinalStep
<1>1. /\ role[t].status \notin {"none", "deleted"} /\ UNCHANGED <<role, erasing>>
      /\ reviewer' \in [Reviewer -> RoleClaim]
      /\ ~version[t][n].published
  <2>1. \/ reviewer' = [reviewer EXCEPT ![r] = [kind |-> "summary", on |-> {<<t, n>>}]]
        \/ reviewer' = [reviewer EXCEPT ![r] = NoClaim]
    BY DEF ClaimSummaryReview, CompleteSummaryReview
  <2>2. reviewer' \in [Reviewer -> RoleClaim]
    BY <2>1, ReviewersTyped
  <2> QED BY <2>2 DEF ClaimSummaryReview, CompleteSummaryReview, Live
<1>2. version[t][n] \in VersionRow /\ role[t] \in RoleRow
  BY RoleTypes
<1>3. PICK edit \in {"available", "reviewing", "accepted", "rejected"},
           summary \in {"none", "generated", "edited"} :
          version' = [version EXCEPT ![t][n] = [version[t][n] EXCEPT !.edit = edit, !.summary = summary]]
  <2>1. CASE ClaimSummaryReview(r, t, n)
    <3>1. version' = [version EXCEPT ![t][n] = [version[t][n] EXCEPT !.edit = "reviewing",
                                                  !.summary = version[t][n].summary]]
      BY <1>2, <2>1, RoleTypes DEF ClaimSummaryReview, VersionRow
    <3> QED BY <1>2, <3>1 DEF VersionRow
  <2>2. ASSUME NEW decision \in {"accepted", "rejected", "available"},
               CompleteSummaryReview(r, t, n, decision)
        PROVE  \E edit \in {"available", "reviewing", "accepted", "rejected"},
                  summary \in {"none", "generated", "edited"} :
          version' = [version EXCEPT ![t][n] = [version[t][n] EXCEPT !.edit = edit, !.summary = summary]]
    <3>1. PICK summary \in {"none", "generated", "edited"} :
              summary = IF decision = "accepted" THEN "edited" ELSE version[t][n].summary
      BY <1>2 DEF VersionRow
    <3>2. version' = [version EXCEPT ![t][n] = [version[t][n] EXCEPT !.edit = decision,
                                                  !.summary = summary]]
      <4>1. version' = [version EXCEPT ![t][n].edit = decision,
                ![t][n].summary = IF decision = "accepted" THEN "edited" ELSE version[t][n].summary]
        BY <1>2, <2>2, RoleTypes DEF CompleteSummaryReview, VersionRow
      <4> QED BY <1>2, <3>1, <4>1, RoleTypes DEF VersionRow
    <3> QED BY <3>2
  <2> QED BY <2>1, <2>2
<1> DEFINE x == [version[t][n] EXCEPT !.edit = edit, !.summary = summary]
<1>4. x \in VersionRow /\ x.review = version[t][n].review /\ x.published = version[t][n].published
  BY <1>2 DEF VersionRow
<1>5. version' = [version EXCEPT ![t][n] = x]
  BY <1>3
<1> HIDE DEF x
<1>6. version[t][n].review = "passed"
  <2>1. CASE ClaimSummaryReview(r, t, n)
    BY <2>1 DEF ClaimSummaryReview
  <2>2. CASE \E decision \in {"accepted", "rejected", "available"} :
                CompleteSummaryReview(r, t, n, decision)
    <3>1. version[t][n].edit = "reviewing"
      BY <2>2 DEF CompleteSummaryReview
    <3> QED BY <3>1, RoleTypes DEF Mirrors
  <2> QED BY <2>1, <2>2
<1>7. PICK row \in RoleRow : row = role[t] /\ role' = [role EXCEPT ![t] = row]
  BY <1>1, RoleTypes
<1>8. x.review = "passed" /\ ~x.published
  BY <1>1, <1>4, <1>6
<1>9. /\ role[t].status # "none" /\ row.status # "none"
      /\ row.activated = role[t].activated /\ row.status = role[t].status
  BY <1>1, <1>7
<1>10. reviewer' \in [Reviewer -> RoleClaim] /\ ~version[t][n].published /\ UNCHANGED erasing
  BY <1>1
<1>11. IF row.activated THEN row.status = role[t].status
       ELSE \/ version[t][n].review \in {"pending", "reviewing"} /\ row.status = StatusFor(x.review)
            \/ x.review = version[t][n].review /\ row.status = role[t].status
  BY <1>6, <1>8, <1>9
<1>12. /\ x.review # "none" /\ version[t][n].review # "none"
       /\ x.review \notin {"pending", "reviewing"}
  BY <1>6, <1>8
<1> QED BY <1>4, <1>5, <1>7, <1>8, <1>9, <1>10, <1>11, <1>12, OneVersion
-----------------------------------------------------------------------------
LEMMA RoleMoves ==
    ASSUME RoleInv, RoleNext
    PROVE  RoleInv' /\ FinalStep
<1>1. ASSUME NEW t \in Role, RoleStep(t) PROVE RoleInv' /\ FinalStep
  <2>1. ASSUME NEW a \in Bearer, BearRole(a, t) PROVE RoleInv' /\ FinalStep
    BY <2>1, RoleStays DEF BearRole, RoleInv
  <2> QED BY <1>1, <2>1, CreateRoleKeeps, EditKeeps, PublishKeeps, StatusKeeps, AdminKeeps DEF RoleStep
<1>2. ASSUME NEW r \in Reviewer, NEW t \in Role, NEW n \in VersionNo, ReviewStep(r, t, n)
      PROVE  RoleInv' /\ FinalStep
  BY <1>2, ClaimReviewKeeps, CompleteReviewKeeps, SummaryKeeps DEF ReviewStep
<1>3. ASSUME NEW r \in Reviewer, LoseReview(r) PROVE RoleInv' /\ FinalStep
  <2>1. NoClaim \in RoleClaim
    BY DEF NoClaim, RoleClaim
  <2>2. reviewer' \in [Reviewer -> RoleClaim]
    BY <1>3, <2>1 DEF LoseReview, RoleInv
  <2> QED BY <1>3, <2>2, RoleStays DEF LoseReview, RoleInv
<1> QED BY <1>1, <1>2, <1>3, EraseKeeps DEF RoleNext

LEMMA RoleStart == RoleInit => RoleInv
<1> SUFFICES ASSUME RoleInit PROVE RoleInv
  OBVIOUS
<1>1. NoRole \in RoleRow /\ NoRole.status = "none" /\ NoRole.activated = FALSE
  BY DEF NoRole, RoleRow
<1>2. /\ NoVersion \in VersionRow /\ NoVersion.review = "none" /\ NoVersion.published = FALSE
      /\ NoVersion.edit = "unavailable"
  BY DEF NoVersion, VersionRow
<1>3. NoClaim \in RoleClaim
  BY DEF NoClaim, RoleClaim
<1>4. /\ role \in [Role -> RoleRow] /\ version \in [Role -> [VersionNo -> VersionRow]]
      /\ reviewer \in [Reviewer -> RoleClaim] /\ erasing \subseteq Role
  BY <1>1, <1>2, <1>3 DEF RoleInit
<1>5. ASSUME NEW t \in Role PROVE Mirrors(role[t], version[t])
  <2>1. role[t] = NoRole /\ \A n \in VersionNo : version[t][n] = NoVersion
    BY DEF RoleInit
  <2> QED BY <1>1, <1>2, <2>1 DEF Mirrors
<1> QED BY <1>4, <1>5 DEF RoleInv

LEMMA RoleShows == RoleInv => RoleTypeOK /\ StatusMirrorsVersions
<1> SUFFICES ASSUME RoleInv PROVE RoleTypeOK /\ StatusMirrorsVersions
  OBVIOUS
<1>1. RoleTypeOK
  <2>1. \A r \in Reviewer : reviewer[r].on \subseteq Role \X VersionNo
    BY DEF RoleInv, RoleClaim
  <2>2. erasing \subseteq Role
    BY DEF RoleInv
  <2>3. \A t \in Role : role[t].status \in {"none", "pending_review", "approved", "rejected", "active",
                                            "disabled_creator", "disabled_admin", "deleted"}
    BY RoleTypes DEF RoleRow
  <2>4. \A t \in Role : \A n \in VersionNo :
            /\ version[t][n].review \in {"none", "pending", "reviewing", "passed", "rejected"}
            /\ version[t][n].edit \in {"unavailable", "available", "reviewing", "accepted", "rejected"}
            /\ version[t][n].summary \in {"none", "generated", "edited"}
    BY RoleTypes DEF VersionRow
  <2> QED BY <2>1, <2>2, <2>3, <2>4 DEF RoleTypeOK
<1>2. ASSUME NEW t \in Live
      PROVE  /\ Cardinality(InReview(t)) <= 1
             /\ Cardinality(PublishedOf(t)) = (IF role[t].activated THEN 1 ELSE 0)
             /\ role[t].status # "disabled_admin" =>
                    IF role[t].activated THEN role[t].status \in {"active", "disabled_creator"}
                    ELSE role[t].status = StatusFor(version[t][LatestOf(t)].review)
  <2>1. t \in Role /\ role[t].status \notin {"none", "deleted"} /\ Mirrors(role[t], version[t])
    BY RoleTypes DEF Live
  <2>2. LatestOf(t) \in VersionNo /\ IsLatest(version[t], LatestOf(t))
        /\ \A n \in VersionNo : IsLatest(version[t], n) => n = LatestOf(t)
    BY <2>1, LatestIsThere
  <2>3. \A m, n \in InReview(t) : m = n
    BY <2>1, <2>2 DEF InReview, Written, Mirrors
  <2>4. CASE role[t].activated
    <3>1. PICK n \in VersionNo : version[t][n].published
      BY <2>1, <2>4 DEF Mirrors
    <3>2. PublishedOf(t) = {n}
      BY <2>1, <3>1 DEF PublishedOf, Written, Mirrors
    <3>3. Cardinality(PublishedOf(t)) = 1
      BY <3>2, FS_Singleton
    <3> QED BY <2>1, <2>3, <2>4, <3>3, AtMostOne DEF Mirrors
  <2>5. CASE ~role[t].activated
    <3>1. PublishedOf(t) = {}
      BY <2>1, <2>5 DEF PublishedOf, Written, Mirrors
    <3>2. Cardinality(PublishedOf(t)) = 0
      BY <3>1, FS_EmptySet
    <3> QED BY <2>1, <2>2, <2>3, <2>5, <3>2, AtMostOne DEF Mirrors
  <2> QED BY <2>4, <2>5
<1> QED BY <1>1, <1>2 DEF StatusMirrorsVersions

\* What a reader of a template relies on: it shows the state of its latest
\* version, serves exactly one version that has passed, and what was published
\* stays as it is.
THEOREM RolePublishingIsSound == RoleSpec => PublishingIsSound
<1>1. RoleInit => RoleInv
  BY RoleStart
<1>2. RoleInv /\ UNCHANGED roleVars => RoleInv'
  BY RoleStays DEF roleVars, RoleInv
<1>3. RoleInv /\ [RoleNext]_roleVars => RoleInv'
  BY <1>2, RoleMoves
<1>4. RoleInv /\ [RoleNext]_roleVars => [FinalStep]_roleVars
  BY RoleMoves
<1>5. RoleSpec => [][FinalStep]_roleVars
  BY <1>1, <1>3, <1>4, PTL DEF RoleSpec
<1>6. RoleSpec => PublishedIsFinal
  BY <1>5 DEF FinalStep, PublishedIsFinal
<1>7. RoleSpec => []RoleTypeOK /\ []StatusMirrorsVersions
  BY <1>1, <1>3, RoleShows, PTL DEF RoleSpec
<1> QED BY <1>6, <1>7 DEF PublishingIsSound

-----------------------------------------------------------------------------
(***************************************************************************)
(* The person's profile: UserMeta.  One scheduler refreshes; what it read  *)
(* may be old, but nobody else takes a person back to the start.           *)
(***************************************************************************)
Stage == {"icebreaking", "acquainted", "deep_bond"}
MetaRow == [stage : Stage, source : {"auto", "manual"}, typed : BOOLEAN, due : BOOLEAN]
RefreshRow == [at : {"idle", "companion", "stage", "judge", "snapshot"}, seen : MetaRow]

MetaInv ==
    /\ meta \in MetaRow /\ refresh \in RefreshRow
    /\ chatter \in [Chatter -> {"idle", "acquainted"}]
    /\ night \in 0 .. MaxNights /\ daily \subseteq 1 .. MaxNights
    /\ refresh.at # "idle" => night > 0
    /\ refresh.seen.stage # "icebreaking" => meta.stage # "icebreaking"

\* What a step may write for a stage.
Onward(m, n) == m.stage = "icebreaking" => n.stage # "deep_bond"

LEMMA RankOfStage ==
    /\ Rank("icebreaking") = 1 /\ Rank("acquainted") = 2 /\ Rank("deep_bond") = 3
<1>1. DOMAIN Stages = {1, 2, 3}
  BY DEF Stages
<1>2. Stages[1] = "icebreaking" /\ Stages[2] = "acquainted" /\ Stages[3] = "deep_bond"
  BY DEF Stages
<1>3. \A s, k : k \in {1, 2, 3} /\ Stages[k] = s /\ (\A j \in {1, 2, 3} : Stages[j] = s => j = k)
          => Rank(s) = k
  BY <1>1, Zenon DEF Rank
<1> QED BY <1>2, <1>3

LEMMA OnwardIsOneRank ==
    ASSUME NEW m \in MetaRow, NEW n \in MetaRow, Onward(m, n)
    PROVE  Rank(n.stage) <= Rank(m.stage) + 1
<1>1. m.stage \in Stage /\ n.stage \in Stage
  BY DEF MetaRow
<1> QED BY <1>1, RankOfStage DEF Stage, Onward

LEMMA StageOfCount ==
    ASSUME NEW s \in Stage
    PROVE  /\ StageByCount(s) \in Stage
           /\ StageByCount(s) # s => StageByCount(s) = "acquainted"
           /\ StageByCount(s) = "deep_bond" => s = "deep_bond"
  BY DEF StageByCount, Stage

LEMMA MetaStarts == MetaInit => MetaInv
<1> SUFFICES ASSUME MetaInit PROVE MetaInv
  OBVIOUS
<1>1. NoMeta \in MetaRow /\ NoMeta.stage = "icebreaking"
  BY DEF NoMeta, MetaRow, Stage
<1>2. NotRefreshing \in RefreshRow /\ NotRefreshing.at = "idle"
      /\ NotRefreshing.seen.stage = "icebreaking"
  BY <1>1 DEF NotRefreshing, RefreshRow
<1> QED BY <1>1, <1>2, MetaBounds DEF MetaInit, MetaInv

LEMMA MetaMoves ==
    ASSUME MetaInv, [MetaNext]_metaVars
    PROVE  MetaInv' /\ Onward(meta, meta')
<1> USE DEF MetaInv
<1>1. CASE Talk
  BY <1>1 DEF Talk, Onward
<1>2. ASSUME NEW c \in Chatter, ReadStageAfterTurn(c)
      PROVE  MetaInv' /\ Onward(meta, meta')
  <2>1. meta.stage \in Stage
    BY DEF MetaRow
  <2>2. StageByCount(meta.stage) = "acquainted"
    BY <1>2, <2>1, StageOfCount DEF ReadStageAfterTurn
  <2> QED BY <1>2, <2>2 DEF ReadStageAfterTurn, Onward
<1>3. ASSUME NEW c \in Chatter, WriteStageAfterTurn(c)
      PROVE  MetaInv' /\ Onward(meta, meta')
  <2>1. chatter[c] = "acquainted"
    BY <1>3 DEF WriteStageAfterTurn
  <2>2. meta' \in MetaRow /\ meta'.stage = "acquainted"
    BY <1>3, <2>1 DEF WriteStageAfterTurn, MetaRow, Stage
  <2> QED BY <1>3, <2>2 DEF WriteStageAfterTurn, Onward
<1>4. CASE SetManualType
  <2>1. meta' \in MetaRow /\ meta'.stage = meta.stage
    BY <1>4 DEF SetManualType, MetaRow
  <2> QED BY <1>4, <2>1 DEF SetManualType, Onward
<1>5. CASE TypeFallsDue
  <2>1. meta' \in MetaRow /\ meta'.stage = meta.stage
    BY <1>5 DEF TypeFallsDue, MetaRow
  <2> QED BY <1>5, <2>1 DEF TypeFallsDue, Onward
<1>6. CASE BeginRefresh
  <2>1. refresh' \in RefreshRow /\ refresh'.seen = meta
    BY <1>6 DEF BeginRefresh, RefreshRow
  <2>2. night' \in 0 .. MaxNights /\ night' > 0
    BY <1>6, MetaBounds DEF BeginRefresh
  <2> QED BY <1>6, <2>1, <2>2 DEF BeginRefresh, Onward
<1>7. CASE UpsertMeta
  <2>1. PICK m \in Refreshed : meta' = [m EXCEPT !.stage = meta.stage]
    BY <1>7 DEF UpsertMeta
  <2>2. m \in MetaRow
    BY DEF Refreshed, RefreshRow, MetaRow
  <2>3. meta' \in MetaRow /\ meta'.stage = meta.stage
    BY <2>1, <2>2 DEF MetaRow
  <2>4. refresh' \in RefreshRow /\ refresh'.seen = refresh.seen /\ refresh.at = "companion"
    BY <1>7 DEF UpsertMeta, RefreshRow
  <2> QED BY <1>7, <2>3, <2>4 DEF UpsertMeta, Onward
<1>8. CASE WriteDailyStage
  <2>1. refresh.seen.stage \in Stage
    BY DEF RefreshRow, MetaRow
  <2> DEFINE s == StageByCount(refresh.seen.stage)
  <2>2. s \in Stage /\ (s = "deep_bond" => refresh.seen.stage = "deep_bond")
    BY <2>1, StageOfCount
  <2>3. meta' \in MetaRow /\ meta'.stage = s
    BY <1>8, <2>2 DEF WriteDailyStage, MetaRow
  <2>4. [refresh.seen EXCEPT !.stage = s] \in MetaRow
        /\ [refresh.seen EXCEPT !.stage = s].stage = s
    BY <2>2 DEF RefreshRow, MetaRow
  <2>5. refresh' \in RefreshRow /\ refresh'.seen.stage = s /\ refresh.at = "stage"
    BY <1>8, <2>4 DEF WriteDailyStage, RefreshRow
  <2>6. Onward(meta, meta')
    BY <2>2, <2>3 DEF Onward
  <2> QED BY <1>8, <2>3, <2>5, <2>6 DEF WriteDailyStage
<1>9. CASE WriteJudgedStage
  <2>1. refresh.seen.stage \in Stage
    BY DEF RefreshRow, MetaRow
  <2>2. PICK said \in Stage :
            /\ meta' = [meta EXCEPT !.stage = MergedStage(refresh.seen.stage, said)]
            /\ refresh' = [at |-> "snapshot",
                           seen |-> [refresh.seen EXCEPT !.stage = MergedStage(refresh.seen.stage, said)]]
    BY <1>9 DEF WriteJudgedStage, Stage
  <2> DEFINE s == MergedStage(refresh.seen.stage, said)
  <2>3. s \in Stage /\ (s = "deep_bond" => refresh.seen.stage # "icebreaking")
    BY <2>1 DEF MergedStage, Stage
  <2>4. meta' \in MetaRow /\ meta'.stage = s
    BY <2>2, <2>3 DEF MetaRow
  <2>5. [refresh.seen EXCEPT !.stage = s] \in MetaRow
        /\ [refresh.seen EXCEPT !.stage = s].stage = s
    BY <2>3 DEF RefreshRow, MetaRow
  <2>6. refresh' \in RefreshRow /\ refresh'.seen.stage = s /\ refresh.at = "judge"
    BY <1>9, <2>2, <2>5 DEF WriteJudgedStage, RefreshRow
  <2>7. Onward(meta, meta')
    BY <2>3, <2>4 DEF Onward
  <2> QED BY <1>9, <2>4, <2>6, <2>7 DEF WriteJudgedStage
<1>10. CASE JudgeFails
  BY <1>10 DEF JudgeFails, RefreshRow, Onward
<1>11. NotRefreshing \in RefreshRow /\ NotRefreshing.at = "idle"
       /\ NotRefreshing.seen.stage = "icebreaking"
  BY DEF NotRefreshing, NoMeta, MetaRow, RefreshRow, Stage
<1>12. CASE InsertDaily
  <2>1. night \in 1 .. MaxNights
    BY <1>12, MetaBounds DEF InsertDaily
  <2> QED BY <1>11, <1>12, <2>1 DEF InsertDaily, Onward
<1>13. CASE RefreshAborts
  BY <1>11, <1>13 DEF RefreshAborts, Onward
<1>14. CASE UNCHANGED metaVars
  BY <1>14 DEF metaVars, Onward
<1> QED BY <1>1, <1>2, <1>3, <1>4, <1>5, <1>6, <1>7, <1>8, <1>9, <1>10, <1>12, <1>13, <1>14
        DEF MetaNext

LEMMA MetaShows == MetaInv => MetaTypeOK
  BY DEF MetaInv, MetaTypeOK, MetaRow, RefreshRow, Stage

\* Whatever the model says and whoever writes meanwhile, nobody becomes a close
\* friend without having been acquainted: the refresh works with what it read at
\* the start, but nothing it may find after that is older.
THEOREM StagesAreNotSkipped == MetaSpec => NoStageSkipped
<1> DEFINE Step == Rank(meta'.stage) <= Rank(meta.stage) + 1
<1>1. MetaInv /\ [MetaNext]_metaVars => MetaInv'
  BY MetaMoves
<1>2. ASSUME MetaInv, [MetaNext]_metaVars
      PROVE  Step
  <2>1. MetaInv' /\ Onward(meta, meta')
    BY <1>2, MetaMoves
  <2>2. meta \in MetaRow /\ meta' \in MetaRow
    BY <1>2, <2>1 DEF MetaInv
  <2> QED BY <2>1, <2>2, OnwardIsOneRank
<1>3. MetaSpec => [][Step]_metaVars
  <2> HIDE DEF Step
  <2> QED BY <1>1, <1>2, MetaStarts, PTL DEF MetaSpec
<1>4. MetaSpec => []MetaTypeOK
  BY <1>1, MetaStarts, MetaShows, PTL DEF MetaSpec
<1> QED BY <1>3, <1>4 DEF NoStageSkipped

-----------------------------------------------------------------------------
(***************************************************************************)
(* Proactive messages: Outbound.  Every claim of a message is counted in   *)
(* its row; who may hand it to the gateway has one of those claims, and    *)
(* hands it over once.                                                     *)
(***************************************************************************)
DutyRow == [status : {"none", "pending", "sending", "sent", "failed", "cancelled"},
            period : 1 .. MaxPeriods + 1]
RunRow == [status : {"none", "running", "enqueued", "sent", "skipped", "failed"},
           attempts : 0 .. MaxRunAttempts]
MessageRow == [status : {"none", "pending", "sending", "sent", "failed", "cancelled"},
               attempts : 0 .. MaxNodeClaims, claim : {"none", "fresh", "stale"}, stale : Nat]
Outcome == {"none", "pending", "sending", "sent", "failed", "cancelled", "stale", "error", "unsent"}
ErrandRow == [pc : {"idle", "claimRun", "touch", "send", "gateway", "record", "settle", "advance"},
              duty : SUBSET Duty, period : 0 .. MaxPeriods, outcome : Outcome, tried : BOOLEAN]
HoldRow == [pc : {"idle", "send", "reportSent", "reportFailed"},
            duty : SUBSET Duty, period : 0 .. MaxPeriods]

OutboundTypes ==
    /\ duty \in [Duty -> DutyRow] /\ asked \subseteq Duty
    /\ content \in [Duty -> [Period -> RunRow]]
    /\ out \in [Duty -> [Period -> MessageRow]]
    /\ delivered \in [Duty -> [Period -> Nat]]
    /\ sched \in [Scheduler -> ErrandRow] /\ agent \in [Agent -> HoldRow]

\* A process at work is about one duty and one period.
About(r, d, p) == r.duty = {d} /\ r.period = p

\* Who is about to hand the message to the gateway.
Handing(d, p) == {s \in Scheduler : sched[s].pc = "gateway" /\ About(sched[s], d, p)}
NodeHanding(d, p) == {a \in Agent : agent[a].pc = "send" /\ About(agent[a], d, p)}

\* What was delivered and what may still be has a claim of its own, and every claim
\* but the first was of a row whose claim had gone stale.
ClaimsCounted(d, p) ==
    /\ IsFiniteSet(Handing(d, p)) /\ IsFiniteSet(NodeHanding(d, p))
    /\ delivered[d][p] + Cardinality(Handing(d, p)) + Cardinality(NodeHanding(d, p))
         <= out[d][p].attempts
    /\ out[d][p].attempts <= 1 + out[d][p].stale
    /\ out[d][p].status \in {"none", "pending"} => out[d][p].attempts = 0

\* What counts as sent, wherever it is written, was delivered.
MessageTrue(d, p) ==
    /\ out[d][p].status = "sent" \/ content[d][p].status = "sent" => delivered[d][p] > 0
    /\ content[d][p].status = "none" => content[d][p].attempts = 0

\* A commitment has one period.
DutyTrue(d) ==
    KindOf[d] = "commitment" =>
        /\ duty[d].period = 1
        /\ duty[d].status = "sent" => \A p \in Period : p = 1 => delivered[d][p] > 0

ErrandTrue(r) ==
    /\ r.pc # "idle" => \E d \in Duty, p \in Period : About(r, d, p)
    /\ \A d \in Duty, p \in Period : About(r, d, p) =>
           /\ r.outcome = "sent" => delivered[d][p] > 0
           /\ r.pc \in {"claimRun", "advance"} => KindOf[d] = "dynamic"
           /\ KindOf[d] = "commitment" => p = 1
           /\ r.pc = "record" => r.outcome \in {"sent", "failed"}

HoldTrue(r) ==
    /\ r.pc # "idle" => \E d \in Duty, p \in Period : About(r, d, p)
    /\ \A d \in Duty, p \in Period : About(r, d, p) /\ r.pc = "reportSent" => delivered[d][p] > 0

OutboundInv ==
    /\ OutboundTypes
    /\ \A d \in Duty : DutyTrue(d)
    /\ \A d \in Duty, p \in Period : MessageTrue(d, p) /\ ClaimsCounted(d, p)
    /\ \A s \in Scheduler : ErrandTrue(sched[s])
    /\ \A a \in Agent : HoldTrue(agent[a])

(* What a step does to one row. *)

LEMMA NestedUpdate ==
    ASSUME NEW S, NEW f \in [Duty -> [Period -> S]], NEW d \in Duty, NEW p \in Period, NEW row \in S
    PROVE  /\ [f EXCEPT ![d][p] = row] \in [Duty -> [Period -> S]]
           /\ [f EXCEPT ![d][p] = row][d][p] = row
           /\ \A e \in Duty, q \in Period : e # d \/ q # p => [f EXCEPT ![d][p] = row][e][q] = f[e][q]
  OBVIOUS

\* The other rows stay.
OutAt(d, p) ==
    /\ out' \in [Duty -> [Period -> MessageRow]]
    /\ \A e \in Duty, q \in Period : e # d \/ q # p => out'[e][q] = out[e][q]
DeliveredAt(d, p) ==
    /\ delivered' \in [Duty -> [Period -> Nat]]
    /\ \A e \in Duty, q \in Period : e # d \/ q # p => delivered'[e][q] = delivered[e][q]
ContentAt(d, p) ==
    /\ content' \in [Duty -> [Period -> RunRow]]
    /\ \A e \in Duty, q \in Period : e # d \/ q # p => content'[e][q] = content[e][q]
DutyAt(d) ==
    /\ duty' \in [Duty -> DutyRow] /\ \A e \in Duty \ {d} : duty'[e] = duty[e]
SchedAt(s) ==
    /\ sched' \in [Scheduler -> ErrandRow] /\ \A t \in Scheduler \ {s} : sched'[t] = sched[t]
AgentAt(a) ==
    /\ agent' \in [Agent -> HoldRow] /\ \A b \in Agent \ {a} : agent'[b] = agent[b]

\* The same errand, further on.
Onto(s, pc, o) ==
    /\ SchedAt(s)
    /\ sched'[s].pc = pc /\ sched'[s].outcome = o
    /\ sched'[s].duty = sched[s].duty /\ sched'[s].period = sched[s].period

LEMMA GotoMoves ==
    ASSUME sched \in [Scheduler -> ErrandRow], NEW s \in Scheduler,
           NEW pc \in {"idle", "claimRun", "touch", "send", "gateway", "record", "settle", "advance"}
    PROVE  /\ Goto(s, pc) => Onto(s, pc, sched[s].outcome)
           /\ \A o \in Outcome : GotoWith(s, pc, o) => Onto(s, pc, o)
<1> PICK old \in ErrandRow : old = sched[s]
  OBVIOUS
<1>1. ASSUME NEW o \in Outcome
      PROVE  /\ [old EXCEPT !.pc = pc, !.outcome = o] \in ErrandRow
             /\ [old EXCEPT !.pc = pc] \in ErrandRow
  BY DEF ErrandRow
<1>2. ASSUME NEW o \in Outcome, GotoWith(s, pc, o)
      PROVE  Onto(s, pc, o)
  <2>1. PICK r \in ErrandRow : r = [old EXCEPT !.pc = pc, !.outcome = o]
    BY <1>1
  <2>2. sched' = [sched EXCEPT ![s] = r]
    BY <1>2, <2>1 DEF GotoWith
  <2>3. r.pc = pc /\ r.outcome = o /\ r.duty = old.duty /\ r.period = old.period
    BY <2>1 DEF ErrandRow
  <2> QED BY <2>2, <2>3 DEF Onto, SchedAt
<1>3. ASSUME Goto(s, pc)
      PROVE  Onto(s, pc, old.outcome)
  <2>0. old.outcome \in Outcome
    BY DEF ErrandRow
  <2>1. PICK r \in ErrandRow : r = [old EXCEPT !.pc = pc]
    BY <1>1, <2>0
  <2>2. sched' = [sched EXCEPT ![s] = r]
    BY <1>3, <2>1 DEF Goto
  <2>3. r.pc = pc /\ r.outcome = old.outcome /\ r.duty = old.duty /\ r.period = old.period
    BY <2>1 DEF ErrandRow
  <2> QED BY <2>2, <2>3 DEF Onto, SchedAt
<1> QED BY <1>2, <1>3

LEMMA RestMoves ==
    ASSUME sched \in [Scheduler -> ErrandRow], NEW s \in Scheduler, Rest(s)
    PROVE  SchedAt(s) /\ sched'[s] = NoErrand
<1>1. NoErrand \in ErrandRow
  BY OutboundBounds DEF NoErrand, ErrandRow, Outcome
<1> QED BY <1>1 DEF Rest, SchedAt

LEMMA NoErrandIsTrue == ErrandTrue(NoErrand) /\ NoErrand.pc = "idle"
  BY DEF ErrandTrue, NoErrand, About

LEMMA DutyIsOne ==
    ASSUME NEW s \in Scheduler, NEW d, NEW p, About(sched[s], d, p)
    PROVE  DutyOf(s) = d /\ sched[s].period = p
  BY DEF DutyOf, About

LEMMA ErrandStays ==
    ASSUME NEW s \in Scheduler, NEW pc, NEW o, Onto(s, pc, o), ErrandTrue(sched[s]), OutboundTypes,
           sched[s].pc # "idle", pc # "record", UNCHANGED delivered,
           \A d \in Duty, p \in Period : About(sched[s], d, p) =>
               /\ o = "sent" => delivered[d][p] > 0
               /\ pc \in {"claimRun", "advance"} => KindOf[d] = "dynamic"
    PROVE  ErrandTrue(sched[s])'
  BY DEF ErrandTrue, Onto, About

\* Claims are counted as before where nobody new hands the message over.
RowKeepsCount(d, p) ==
    /\ out'[d][p].attempts = out[d][p].attempts
    /\ out[d][p].attempts <= 1 + out'[d][p].stale
    /\ out'[d][p].status \in {"none", "pending"} => out[d][p].attempts = 0

LEMMA CountsKept ==
    ASSUME NEW d \in Duty, NEW p \in Period, OutboundTypes, OutboundTypes', ClaimsCounted(d, p),
           RowKeepsCount(d, p), delivered'[d][p] = delivered[d][p],
           Handing(d, p)' \subseteq Handing(d, p), NodeHanding(d, p)' \subseteq NodeHanding(d, p)
    PROVE  ClaimsCounted(d, p)'
<1>1. IsFiniteSet(Handing(d, p)') /\ Cardinality(Handing(d, p)') <= Cardinality(Handing(d, p))
  BY FS_Subset DEF ClaimsCounted
<1>2. IsFiniteSet(NodeHanding(d, p)') /\ Cardinality(NodeHanding(d, p)') <= Cardinality(NodeHanding(d, p))
  BY FS_Subset DEF ClaimsCounted
<1>3. /\ Cardinality(Handing(d, p)) \in Nat /\ Cardinality(NodeHanding(d, p)) \in Nat
      /\ Cardinality(Handing(d, p)') \in Nat /\ Cardinality(NodeHanding(d, p)') \in Nat
  BY <1>1, <1>2, FS_CardinalityType DEF ClaimsCounted
<1>4. delivered[d][p] \in Nat /\ out[d][p] \in MessageRow
  BY DEF OutboundTypes
<1> QED BY <1>1, <1>2, <1>3, <1>4 DEF ClaimsCounted, RowKeepsCount, MessageRow

LEMMA RowUnchanged ==
    ASSUME NEW d \in Duty, NEW p \in Period, ClaimsCounted(d, p), out'[d][p] = out[d][p]
    PROVE  RowKeepsCount(d, p)
  BY DEF ClaimsCounted, RowKeepsCount

LEMMA HandingShrinks ==
    ASSUME NEW s \in Scheduler, SchedAt(s), sched'[s].pc # "gateway", NEW d, NEW p
    PROVE  Handing(d, p)' \subseteq Handing(d, p)
  BY DEF Handing, SchedAt, About

LEMMA NodeHandingShrinks ==
    ASSUME NEW a \in Agent, AgentAt(a), agent'[a].pc # "send", NEW d, NEW p
    PROVE  NodeHanding(d, p)' \subseteq NodeHanding(d, p)
  BY DEF NodeHanding, AgentAt, About

\* A scheduler's step that delivers nothing and takes no message to the gateway.
LEMMA SchedulerWrites ==
    ASSUME OutboundInv, NEW s \in Scheduler, SchedAt(s), sched'[s].pc # "gateway",
           UNCHANGED <<delivered, agent, asked>>,
           duty' \in [Duty -> DutyRow], content' \in [Duty -> [Period -> RunRow]],
           out' \in [Duty -> [Period -> MessageRow]],
           ErrandTrue(sched[s])', \A d \in Duty : DutyTrue(d)',
           \A d \in Duty, p \in Period : MessageTrue(d, p)' /\ RowKeepsCount(d, p)
    PROVE  OutboundInv'
<1>1. OutboundTypes'
  BY DEF OutboundInv, OutboundTypes, SchedAt
<1>2. ASSUME NEW d \in Duty, NEW p \in Period
      PROVE  ClaimsCounted(d, p)'
  <2>1. Handing(d, p)' \subseteq Handing(d, p)
    BY HandingShrinks
  <2>2. NodeHanding(d, p)' = NodeHanding(d, p)
    BY DEF NodeHanding
  <2> QED BY <1>1, <2>1, <2>2, CountsKept DEF OutboundInv
<1>3. ASSUME NEW t \in Scheduler
      PROVE  ErrandTrue(sched[t])'
  BY DEF OutboundInv, SchedAt, ErrandTrue
<1>4. ASSUME NEW a \in Agent
      PROVE  HoldTrue(agent[a])'
  BY DEF OutboundInv, HoldTrue
<1> QED BY <1>1, <1>2, <1>3, <1>4 DEF OutboundInv

\* A step of the person or the model, which touches duties alone.
LEMMA DutyWrites ==
    ASSUME OutboundInv, UNCHANGED <<content, out, delivered, sched, agent>>,
           duty' \in [Duty -> DutyRow], asked' \subseteq Duty, \A d \in Duty : DutyTrue(d)'
    PROVE  OutboundInv'
<1>1. OutboundTypes'
  BY DEF OutboundInv, OutboundTypes
<1>2. ASSUME NEW d \in Duty, NEW p \in Period
      PROVE  ClaimsCounted(d, p)' /\ MessageTrue(d, p)'
  <2>1. Handing(d, p)' = Handing(d, p) /\ NodeHanding(d, p)' = NodeHanding(d, p)
    BY DEF Handing, NodeHanding
  <2> QED BY <2>1 DEF OutboundInv, ClaimsCounted, MessageTrue
<1>3. \A s \in Scheduler : ErrandTrue(sched[s])'
  BY DEF OutboundInv, ErrandTrue
<1>4. \A a \in Agent : HoldTrue(agent[a])'
  BY DEF OutboundInv, HoldTrue
<1> QED BY <1>1, <1>2, <1>3, <1>4 DEF OutboundInv

LEMMA PeopleMove ==
    ASSUME OutboundInv, NEW d \in Duty, CreateDuty(d) \/ AskCancel(d) \/ CancelReminder(d)
    PROVE  OutboundInv'
<1> PICK old \in DutyRow : old = duty[d]
  BY DEF OutboundInv, OutboundTypes
<1>1. duty \in [Duty -> DutyRow] /\ asked \subseteq Duty /\ \A e \in Duty : DutyTrue(e)
  BY DEF OutboundInv, OutboundTypes
<1>2. CASE CreateDuty(d)
  <2>1. [status |-> "pending", period |-> 1] \in DutyRow
    BY OutboundBounds DEF DutyRow
  <2>2. DutyAt(d) /\ duty'[d].status = "pending" /\ duty'[d].period = 1
    BY <1>1, <1>2, <2>1 DEF CreateDuty, DutyAt
  <2>3. \A e \in Duty : DutyTrue(e)'
    BY <1>1, <1>2, <2>2 DEF DutyTrue, DutyAt, CreateDuty
  <2> QED BY <1>1, <1>2, <2>2, <2>3, DutyWrites DEF CreateDuty, DutyAt
<1>3. CASE AskCancel(d)
  <2>1. \A e \in Duty : DutyTrue(e)'
    BY <1>1, <1>3 DEF DutyTrue, AskCancel
  <2> QED BY <1>1, <1>3, <2>1, DutyWrites DEF AskCancel
<1>4. CASE CancelReminder(d)
  <2>1. PICK r \in DutyRow : r = [old EXCEPT !.status = "cancelled"]
    BY DEF DutyRow
  <2>2. duty' = [duty EXCEPT ![d] = r]
    BY <1>4, <2>1 DEF CancelReminder
  <2>3. DutyAt(d) /\ duty'[d].status = "cancelled" /\ duty'[d].period = duty[d].period
    BY <1>1, <2>1, <2>2 DEF DutyRow, DutyAt
  <2>4. \A e \in Duty : DutyTrue(e)'
    BY <1>1, <1>4, <2>3 DEF DutyTrue, DutyAt, CancelReminder
  <2> QED BY <1>1, <1>4, <2>3, <2>4, DutyWrites DEF CancelReminder, DutyAt
<1> QED BY <1>2, <1>3, <1>4

\* A scheduler's step that leaves the duties, the runs or the messages alone.
LEMMA RowsStay ==
    ASSUME OutboundInv, UNCHANGED delivered
    PROVE  /\ UNCHANGED duty => \A d \in Duty : DutyTrue(d)'
           /\ UNCHANGED <<out, content>> => \A d \in Duty, p \in Period : MessageTrue(d, p)'
           /\ UNCHANGED out => \A d \in Duty, p \in Period : RowKeepsCount(d, p)
<1>1. UNCHANGED duty => \A d \in Duty : DutyTrue(d)'
  BY DEF OutboundInv, DutyTrue
<1>2. UNCHANGED <<out, content>> => \A d \in Duty, p \in Period : MessageTrue(d, p)'
  BY DEF OutboundInv, MessageTrue
<1>3. UNCHANGED out => \A d \in Duty, p \in Period : RowKeepsCount(d, p)
  BY RowUnchanged DEF OutboundInv
<1> QED BY <1>1, <1>2, <1>3

LEMMA ClaimDueKeeps ==
    ASSUME OutboundInv, NEW s \in Scheduler, NEW d \in Duty, ClaimDue(s, d)
    PROVE  OutboundInv'
<1> PICK old \in DutyRow : old = duty[d]
  BY DEF OutboundInv, OutboundTypes
<1>1. OutboundTypes /\ \A e \in Duty : DutyTrue(e)
  BY DEF OutboundInv
<1>2. PICK pc \in {"claimRun", "touch"} :
          /\ pc = IF KindOf[d] = "dynamic" THEN "claimRun" ELSE "touch"
          /\ pc = "claimRun" => KindOf[d] = "dynamic"
  OBVIOUS
<1> DEFINE r == [NoErrand EXCEPT !.pc = pc, !.duty = {d}, !.period = old.period]
<1>3. old.period \in Period /\ old.status = "pending"
  BY <1>1 DEF ClaimDue, DueNow
<1>4. /\ r \in ErrandRow /\ About(r, d, old.period) /\ r.outcome = "none"
      /\ r.pc = "claimRun" => KindOf[d] = "dynamic"
      /\ r.pc \notin {"gateway", "advance", "record"}
  <2>1. old.period \in 0 .. MaxPeriods
    BY <1>3, OutboundBounds DEF Period
  <2>0. NoErrand \in ErrandRow /\ NoErrand.outcome = "none"
    BY OutboundBounds DEF NoErrand, ErrandRow, Outcome
  <2>2. r \in ErrandRow /\ r.outcome = "none" /\ r.pc = pc
    BY <2>0, <2>1 DEF ErrandRow
  <2>3. About(r, d, old.period)
    BY <2>0, <2>1 DEF About, ErrandRow
  <2>4. r.pc = pc
    BY <2>2
  <2>5. r.pc \notin {"gateway", "advance", "record"} /\ (r.pc = "claimRun" => KindOf[d] = "dynamic")
    <3> HIDE DEF r
    <3> QED BY <1>2, <2>4
  <2> QED BY <2>2, <2>3, <2>5
<1>5. sched' = [sched EXCEPT ![s] = r]
  <2>2. sched' = [sched EXCEPT ![s] =
                   [NoErrand EXCEPT !.pc = IF KindOf[d] = "dynamic" THEN "claimRun" ELSE "touch",
                                    !.duty = {d}, !.period = duty[d].period]]
    BY DEF ClaimDue
  <2>3. sched' = [sched EXCEPT ![s] = [NoErrand EXCEPT !.pc = pc, !.duty = {d}, !.period = old.period]]
    BY <1>2, <2>2, Zenon
  <2> QED BY <2>3
<1> HIDE DEF r
<1>6. SchedAt(s) /\ sched'[s] = r
  BY <1>1, <1>4, <1>5 DEF SchedAt, OutboundTypes
<1>7. PICK new \in DutyRow : new = [old EXCEPT !.status = "sending"]
  BY DEF DutyRow
<1>8. duty' = [duty EXCEPT ![d] = new]
  BY <1>7 DEF ClaimDue
<1>9. DutyAt(d) /\ duty'[d].status = "sending" /\ duty'[d].period = duty[d].period
  BY <1>1, <1>7, <1>8 DEF DutyRow, DutyAt, OutboundTypes
<1>10. /\ UNCHANGED <<content, out, delivered, agent, asked>>
  BY DEF ClaimDue
<1>11. \A e \in Duty : DutyTrue(e)'
  BY <1>1, <1>9, <1>10 DEF DutyTrue, DutyAt
<1>12. \A e \in Duty, q \in Period : MessageTrue(e, q)' /\ RowKeepsCount(e, q)
  BY <1>10, RowsStay
<1>13. ErrandTrue(r)
  <2>1. r.pc # "advance" /\ r.pc # "record"
    BY <1>4
  <2> QED BY <1>1, <1>3, <1>4, <2>1 DEF ErrandTrue, About, DutyTrue
<1>14. ErrandTrue(sched[s])'
  BY <1>6, <1>10, <1>13 DEF ErrandTrue
<1>15. r.pc # "gateway"
  BY <1>4
<1>16. OutboundTypes
  BY DEF OutboundInv
<1> QED BY <1>6, <1>9, <1>10, <1>11, <1>12, <1>14, <1>15, <1>16, SchedulerWrites DEF DutyAt, OutboundTypes

\* Steps that change nothing but the errand itself.
LEMMA ErrandMoves ==
    ASSUME OutboundInv, NEW s \in Scheduler,
           NEW pc \in {"touch", "send", "settle"}, NEW o \in Outcome \ {"sent"},
           Onto(s, pc, o), sched[s].pc # "idle",
           UNCHANGED <<duty, content, out, delivered, agent, asked>>
    PROVE  OutboundInv'
<1>1. ErrandTrue(sched[s])'
  BY ErrandStays DEF OutboundInv
<1>2. OutboundTypes
  BY DEF OutboundInv
<1>3. SchedAt(s) /\ sched'[s].pc # "gateway"
  BY DEF Onto
<1> QED BY <1>1, <1>2, <1>3, RowsStay, SchedulerWrites DEF OutboundTypes

LEMMA NothingSentKeeps ==
    ASSUME OutboundInv, NEW s \in Scheduler, TouchStale(s) \/ CannotServe(s) \/ EnqueueRaises(s)
    PROVE  OutboundInv'
<1>1. sched \in [Scheduler -> ErrandRow]
  BY DEF OutboundInv, OutboundTypes
<1>2. "stale" \in Outcome /\ "error" \in Outcome
  BY DEF Outcome
<1>3. \E o \in Outcome \ {"sent"} : GotoWith(s, "settle", o) /\ sched[s].pc = "touch"
  <2> HIDE DEF Outcome
  <2>1. GotoWith(s, "settle", "stale") \/ GotoWith(s, "settle", "error")
    BY DEF TouchStale, CannotServe, EnqueueRaises
  <2>2. sched[s].pc = "touch"
    BY DEF TouchStale, CannotServe, EnqueueRaises, Handles
  <2> QED BY <1>2, <2>1, <2>2
<1>4. PICK o \in Outcome \ {"sent"} : Onto(s, "settle", o) /\ sched[s].pc = "touch"
  BY <1>1, <1>3, GotoMoves
<1>5. UNCHANGED <<duty, content, out, delivered, agent, asked>>
  BY DEF TouchStale, CannotServe, EnqueueRaises
<1> QED BY <1>4, <1>5, ErrandMoves

LEMMA SchedulerDiesKeeps ==
    ASSUME OutboundInv, NEW s \in Scheduler, SchedulerDies(s)
    PROVE  OutboundInv'
<1>1. OutboundTypes
  BY DEF OutboundInv
<1>2. SchedAt(s) /\ sched'[s] = NoErrand
  BY <1>1, RestMoves DEF SchedulerDies, OutboundTypes
<1>3. UNCHANGED <<duty, content, out, delivered, agent, asked>>
  BY DEF SchedulerDies
<1>4. ErrandTrue(sched[s])'
  BY <1>2, <1>3, NoErrandIsTrue DEF ErrandTrue
<1>5. sched'[s].pc # "gateway"
  BY <1>2, NoErrandIsTrue
<1> QED BY <1>1, <1>2, <1>3, <1>4, <1>5, RowsStay, SchedulerWrites DEF OutboundTypes

\* What a scheduler at work knows of its errand.
LEMMA SendingNow ==
    ASSUME OutboundInv, NEW s \in Scheduler, sched[s].pc # "idle"
    PROVE  \E d \in Duty, p \in Period :
               /\ About(sched[s], d, p) /\ DutyOf(s) = d /\ sched[s].period = p
               /\ sched[s].outcome = "sent" => delivered[d][p] > 0
               /\ sched[s].pc \in {"claimRun", "advance"} => KindOf[d] = "dynamic"
               /\ KindOf[d] = "commitment" => p = 1
               /\ sched[s].pc = "record" => sched[s].outcome \in {"sent", "failed"}
<1>1. ErrandTrue(sched[s])
  BY DEF OutboundInv
<1>2. PICK d \in Duty, p \in Period : About(sched[s], d, p)
  BY <1>1 DEF ErrandTrue
<1> QED BY <1>1, <1>2, DutyIsOne DEF ErrandTrue

\* The outcome of an errand goes into the run or the message, or changes with it.
LEMMA ErrandWrites ==
    ASSUME OutboundInv, NEW s \in Scheduler, NEW d \in Duty, NEW p \in Period,
           About(sched[s], d, p), sched[s].pc # "idle",
           NEW pc \in {"touch", "send", "settle", "advance"}, NEW o, Onto(s, pc, o),
           o = "sent" => delivered[d][p] > 0, pc = "advance" => KindOf[d] = "dynamic",
           UNCHANGED <<duty, delivered, agent, asked>>,
           content' \in [Duty -> [Period -> RunRow]], out' \in [Duty -> [Period -> MessageRow]],
           \A e \in Duty, q \in Period : MessageTrue(e, q)' /\ RowKeepsCount(e, q)
    PROVE  OutboundInv'
<1>1. OutboundTypes /\ ErrandTrue(sched[s])
  BY DEF OutboundInv
<1>2. \A e \in Duty, q \in Period : About(sched[s], e, q) => e = d /\ q = p
  BY DEF About
<1>3. ErrandTrue(sched[s])'
  BY <1>1, <1>2, ErrandStays
<1>4. SchedAt(s) /\ sched'[s].pc # "gateway"
  BY DEF Onto
<1>5. \A e \in Duty : DutyTrue(e)'
  BY RowsStay
<1> QED BY <1>1, <1>3, <1>4, <1>5, SchedulerWrites DEF OutboundTypes

LEMMA ClaimRunKeeps ==
    ASSUME OutboundInv, NEW s \in Scheduler, ClaimRun(s)
    PROVE  OutboundInv'
<1>1. OutboundTypes /\ \A e \in Duty, q \in Period : MessageTrue(e, q)
  BY DEF OutboundInv
<1>2. sched[s].pc = "claimRun"
  BY DEF ClaimRun, Handles
<1>3. PICK d \in Duty, p \in Period :
          /\ About(sched[s], d, p) /\ DutyOf(s) = d /\ sched[s].period = p
          /\ sched[s].outcome = "sent" => delivered[d][p] > 0
          /\ KindOf[d] = "dynamic"
  BY <1>2, SendingNow
<1>4. UNCHANGED <<duty, out, delivered, agent, asked>>
  BY DEF ClaimRun
<1>5. \A e \in Duty, q \in Period : RowKeepsCount(e, q)
  BY <1>4, RowsStay
<1> PICK old \in RunRow : old = content[d][p]
  BY <1>1 DEF OutboundTypes
<1>6. "unsent" \in Outcome /\ sched \in [Scheduler -> ErrandRow]
  BY <1>1 DEF Outcome, OutboundTypes
<1>7. CASE old.status = "none" \/ Retriable(old)
  <2>1. [status |-> "running", attempts |-> old.attempts + 1] \in RunRow
    BY <1>1, <1>7, OutboundBounds DEF Retriable, RunRow, MessageTrue
  <2>2. PICK new \in RunRow : new = [status |-> "running", attempts |-> old.attempts + 1]
    BY <2>1
  <2>3. Goto(s, "touch") /\ content' = [content EXCEPT ![d][p] = new]
    BY <1>3, <1>7, <2>2 DEF ClaimRun
  <2>4. ContentAt(d, p) /\ content'[d][p] = new
    BY <1>1, <2>3, NestedUpdate DEF ContentAt, OutboundTypes
  <2>5. \A e \in Duty, q \in Period : MessageTrue(e, q)'
    BY <1>1, <1>4, <2>2, <2>4 DEF MessageTrue, ContentAt
  <2>6. Onto(s, "touch", sched[s].outcome)
    BY <1>6, <2>3, GotoMoves
  <2> QED BY <1>1, <1>2, <1>3, <1>4, <1>5, <2>4, <2>5, <2>6, ErrandWrites DEF ContentAt, OutboundTypes
<1>8. CASE ~(old.status = "none" \/ Retriable(old))
  <2>1. GotoWith(s, "advance", "unsent") /\ UNCHANGED content
    BY <1>3, <1>8 DEF ClaimRun
  <2>2. Onto(s, "advance", "unsent")
    BY <1>6, <2>1, GotoMoves
  <2>3. \A e \in Duty, q \in Period : MessageTrue(e, q)'
    BY <1>4, <2>1, RowsStay
  <2> QED BY <1>1, <1>2, <1>3, <1>4, <1>5, <2>1, <2>2, <2>3, ErrandWrites DEF OutboundTypes
<1> QED BY <1>7, <1>8

LEMMA EnqueueProactiveKeeps ==
    ASSUME OutboundInv, NEW s \in Scheduler, EnqueueProactive(s)
    PROVE  OutboundInv'
<1>1. OutboundTypes /\ \A e \in Duty, q \in Period : MessageTrue(e, q) /\ ClaimsCounted(e, q)
  BY DEF OutboundInv
<1>2. sched[s].pc = "touch"
  BY DEF EnqueueProactive, Handles
<1>3. PICK d \in Duty, p \in Period : About(sched[s], d, p) /\ DutyOf(s) = d /\ sched[s].period = p
  BY <1>2, SendingNow
<1>4. UNCHANGED <<duty, content, delivered, agent, asked>>
  BY DEF EnqueueProactive
<1> PICK old \in MessageRow : old = out[d][p]
  BY <1>1 DEF OutboundTypes
<1>5. PICK status \in {"pending", "cancelled"} :
          LET row == IF old.status = "none" THEN [NoMessage EXCEPT !.status = status] ELSE old
          IN  /\ out' = [out EXCEPT ![d][p] = row]
              /\ IF row.status = "pending" /\ d \notin Remote
                 THEN GotoWith(s, "send", "pending") ELSE GotoWith(s, "settle", row.status)
  BY <1>3 DEF EnqueueProactive
<1>6. NoMessage \in MessageRow /\ NoMessage.attempts = 0
  BY OutboundBounds DEF NoMessage, MessageRow
<1>7. [NoMessage EXCEPT !.status = status] \in MessageRow
      /\ [NoMessage EXCEPT !.status = status].status = status
      /\ [NoMessage EXCEPT !.status = status].attempts = 0
  BY <1>6 DEF MessageRow
<1>8. PICK row \in MessageRow :
          /\ row = (IF old.status = "none" THEN [NoMessage EXCEPT !.status = status] ELSE old)
  BY <1>7
<1>9. /\ old.status = "none" => row.status = status /\ row.attempts = 0
      /\ old.status # "none" => row = old
  BY <1>7, <1>8
<1>10. /\ out' = [out EXCEPT ![d][p] = row]
       /\ IF row.status = "pending" /\ d \notin Remote
          THEN GotoWith(s, "send", "pending") ELSE GotoWith(s, "settle", row.status)
  BY <1>5, <1>8
<1>11. OutAt(d, p) /\ out'[d][p] = row
  BY <1>1, <1>10, NestedUpdate DEF OutAt, OutboundTypes
<1>12. \A e \in Duty, q \in Period : MessageTrue(e, q)'
  BY <1>1, <1>4, <1>9, <1>11 DEF MessageTrue, OutAt
<1>13. ASSUME NEW e \in Duty, NEW q \in Period
       PROVE  RowKeepsCount(e, q)
  <2>1. CASE e = d /\ q = p
    <3>1. ClaimsCounted(d, p) /\ out'[e][q] = row /\ out[e][q] = old
      BY <1>1, <1>11, <2>1
    <3>2. row.stale \in Nat
      BY DEF MessageRow
    <3>3. CASE old.status = "none"
      <4>1. old.attempts = 0 /\ row.attempts = 0
        BY <1>9, <3>1, <3>3 DEF ClaimsCounted
      <4> QED BY <2>1, <3>1, <3>2, <4>1 DEF RowKeepsCount
    <3>4. CASE old.status # "none"
      BY <1>9, <2>1, <3>1, <3>4, RowUnchanged
    <3> QED BY <3>3, <3>4
  <2>2. CASE e # d \/ q # p
    BY <1>1, <1>11, <2>2, RowUnchanged DEF OutAt
  <2> QED BY <2>1, <2>2
<1>14. row.status \in Outcome /\ "pending" \in Outcome /\ sched \in [Scheduler -> ErrandRow]
  BY <1>1 DEF Outcome, MessageRow, OutboundTypes
<1>15. row.status = "sent" => delivered[d][p] > 0
  BY <1>1, <1>9 DEF MessageTrue
<1>16. PICK pc \in {"send", "settle"}, o \in Outcome :
           Onto(s, pc, o) /\ (o = "sent" => delivered[d][p] > 0)
  <2>1. CASE row.status = "pending" /\ d \notin Remote
    BY <1>10, <1>14, <2>1, GotoMoves
  <2>2. CASE ~(row.status = "pending" /\ d \notin Remote)
    BY <1>10, <1>14, <1>15, <2>2, GotoMoves
  <2> QED BY <2>1, <2>2
<1>17. /\ content' \in [Duty -> [Period -> RunRow]] /\ out' \in [Duty -> [Period -> MessageRow]]
       /\ \A e \in Duty, q \in Period : MessageTrue(e, q)' /\ RowKeepsCount(e, q)
  BY <1>1, <1>4, <1>11, <1>12, <1>13 DEF OutAt, OutboundTypes
<1>18. About(sched[s], d, p) /\ sched[s].pc # "idle" /\ pc # "advance"
  BY <1>2, <1>3
<1> QED BY <1>4, <1>16, <1>17, <1>18, ErrandWrites

LEMMA ClaimInlineKeeps ==
    ASSUME OutboundInv, NEW s \in Scheduler, ClaimInline(s)
    PROVE  OutboundInv'
<1>1. /\ OutboundTypes
      /\ \A e \in Duty, q \in Period : MessageTrue(e, q) /\ ClaimsCounted(e, q)
      /\ \A t \in Scheduler : ErrandTrue(sched[t])
      /\ \A a \in Agent : HoldTrue(agent[a])
  BY DEF OutboundInv
<1>2. sched[s].pc = "send"
  BY DEF ClaimInline, Handles
<1>3. PICK d \in Duty, p \in Period :
          /\ About(sched[s], d, p) /\ DutyOf(s) = d /\ sched[s].period = p
          /\ sched[s].outcome = "sent" => delivered[d][p] > 0
  BY <1>2, SendingNow
<1>4. UNCHANGED <<duty, content, delivered, agent, asked>>
  BY DEF ClaimInline
<1> PICK old \in MessageRow : old = out[d][p]
  BY <1>1 DEF OutboundTypes
<1>5. sched \in [Scheduler -> ErrandRow]
  BY <1>1 DEF OutboundTypes
<1>6. CASE old.status # "pending"
  <2>1. Goto(s, "settle") /\ UNCHANGED out
    BY <1>3, <1>6 DEF ClaimInline
  <2>2. Onto(s, "settle", sched[s].outcome)
    BY <1>5, <2>1, GotoMoves
  <2>3. \A e \in Duty, q \in Period : MessageTrue(e, q)' /\ RowKeepsCount(e, q)
    BY <1>4, <2>1, RowsStay
  <2>4. content' \in [Duty -> [Period -> RunRow]] /\ out' \in [Duty -> [Period -> MessageRow]]
    BY <1>1, <1>4, <2>1 DEF OutboundTypes
  <2> QED BY <1>2, <1>3, <1>4, <2>2, <2>3, <2>4, ErrandWrites
<1>7. CASE old.status = "pending"
  <2>1. old.attempts = 0 /\ ClaimsCounted(d, p)
    BY <1>1, <1>7 DEF ClaimsCounted
  <2>2. 1 \in 0 .. MaxNodeClaims
    BY OutboundBounds
  <2>3. PICK new \in MessageRow : new = [old EXCEPT !.status = "sending", !.attempts = @ + 1]
    <3>1. PICK k \in 0 .. MaxNodeClaims : k = old.attempts + 1
      BY <2>1, <2>2
    <3>2. [old EXCEPT !.status = "sending", !.attempts = k] \in MessageRow
      BY DEF MessageRow
    <3> QED BY <3>1, <3>2
  <2>4. new.status = "sending" /\ new.attempts = 1 /\ new.stale = old.stale
    BY <2>1, <2>3 DEF MessageRow
  <2>5. Goto(s, "gateway")
    BY <1>3, <1>7 DEF ClaimInline
  <2>6. out' = [out EXCEPT ![d][p] = new]
    BY <1>1, <1>3, <1>7, <2>3 DEF ClaimInline, OutboundTypes
  <2>7. OutAt(d, p) /\ out'[d][p] = new
    BY <1>1, <2>6, NestedUpdate DEF OutAt, OutboundTypes
  <2>8. Onto(s, "gateway", sched[s].outcome)
    BY <1>5, <2>5, GotoMoves
  <2>9. OutboundTypes'
    BY <1>1, <1>4, <2>7, <2>8 DEF OutboundTypes, OutAt, Onto, SchedAt
  <2>10. Handing(d, p)' = Handing(d, p) \cup {s} /\ s \notin Handing(d, p)
    BY <1>2, <1>3, <2>8 DEF Handing, Onto, SchedAt, About
  <2>11. \A e, q : NodeHanding(e, q)' = NodeHanding(e, q)
    BY <1>4 DEF NodeHanding
  <2>12. ClaimsCounted(d, p)'
    <3>1. IsFiniteSet(Handing(d, p)') /\ Cardinality(Handing(d, p)') = Cardinality(Handing(d, p)) + 1
      BY <2>1, <2>10, FS_AddElement DEF ClaimsCounted
    <3>2. Cardinality(Handing(d, p)) \in Nat /\ Cardinality(NodeHanding(d, p)) \in Nat
      BY <2>1, FS_CardinalityType DEF ClaimsCounted
    <3>3. delivered[d][p] \in Nat /\ old.stale \in Nat
      BY <1>1 DEF OutboundTypes, MessageRow
    <3>4. delivered[d][p] + Cardinality(Handing(d, p)) + Cardinality(NodeHanding(d, p)) <= 0
      BY <2>1 DEF ClaimsCounted
    <3> QED BY <1>4, <2>1, <2>4, <2>7, <2>11, <3>1, <3>2, <3>3, <3>4 DEF ClaimsCounted
  <2>13. ASSUME NEW e \in Duty, NEW q \in Period, e # d \/ q # p
         PROVE  ClaimsCounted(e, q)'
    <3>1. Handing(e, q)' = Handing(e, q)
      BY <1>2, <1>3, <2>8, <2>13 DEF Handing, Onto, SchedAt, About
    <3> QED BY <1>1, <1>4, <2>7, <2>11, <2>13, <3>1 DEF ClaimsCounted, OutAt
  <2>14. \A e \in Duty, q \in Period : MessageTrue(e, q)'
    BY <1>1, <1>4, <2>4, <2>7 DEF MessageTrue, OutAt
  <2>15. ErrandTrue(sched[s])'
    <3>1. \A e \in Duty, q \in Period : About(sched[s], e, q) => e = d /\ q = p
      BY <1>3 DEF About
    <3>2. UNCHANGED delivered /\ ErrandTrue(sched[s])
      BY <1>1, <1>4
    <3> QED BY <1>1, <1>2, <1>3, <2>8, <3>1, <3>2, ErrandStays
  <2>16. \A t \in Scheduler : ErrandTrue(sched[t])'
    BY <1>1, <1>4, <2>8, <2>15 DEF ErrandTrue, Onto, SchedAt
  <2>17. \A a \in Agent : HoldTrue(agent[a])'
    BY <1>1, <1>4 DEF HoldTrue
  <2>18. \A e \in Duty : DutyTrue(e)'
    BY <1>4, RowsStay
  <2> QED BY <2>9, <2>12, <2>13, <2>14, <2>16, <2>17, <2>18 DEF OutboundInv
<1> QED BY <1>6, <1>7

LEMMA RecordInlineKeeps ==
    ASSUME OutboundInv, NEW s \in Scheduler, RecordInline(s)
    PROVE  OutboundInv'
<1>1. OutboundTypes /\ \A e \in Duty, q \in Period : MessageTrue(e, q) /\ ClaimsCounted(e, q)
  BY DEF OutboundInv
<1>2. sched[s].pc = "record"
  BY DEF RecordInline, Handles
<1>3. PICK d \in Duty, p \in Period :
          /\ About(sched[s], d, p) /\ DutyOf(s) = d /\ sched[s].period = p
          /\ sched[s].outcome = "sent" => delivered[d][p] > 0
          /\ sched[s].outcome \in {"sent", "failed"}
  BY <1>2, SendingNow
<1>4. UNCHANGED <<duty, content, delivered, agent, asked>>
  BY DEF RecordInline
<1> PICK old \in MessageRow : old = out[d][p]
  BY <1>1 DEF OutboundTypes
<1>5. PICK new \in MessageRow : new = [old EXCEPT !.status = sched[s].outcome]
  <2>1. [old EXCEPT !.status = sched[s].outcome] \in MessageRow
    BY <1>3 DEF MessageRow
  <2> QED BY <2>1
<1>6. new.status = sched[s].outcome /\ new.attempts = old.attempts /\ new.stale = old.stale
  BY <1>5 DEF MessageRow
<1>7. out' = [out EXCEPT ![d][p] = new]
  BY <1>1, <1>3, <1>5 DEF RecordInline, OutboundTypes
<1>8. OutAt(d, p) /\ out'[d][p] = new
  BY <1>1, <1>7, NestedUpdate DEF OutAt, OutboundTypes
<1>9. \A e \in Duty, q \in Period : MessageTrue(e, q)'
  BY <1>1, <1>3, <1>4, <1>6, <1>8 DEF MessageTrue, OutAt
<1>10. \A e \in Duty, q \in Period : RowKeepsCount(e, q)
  <2>1. RowKeepsCount(d, p)
    BY <1>1, <1>3, <1>6, <1>8 DEF RowKeepsCount, ClaimsCounted
  <2>2. \A e \in Duty, q \in Period : e # d \/ q # p => RowKeepsCount(e, q)
    BY <1>1, <1>8, RowUnchanged DEF OutAt
  <2> QED BY <2>1, <2>2
<1>11. Onto(s, "settle", sched[s].outcome)
  BY <1>1, GotoMoves DEF RecordInline, OutboundTypes
<1>12. /\ content' \in [Duty -> [Period -> RunRow]] /\ out' \in [Duty -> [Period -> MessageRow]]
       /\ \A e \in Duty, q \in Period : MessageTrue(e, q)' /\ RowKeepsCount(e, q)
  BY <1>1, <1>4, <1>8, <1>9, <1>10 DEF OutAt, OutboundTypes
<1> QED BY <1>2, <1>3, <1>4, <1>11, <1>12, ErrandWrites

LEMMA SendInlineKeeps ==
    ASSUME OutboundInv, NEW s \in Scheduler, SendInline(s)
    PROVE  OutboundInv'
<1>1. /\ OutboundTypes
      /\ \A e \in Duty, q \in Period : MessageTrue(e, q) /\ ClaimsCounted(e, q)
      /\ \A t \in Scheduler : ErrandTrue(sched[t])
      /\ \A a \in Agent : HoldTrue(agent[a])
      /\ \A e \in Duty : DutyTrue(e)
  BY DEF OutboundInv
<1>2. sched[s].pc = "gateway"
  BY DEF SendInline, Handles
<1>3. PICK d \in Duty, p \in Period :
          /\ About(sched[s], d, p) /\ DutyOf(s) = d /\ sched[s].period = p
          /\ KindOf[d] = "commitment" => p = 1
  BY <1>2, SendingNow
<1>4. UNCHANGED <<duty, content, out, agent, asked>>
  BY DEF SendInline
<1>5. PICK reached \in BOOLEAN, answered \in BOOLEAN :
          /\ answered => reached
          /\ delivered' = [delivered EXCEPT ![d][p] = IF reached THEN @ + 1 ELSE @]
          /\ sched' = [sched EXCEPT ![s].pc = "record", ![s].tried = TRUE,
                                    ![s].outcome = IF answered THEN "sent" ELSE "failed"]
  BY <1>3 DEF SendInline
<1> PICK n \in Nat : n = delivered[d][p]
  BY <1>1 DEF OutboundTypes
<1> PICK m \in Nat : m = IF reached THEN n + 1 ELSE n
  OBVIOUS
<1>6. DeliveredAt(d, p) /\ delivered'[d][p] = m
  <2>1. delivered' = [delivered EXCEPT ![d][p] = m]
    BY <1>1, <1>5 DEF OutboundTypes
  <2> QED BY <1>1, <2>1, NestedUpdate DEF DeliveredAt, OutboundTypes
<1> PICK o \in {"sent", "failed"} : o = IF answered THEN "sent" ELSE "failed"
  OBVIOUS
<1> PICK old \in ErrandRow : old = sched[s]
  BY <1>1 DEF OutboundTypes
<1>7. PICK new \in ErrandRow : new = [old EXCEPT !.pc = "record", !.tried = TRUE, !.outcome = o]
  <2>1. [old EXCEPT !.pc = "record", !.tried = TRUE, !.outcome = o] \in ErrandRow
    BY DEF ErrandRow, Outcome
  <2> QED BY <2>1
<1>8. Onto(s, "record", o)
  <2>1. sched' = [sched EXCEPT ![s] = new]
    BY <1>1, <1>5, <1>7 DEF OutboundTypes
  <2>2. new.pc = "record" /\ new.outcome = o /\ new.duty = old.duty /\ new.period = old.period
    BY <1>7 DEF ErrandRow
  <2> QED BY <1>1, <2>1, <2>2 DEF Onto, SchedAt, OutboundTypes
<1>9. m \in {n, n + 1} /\ (o = "sent" => m > 0)
  BY <1>5
<1>10. OutboundTypes'
  BY <1>1, <1>4, <1>6, <1>8 DEF OutboundTypes, DeliveredAt, Onto, SchedAt
<1>11. \A e \in Duty, q \in Period : delivered'[e][q] >= delivered[e][q]
  <2>1. \A e \in Duty, q \in Period : delivered[e][q] \in Nat
    BY <1>1 DEF OutboundTypes
  <2> QED BY <1>6, <1>9, <2>1 DEF DeliveredAt
<1>12. Handing(d, p)' = Handing(d, p) \ {s} /\ s \in Handing(d, p)
  BY <1>2, <1>3, <1>8 DEF Handing, Onto, SchedAt, About
<1>13. \A e, q : NodeHanding(e, q)' = NodeHanding(e, q)
  BY <1>4 DEF NodeHanding
<1>14. ClaimsCounted(d, p)'
  <2>0. ClaimsCounted(d, p)
    BY <1>1
  <2>1. IsFiniteSet(Handing(d, p)') /\ Cardinality(Handing(d, p)') = Cardinality(Handing(d, p)) - 1
    BY <2>0, <1>12, FS_RemoveElement DEF ClaimsCounted
  <2>2. Cardinality(Handing(d, p)) \in Nat /\ Cardinality(NodeHanding(d, p)) \in Nat
    BY <2>0, FS_CardinalityType DEF ClaimsCounted
  <2>3. out[d][p].attempts \in Nat
    BY <1>1, OutboundBounds DEF OutboundTypes, MessageRow
  <2> QED BY <1>4, <1>6, <1>9, <1>13, <2>0, <2>1, <2>2, <2>3 DEF ClaimsCounted
<1>15. ASSUME NEW e \in Duty, NEW q \in Period, e # d \/ q # p
       PROVE  ClaimsCounted(e, q)'
  <2>1. Handing(e, q)' = Handing(e, q)
    BY <1>2, <1>3, <1>8, <1>15 DEF Handing, Onto, SchedAt, About
  <2> QED BY <1>1, <1>4, <1>6, <1>13, <1>15, <2>1 DEF ClaimsCounted, DeliveredAt
<1>16. \A e \in Duty, q \in Period : MessageTrue(e, q)'
  BY <1>1, <1>4, <1>10, <1>11 DEF MessageTrue, OutboundTypes
<1>17. ErrandTrue(sched[s])'
  <2>1. \A e \in Duty, q \in Period : About(sched[s], e, q)' => e = d /\ q = p
    BY <1>3, <1>8 DEF About, Onto
  <2>2. About(sched[s], d, p)'
    BY <1>3, <1>8 DEF About, Onto
  <2> QED BY <1>3, <1>6, <1>8, <1>9, <2>1, <2>2 DEF ErrandTrue, Onto
<1>18. \A t \in Scheduler : ErrandTrue(sched[t])'
  <2>1. \A t \in Scheduler \ {s} : ErrandTrue(sched[t])'
    BY <1>1, <1>8, <1>10, <1>11 DEF ErrandTrue, Onto, SchedAt, OutboundTypes
  <2> QED BY <1>17, <2>1
<1>19. \A a \in Agent : HoldTrue(agent[a])'
  BY <1>1, <1>4, <1>10, <1>11 DEF HoldTrue, OutboundTypes
<1>20. \A e \in Duty : DutyTrue(e)'
  BY <1>1, <1>4, <1>10, <1>11 DEF DutyTrue, OutboundTypes
<1> QED BY <1>10, <1>14, <1>15, <1>16, <1>18, <1>19, <1>20 DEF OutboundInv

LEMMA ErrandEnds ==
    ASSUME OutboundInv, NEW s \in Scheduler, Rest(s), NEW d \in Duty, NEW row \in DutyRow,
           duty' = [duty EXCEPT ![d] = row], UNCHANGED <<content, out, delivered, agent, asked>>,
           KindOf[d] = "commitment" =>
               row.period = 1 /\ (row.status = "sent" => \A p \in Period : p = 1 => delivered[d][p] > 0)
    PROVE  OutboundInv'
<1>1. OutboundTypes /\ \A e \in Duty : DutyTrue(e)
  BY DEF OutboundInv
<1>2. SchedAt(s) /\ sched'[s] = NoErrand
  BY <1>1, RestMoves DEF OutboundTypes
<1>3. ErrandTrue(sched[s])' /\ sched'[s].pc # "gateway"
  BY <1>2, NoErrandIsTrue DEF ErrandTrue
<1>4. DutyAt(d) /\ duty'[d] = row
  BY <1>1 DEF DutyAt, OutboundTypes
<1>5. \A e \in Duty : DutyTrue(e)'
  BY <1>1, <1>4 DEF DutyTrue, DutyAt
<1>6. \A e \in Duty, q \in Period : MessageTrue(e, q)' /\ RowKeepsCount(e, q)
  BY RowsStay
<1>7. /\ duty' \in [Duty -> DutyRow] /\ content' \in [Duty -> [Period -> RunRow]]
      /\ out' \in [Duty -> [Period -> MessageRow]]
  BY <1>1, <1>4 DEF DutyAt, OutboundTypes
<1> QED BY <1>2, <1>3, <1>5, <1>6, <1>7, SchedulerWrites

LEMMA AdvancedIsRow ==
    ASSUME NEW d \in Duty, NEW p \in Period, NEW end \in {"sent", "cancelled"}
    PROVE  Advanced(d, p, end) \in DutyRow
<1>1. p \in 1 .. MaxPeriods + 1 /\ p + 1 \in 1 .. MaxPeriods + 1
  BY OutboundBounds DEF Period
<1> QED BY <1>1 DEF Advanced, NextPeriod, DutyRow

LEMMA SettleFixedKeeps ==
    ASSUME OutboundInv, NEW s \in Scheduler, SettleFixed(s)
    PROVE  OutboundInv'
<1>1. OutboundTypes
  BY DEF OutboundInv
<1>2. sched[s].pc = "settle"
  BY DEF SettleFixed, Handles
<1>3. PICK d \in Duty, p \in Period : About(sched[s], d, p) /\ DutyOf(s) = d /\ sched[s].period = p
  BY <1>2, SendingNow
<1>4. UNCHANGED <<content, out, delivered, agent, asked>> /\ Rest(s) /\ KindOf[d] = "fixed"
  BY <1>3 DEF SettleFixed
<1> PICK old \in DutyRow : old = duty[d]
  BY <1>1 DEF OutboundTypes
<1>5. PICK sent \in DutyRow : sent = Advanced(d, p, "sent")
  BY AdvancedIsRow
<1>6. PICK over \in DutyRow : over = Advanced(d, p, "cancelled")
  BY AdvancedIsRow
<1>7. PICK stopped \in DutyRow : stopped = [old EXCEPT !.status = "cancelled"]
  <2>1. [old EXCEPT !.status = "cancelled"] \in DutyRow
    BY DEF DutyRow
  <2> QED BY <2>1
<1>8. PICK failed \in DutyRow : failed = [old EXCEPT !.status = "failed"]
  <2>1. [old EXCEPT !.status = "failed"] \in DutyRow
    BY DEF DutyRow
  <2> QED BY <2>1
<1>9. PICK row \in DutyRow : duty' = [duty EXCEPT ![d] = row]
  <2>1. \/ duty' = [duty EXCEPT ![d] = Advanced(d, p, "sent")]
        \/ duty' = [duty EXCEPT ![d] = Advanced(d, p, "cancelled")]
        \/ duty' = [duty EXCEPT ![d].status = "cancelled"]
        \/ duty' = [duty EXCEPT ![d].status = "failed"]
    BY <1>3 DEF SettleFixed
  <2>2. CASE duty' = [duty EXCEPT ![d] = Advanced(d, p, "sent")]
    BY <1>5, <2>2
  <2>3. CASE duty' = [duty EXCEPT ![d] = Advanced(d, p, "cancelled")]
    BY <1>6, <2>3
  <2>4. CASE duty' = [duty EXCEPT ![d].status = "cancelled"]
    BY <1>7, <2>4
  <2>5. CASE duty' = [duty EXCEPT ![d].status = "failed"]
    BY <1>8, <2>5
  <2> QED BY <2>1, <2>2, <2>3, <2>4, <2>5
<1> QED BY <1>4, <1>9, ErrandEnds

LEMMA SettleCommitmentKeeps ==
    ASSUME OutboundInv, NEW s \in Scheduler, SettleCommitment(s)
    PROVE  OutboundInv'
<1>1. OutboundTypes /\ \A e \in Duty : DutyTrue(e)
  BY DEF OutboundInv
<1>2. sched[s].pc = "settle"
  BY DEF SettleCommitment, Handles
<1>3. PICK d \in Duty, p \in Period :
          /\ About(sched[s], d, p) /\ DutyOf(s) = d /\ sched[s].period = p
          /\ sched[s].outcome = "sent" => delivered[d][p] > 0
          /\ KindOf[d] = "commitment" => p = 1
  BY <1>2, SendingNow
<1>4. UNCHANGED <<content, out, delivered, agent, asked>> /\ Rest(s) /\ KindOf[d] = "commitment"
  BY <1>3 DEF SettleCommitment
<1> PICK old \in DutyRow : old = duty[d]
  BY <1>1 DEF OutboundTypes
<1> DEFINE o == sched[s].outcome
<1>5. PICK status \in {"sent", "cancelled", "failed"} :
          /\ status = CASE o = "sent" -> "sent"
                        [] o \in {"stale", "cancelled"} -> "cancelled"
                        [] OTHER -> "failed"
          /\ status = "sent" => o = "sent"
  <2> HIDE DEF o
  <2>1. CASE o = "sent"
    BY <2>1
  <2>2. CASE o \in {"stale", "cancelled"}
    BY <2>2
  <2>3. CASE o # "sent" /\ o \notin {"stale", "cancelled"}
    BY <2>3
  <2> QED BY <2>1, <2>2, <2>3
<1>6. duty' = [duty EXCEPT ![d].status = status]
  BY <1>3, <1>5 DEF SettleCommitment
<1>7. PICK row \in DutyRow : row = [old EXCEPT !.status = status]
  <2>1. [old EXCEPT !.status = status] \in DutyRow
    BY DEF DutyRow
  <2> QED BY <2>1
<1>8. duty' = [duty EXCEPT ![d] = row]
  BY <1>6, <1>7
<1>9. row.period = old.period /\ row.status = status
  BY <1>7 DEF DutyRow
<1>10. old.period = 1 /\ (row.status = "sent" => \A q \in Period : q = 1 => delivered[d][q] > 0)
  BY <1>1, <1>3, <1>4, <1>5, <1>9 DEF DutyTrue
<1> QED BY <1>4, <1>8, <1>9, <1>10, ErrandEnds

LEMMA SettleRunKeeps ==
    ASSUME OutboundInv, NEW s \in Scheduler, SettleRun(s)
    PROVE  OutboundInv'
<1>1. OutboundTypes /\ \A e \in Duty, q \in Period : MessageTrue(e, q)
  BY DEF OutboundInv
<1>2. sched[s].pc = "settle"
  BY DEF SettleRun, Handles
<1>3. PICK d \in Duty, p \in Period :
          /\ About(sched[s], d, p) /\ DutyOf(s) = d /\ sched[s].period = p
          /\ sched[s].outcome = "sent" => delivered[d][p] > 0
  BY <1>2, SendingNow
<1>4. UNCHANGED <<duty, out, delivered, agent, asked>> /\ Goto(s, "advance") /\ KindOf[d] = "dynamic"
  BY <1>3 DEF SettleRun
<1> PICK old \in RunRow : old = content[d][p]
  BY <1>1 DEF OutboundTypes
<1> DEFINE o == sched[s].outcome
<1>5. PICK status \in {"sent", "enqueued", "skipped", "failed"} :
          status = RunStatus(o) /\ (status = "sent" => o = "sent")
  <2> HIDE DEF o
  <2>1. CASE o = "sent"
    BY <2>1 DEF RunStatus
  <2>2. CASE o = "pending"
    BY <2>2 DEF RunStatus
  <2>3. CASE o \in {"stale", "cancelled"}
    BY <2>3 DEF RunStatus
  <2>4. CASE o \notin {"sent", "pending", "stale", "cancelled"}
    BY <2>4 DEF RunStatus
  <2> QED BY <2>1, <2>2, <2>3, <2>4
<1>6. PICK new \in RunRow : new = [old EXCEPT !.status = status]
  <2>1. [old EXCEPT !.status = status] \in RunRow
    BY DEF RunRow
  <2> QED BY <2>1
<1>7. content' = [content EXCEPT ![d][p] = new]
  <2>1. content' = [content EXCEPT ![d][p].status = status]
    BY <1>3, <1>5 DEF SettleRun
  <2> QED BY <1>1, <1>6, <2>1 DEF OutboundTypes
<1>8. ContentAt(d, p) /\ content'[d][p] = new /\ new.status = status
  <2>1. new.status = status
    BY <1>6 DEF RunRow
  <2>2. ContentAt(d, p) /\ content'[d][p] = new
    BY <1>1, <1>7, NestedUpdate DEF ContentAt, OutboundTypes
  <2> QED BY <2>1, <2>2
<1>9. \A e \in Duty, q \in Period : MessageTrue(e, q)'
  BY <1>1, <1>3, <1>4, <1>5, <1>8 DEF MessageTrue, ContentAt
<1>10. Onto(s, "advance", sched[s].outcome)
  BY <1>1, <1>4, GotoMoves DEF OutboundTypes
<1>11. \A e \in Duty, q \in Period : RowKeepsCount(e, q)
  BY <1>4, RowsStay
<1>12. /\ content' \in [Duty -> [Period -> RunRow]] /\ out' \in [Duty -> [Period -> MessageRow]]
       /\ \A e \in Duty, q \in Period : MessageTrue(e, q)' /\ RowKeepsCount(e, q)
  BY <1>1, <1>4, <1>8, <1>9, <1>11 DEF ContentAt, OutboundTypes
<1> QED BY <1>2, <1>3, <1>4, <1>10, <1>12, ErrandWrites

LEMMA AdvanceDynamicKeeps ==
    ASSUME OutboundInv, NEW s \in Scheduler, AdvanceDynamic(s)
    PROVE  OutboundInv'
<1>1. OutboundTypes
  BY DEF OutboundInv
<1>2. sched[s].pc = "advance"
  BY DEF AdvanceDynamic, Handles
<1>3. PICK d \in Duty, p \in Period :
          /\ About(sched[s], d, p) /\ DutyOf(s) = d /\ sched[s].period = p
          /\ KindOf[d] = "dynamic"
  BY <1>2, SendingNow
<1>4. UNCHANGED <<content, out, delivered, agent, asked>> /\ Rest(s)
  BY DEF AdvanceDynamic
<1>5. PICK sent \in DutyRow : sent = Advanced(d, p, "sent")
  BY AdvancedIsRow
<1>6. PICK over \in DutyRow : over = Advanced(d, p, "cancelled")
  BY AdvancedIsRow
<1>7. PICK again \in DutyRow : again = [status |-> "pending", period |-> p]
  <2>1. [status |-> "pending", period |-> p] \in DutyRow
    BY OutboundBounds DEF DutyRow, Period
  <2> QED BY <2>1
<1>8. PICK row \in DutyRow : duty' = [duty EXCEPT ![d] = row]
  <2>1. \/ duty' = [duty EXCEPT ![d] = [status |-> "pending", period |-> p]]
        \/ duty' = [duty EXCEPT ![d] = Advanced(d, p, "sent")]
        \/ duty' = [duty EXCEPT ![d] = Advanced(d, p, "cancelled")]
    BY <1>3 DEF AdvanceDynamic
  <2>2. CASE duty' = [duty EXCEPT ![d] = [status |-> "pending", period |-> p]]
    BY <1>7, <2>2
  <2>3. CASE duty' = [duty EXCEPT ![d] = Advanced(d, p, "sent")]
    BY <1>5, <2>3
  <2>4. CASE duty' = [duty EXCEPT ![d] = Advanced(d, p, "cancelled")]
    BY <1>6, <2>4
  <2> QED BY <2>1, <2>2, <2>3, <2>4
<1> QED BY <1>3, <1>4, <1>8, ErrandEnds

\* A later tick, or the passing of time.
LEMMA RowsMove ==
    ASSUME OutboundInv, UNCHANGED <<duty, delivered, sched, agent, asked>>,
           content' \in [Duty -> [Period -> RunRow]], out' \in [Duty -> [Period -> MessageRow]],
           \A d \in Duty, p \in Period : MessageTrue(d, p)' /\ RowKeepsCount(d, p)
    PROVE  OutboundInv'
<1>1. OutboundTypes'
  BY DEF OutboundInv, OutboundTypes
<1>2. ASSUME NEW d \in Duty, NEW p \in Period
      PROVE  ClaimsCounted(d, p)'
  <2>1. Handing(d, p)' = Handing(d, p) /\ NodeHanding(d, p)' = NodeHanding(d, p)
    BY DEF Handing, NodeHanding
  <2>2. OutboundTypes /\ ClaimsCounted(d, p) /\ delivered'[d][p] = delivered[d][p]
    BY DEF OutboundInv
  <2> QED BY <1>1, <2>1, <2>2, CountsKept
<1>3. \A s \in Scheduler : ErrandTrue(sched[s])'
  BY DEF OutboundInv, ErrandTrue
<1>4. \A a \in Agent : HoldTrue(agent[a])'
  BY DEF OutboundInv, HoldTrue
<1>5. \A d \in Duty : DutyTrue(d)'
  BY RowsStay
<1> QED BY <1>1, <1>2, <1>3, <1>4, <1>5 DEF OutboundInv

LEMMA ReconcileKeeps ==
    ASSUME OutboundInv, NEW d \in Duty, NEW p \in Period, ReconcileEnqueued(d, p)
    PROVE  OutboundInv'
<1>1. OutboundTypes /\ \A e \in Duty, q \in Period : MessageTrue(e, q)
  BY DEF OutboundInv
<1>2. UNCHANGED <<duty, out, delivered, sched, agent, asked>>
  BY DEF ReconcileEnqueued
<1> PICK old \in RunRow : old = content[d][p]
  BY <1>1 DEF OutboundTypes
<1> DEFINE o == out[d][p].status
<1>3. PICK status \in {"sent", "failed", "enqueued"} :
          status = ReconciledTo(o) /\ (status = "sent" => o = "sent")
  <2> HIDE DEF o
  <2>1. CASE o = "sent"
    BY <2>1 DEF ReconciledTo
  <2>2. CASE o \in {"failed", "cancelled"}
    BY <2>2 DEF ReconciledTo
  <2>3. CASE o \notin {"sent", "failed", "cancelled"}
    BY <2>3 DEF ReconciledTo
  <2> QED BY <2>1, <2>2, <2>3
<1>4. PICK new \in RunRow : new = [old EXCEPT !.status = status]
  <2>1. [old EXCEPT !.status = status] \in RunRow
    BY DEF RunRow
  <2> QED BY <2>1
<1>5. content' = [content EXCEPT ![d][p] = new]
  <2>1. content' = [content EXCEPT ![d][p].status = status]
    BY <1>3 DEF ReconcileEnqueued
  <2> QED BY <1>1, <1>4, <2>1 DEF OutboundTypes
<1>6. ContentAt(d, p) /\ content'[d][p] = new
  BY <1>1, <1>5, NestedUpdate DEF ContentAt, OutboundTypes
<1>7. new.status = status
  BY <1>4 DEF RunRow
<1>8. \A e \in Duty, q \in Period : MessageTrue(e, q)'
  BY <1>1, <1>2, <1>3, <1>6, <1>7 DEF MessageTrue, ContentAt
<1>9. \A e \in Duty, q \in Period : RowKeepsCount(e, q)
  BY <1>2, RowsStay
<1> QED BY <1>1, <1>2, <1>6, <1>8, <1>9, RowsMove DEF ContentAt, OutboundTypes

LEMMA GoesStaleKeeps ==
    ASSUME OutboundInv, NEW d \in Duty, NEW p \in Period, NodeClaimGoesStale(d, p)
    PROVE  OutboundInv'
<1>1. OutboundTypes /\ \A e \in Duty, q \in Period : MessageTrue(e, q) /\ ClaimsCounted(e, q)
  BY DEF OutboundInv
<1>2. UNCHANGED <<duty, content, delivered, sched, agent, asked>>
  BY DEF NodeClaimGoesStale
<1> PICK old \in MessageRow : old = out[d][p]
  BY <1>1 DEF OutboundTypes
<1>3. PICK new \in MessageRow : new = [old EXCEPT !.claim = "stale"]
  <2>1. [old EXCEPT !.claim = "stale"] \in MessageRow
    BY DEF MessageRow
  <2> QED BY <2>1
<1>4. new.status = old.status /\ new.attempts = old.attempts /\ new.stale = old.stale
  BY <1>3 DEF MessageRow
<1>5. out' = [out EXCEPT ![d][p] = new]
  <2>1. out' = [out EXCEPT ![d][p].claim = "stale"]
    BY DEF NodeClaimGoesStale
  <2> QED BY <1>1, <1>3, <2>1 DEF OutboundTypes
<1>6. OutAt(d, p) /\ out'[d][p] = new
  BY <1>1, <1>5, NestedUpdate DEF OutAt, OutboundTypes
<1>7. \A e \in Duty, q \in Period : MessageTrue(e, q)'
  BY <1>1, <1>2, <1>4, <1>6 DEF MessageTrue, OutAt
<1>8. \A e \in Duty, q \in Period : RowKeepsCount(e, q)
  <2>1. RowKeepsCount(d, p)
    BY <1>1, <1>4, <1>6 DEF RowKeepsCount, ClaimsCounted
  <2>2. \A e \in Duty, q \in Period : e # d \/ q # p => RowKeepsCount(e, q)
    BY <1>1, <1>6, RowUnchanged DEF OutAt
  <2> QED BY <2>1, <2>2
<1> QED BY <1>1, <1>2, <1>6, <1>7, <1>8, RowsMove DEF OutAt, OutboundTypes

\* A step of a node that sends nothing new.
LEMMA AgentWrites ==
    ASSUME OutboundInv, NEW a \in Agent, AgentAt(a), agent'[a].pc # "send",
           UNCHANGED <<duty, content, delivered, sched, asked>>,
           out' \in [Duty -> [Period -> MessageRow]], HoldTrue(agent[a])',
           \A d \in Duty, p \in Period : MessageTrue(d, p)' /\ RowKeepsCount(d, p)
    PROVE  OutboundInv'
<1>1. OutboundTypes'
  BY DEF OutboundInv, OutboundTypes, AgentAt
<1>2. ASSUME NEW d \in Duty, NEW p \in Period
      PROVE  ClaimsCounted(d, p)'
  <2>1. Handing(d, p)' = Handing(d, p)
    BY DEF Handing
  <2>2. NodeHanding(d, p)' \subseteq NodeHanding(d, p)
    BY NodeHandingShrinks
  <2>3. OutboundTypes /\ ClaimsCounted(d, p) /\ delivered'[d][p] = delivered[d][p]
    BY DEF OutboundInv
  <2> QED BY <1>1, <2>1, <2>2, <2>3, CountsKept
<1>3. \A s \in Scheduler : ErrandTrue(sched[s])'
  BY DEF OutboundInv, ErrandTrue
<1>4. \A b \in Agent : HoldTrue(agent[b])'
  BY DEF OutboundInv, HoldTrue, AgentAt
<1>5. \A d \in Duty : DutyTrue(d)'
  BY RowsStay
<1> QED BY <1>1, <1>2, <1>3, <1>4, <1>5 DEF OutboundInv

LEMMA NoHoldIsTrue == NoHold \in HoldRow /\ HoldTrue(NoHold) /\ NoHold.pc = "idle"
<1>1. NoHold \in HoldRow
  BY OutboundBounds DEF NoHold, HoldRow
<1> QED BY <1>1 DEF HoldTrue, NoHold, About

LEMMA AgentDiesKeeps ==
    ASSUME OutboundInv, NEW a \in Agent, AgentDies(a)
    PROVE  OutboundInv'
<1>1. OutboundTypes
  BY DEF OutboundInv
<1>2. AgentAt(a) /\ agent'[a] = NoHold
  BY <1>1, NoHoldIsTrue DEF AgentDies, AgentAt, OutboundTypes
<1>3. UNCHANGED <<duty, content, out, delivered, sched, asked>>
  BY DEF AgentDies
<1>4. HoldTrue(agent[a])' /\ agent'[a].pc # "send"
  BY <1>2, <1>3, NoHoldIsTrue DEF HoldTrue
<1>5. \A d \in Duty, p \in Period : MessageTrue(d, p)' /\ RowKeepsCount(d, p)
  BY <1>3, RowsStay
<1>6. out' \in [Duty -> [Period -> MessageRow]]
  BY <1>1, <1>3 DEF OutboundTypes
<1> QED BY <1>2, <1>3, <1>4, <1>5, <1>6, AgentWrites

LEMMA ReportKeeps ==
    ASSUME OutboundInv, NEW a \in Agent,
           NEW status \in {"sent", "failed"}, NEW next \in {"done", "reportFailed", "lost"},
           Report(a, status, next), agent[a].pc \in {"reportSent", "reportFailed"},
           status = "sent" => agent[a].pc = "reportSent"
    PROVE  OutboundInv'
<1>1. /\ OutboundTypes /\ HoldTrue(agent[a])
      /\ \A e \in Duty, q \in Period : MessageTrue(e, q) /\ ClaimsCounted(e, q)
  BY DEF OutboundInv
<1>2. PICK d \in Duty, p \in Period :
          About(agent[a], d, p) /\ (agent[a].pc = "reportSent" => delivered[d][p] > 0)
  BY <1>1 DEF HoldTrue
<1>3. UNCHANGED <<duty, content, delivered, sched, asked>>
  BY DEF Report
<1> PICK old \in MessageRow : old = out[d][p]
  BY <1>1 DEF OutboundTypes
<1>4. PICK new \in MessageRow : new = [old EXCEPT !.status = status]
  <2>1. [old EXCEPT !.status = status] \in MessageRow
    BY DEF MessageRow
  <2> QED BY <2>1
<1>5. out' = [out EXCEPT ![d][p] = new] \/ out' = out
  <2>1. out' = [out EXCEPT ![d][p].status = status] \/ out' = out
    BY <1>2 DEF Report, About
  <2> QED BY <1>1, <1>4, <2>1 DEF OutboundTypes
<1>6. PICK row \in MessageRow : /\ OutAt(d, p) /\ out'[d][p] = row
                                /\ row = new \/ row = old
  <2>1. CASE out' = [out EXCEPT ![d][p] = new]
    <3>1. OutAt(d, p) /\ out'[d][p] = new
      BY <1>1, <2>1, NestedUpdate DEF OutAt, OutboundTypes
    <3> QED BY <3>1
  <2>2. CASE out' = out
    <3>1. OutAt(d, p) /\ out'[d][p] = old
      BY <1>1, <2>2 DEF OutAt, OutboundTypes
    <3> QED BY <3>1
  <2> QED BY <1>5, <2>1, <2>2
<1>7. new.status = status /\ new.attempts = old.attempts /\ new.stale = old.stale
  BY <1>4 DEF MessageRow
<1>8. MessageTrue(d, p)' /\ RowKeepsCount(d, p)
  BY <1>1, <1>2, <1>3, <1>6, <1>7 DEF MessageTrue, RowKeepsCount, ClaimsCounted
<1>9. \A e \in Duty, q \in Period : e # d \/ q # p => MessageTrue(e, q)' /\ RowKeepsCount(e, q)
  BY <1>1, <1>3, <1>6, RowUnchanged DEF OutAt, MessageTrue
<1>10. AgentAt(a) /\ agent'[a].pc # "send" /\ HoldTrue(agent[a])'
  <2> PICK hold \in HoldRow : hold = agent[a]
    BY <1>1 DEF OutboundTypes
  <2>1. PICK then \in HoldRow : then = [hold EXCEPT !.pc = "reportFailed"]
    <3>1. [hold EXCEPT !.pc = "reportFailed"] \in HoldRow
      BY DEF HoldRow
    <3> QED BY <3>1
  <2>2. then.pc = "reportFailed" /\ then.duty = hold.duty /\ then.period = hold.period
    BY <2>1 DEF HoldRow
  <2>3. agent' = [agent EXCEPT ![a] = then] \/ agent' = [agent EXCEPT ![a] = NoHold]
    BY <2>1 DEF Report
  <2>4. AgentAt(a) /\ (agent'[a] = then \/ agent'[a] = NoHold)
    BY <1>1, <2>3, NoHoldIsTrue DEF AgentAt, OutboundTypes
  <2>5. CASE agent'[a] = NoHold
    BY <1>3, <2>4, <2>5, NoHoldIsTrue DEF HoldTrue
  <2>6. CASE agent'[a] = then
    BY <1>2, <1>3, <2>2, <2>4, <2>6 DEF HoldTrue, About
  <2> QED BY <2>4, <2>5, <2>6
<1>11. out' \in [Duty -> [Period -> MessageRow]]
  BY <1>6 DEF OutAt
<1>12. \A e \in Duty, q \in Period : MessageTrue(e, q)' /\ RowKeepsCount(e, q)
  BY <1>8, <1>9
<1> QED BY <1>3, <1>10, <1>11, <1>12, AgentWrites

LEMMA NodeReportsKeep ==
    ASSUME OutboundInv, NEW a \in Agent, NodeReportSent(a) \/ NodeReportFailed(a)
    PROVE  OutboundInv'
<1>1. CASE NodeReportSent(a)
  <2>1. agent[a].pc = "reportSent" /\ (Report(a, "sent", "done") \/ Report(a, "sent", "reportFailed"))
    BY <1>1 DEF NodeReportSent
  <2> QED BY <2>1, ReportKeeps
<1>2. CASE NodeReportFailed(a)
  <2>1. agent[a].pc = "reportFailed" /\ (Report(a, "failed", "done") \/ Report(a, "failed", "lost"))
    BY <1>2 DEF NodeReportFailed
  <2> QED BY <2>1, ReportKeeps
<1> QED BY <1>1, <1>2

LEMMA NodeClaimKeeps ==
    ASSUME OutboundInv, NEW a \in Agent, NEW d \in Duty, NEW p \in Period, NodeClaim(a, d, p)
    PROVE  OutboundInv'
<1>1. /\ OutboundTypes
      /\ \A e \in Duty, q \in Period : MessageTrue(e, q) /\ ClaimsCounted(e, q)
      /\ \A s \in Scheduler : ErrandTrue(sched[s])
      /\ \A b \in Agent : HoldTrue(agent[b])
      /\ ClaimsCounted(d, p)
  BY DEF OutboundInv
<1>2. agent[a].pc = "idle" /\ UNCHANGED <<duty, content, delivered, sched, asked>>
  BY DEF NodeClaim
<1> PICK old \in MessageRow : old = out[d][p]
  BY <1>1 DEF OutboundTypes
<1>3. old.attempts < MaxNodeClaims /\ (old.status = "pending" \/ old.claim = "stale")
  BY DEF NodeClaim, NodeMayClaim
<1> PICK n \in 0 .. MaxNodeClaims : n = old.attempts + 1
  <2>1. old.attempts \in 0 .. MaxNodeClaims
    BY DEF MessageRow
  <2> QED BY <1>3, <2>1, OutboundBounds
<1> PICK k \in Nat : k = old.stale + (IF old.claim = "stale" THEN 1 ELSE 0)
  BY DEF MessageRow
<1>4. PICK new \in MessageRow : new = [status |-> "sending", attempts |-> n, claim |-> "fresh", stale |-> k]
  <2>1. [status |-> "sending", attempts |-> n, claim |-> "fresh", stale |-> k] \in MessageRow
    BY DEF MessageRow
  <2> QED BY <2>1
<1>5. new.status = "sending" /\ new.attempts = n /\ new.stale = k
  BY <1>4
<1>6. out' = [out EXCEPT ![d][p] = new]
  BY <1>1, <1>4 DEF NodeClaim, OutboundTypes
<1>7. OutAt(d, p) /\ out'[d][p] = new
  BY <1>1, <1>6, NestedUpdate DEF OutAt, OutboundTypes
<1>8. p \in 0 .. MaxPeriods /\ [pc |-> "send", duty |-> {d}, period |-> p] \in HoldRow
  BY OutboundBounds DEF HoldRow, Period
<1>9. AgentAt(a) /\ (agent'[a] = [pc |-> "send", duty |-> {d}, period |-> p] \/ agent'[a] = agent[a])
  BY <1>1, <1>8 DEF NodeClaim, AgentAt, OutboundTypes
<1>10. n <= 1 + k
  <2>1. old.attempts <= 1 + old.stale /\ (old.status = "pending" => old.attempts = 0)
    BY <1>1 DEF ClaimsCounted
  <2>2. old.attempts \in 0 .. MaxNodeClaims /\ old.stale \in Nat
    BY DEF MessageRow
  <2> QED BY <1>3, <2>1, <2>2, OutboundBounds
<1>11. OutboundTypes'
  BY <1>1, <1>2, <1>7, <1>9 DEF OutboundTypes, OutAt, AgentAt
<1>12. \A e, q : Handing(e, q)' = Handing(e, q)
  BY <1>2 DEF Handing
<1>13. a \notin NodeHanding(d, p) /\ NodeHanding(d, p)' \subseteq NodeHanding(d, p) \cup {a}
  BY <1>2, <1>9 DEF NodeHanding, AgentAt, About
<1>14. ClaimsCounted(d, p)'
  <2>1. /\ IsFiniteSet(NodeHanding(d, p) \cup {a})
        /\ Cardinality(NodeHanding(d, p) \cup {a}) = Cardinality(NodeHanding(d, p)) + 1
    BY <1>1, <1>13, FS_AddElement DEF ClaimsCounted
  <2>2. /\ IsFiniteSet(NodeHanding(d, p)')
        /\ Cardinality(NodeHanding(d, p)') <= Cardinality(NodeHanding(d, p)) + 1
    BY <1>13, <2>1, FS_Subset
  <2>3. /\ Cardinality(Handing(d, p)) \in Nat /\ Cardinality(NodeHanding(d, p)) \in Nat
        /\ Cardinality(NodeHanding(d, p)') \in Nat
    BY <1>1, <2>2, FS_CardinalityType DEF ClaimsCounted
  <2>4. delivered[d][p] \in Nat /\ old.attempts \in Nat /\ n \in Nat
    BY <1>1, OutboundBounds DEF OutboundTypes, MessageRow
  <2>5. delivered[d][p] + Cardinality(Handing(d, p)) + Cardinality(NodeHanding(d, p)) <= old.attempts
    BY <1>1 DEF ClaimsCounted
  <2> QED BY <1>1, <1>2, <1>5, <1>7, <1>10, <1>12, <2>2, <2>3, <2>4, <2>5 DEF ClaimsCounted
<1>15. ASSUME NEW e \in Duty, NEW q \in Period, e # d \/ q # p
       PROVE  ClaimsCounted(e, q)'
  <2>1. NodeHanding(e, q)' = NodeHanding(e, q)
    <3>1. \/ agent'[a].pc = agent[a].pc /\ agent[a].pc # "send"
          \/ agent'[a].duty = {d} /\ agent'[a].period = p
      BY <1>2, <1>9
    <3>2. ~(agent'[a].pc = "send" /\ About(agent'[a], e, q))
      <4>1. {d} # {e} \/ p # q
        BY <1>15
      <4> QED BY <1>2, <3>1, <4>1 DEF About
    <3> QED BY <1>2, <1>9, <3>2 DEF NodeHanding, AgentAt, About
  <2> QED BY <1>1, <1>2, <1>7, <1>12, <1>15, <2>1 DEF ClaimsCounted, OutAt
<1>16. \A e \in Duty, q \in Period : MessageTrue(e, q)'
  BY <1>1, <1>2, <1>5, <1>7 DEF MessageTrue, OutAt
<1>17. \A s \in Scheduler : ErrandTrue(sched[s])'
  BY <1>1, <1>2 DEF ErrandTrue
<1>18. HoldTrue(agent[a])'
  <2>1. CASE agent'[a] = agent[a]
    BY <1>1, <1>2, <2>1 DEF HoldTrue
  <2>2. CASE agent'[a] = [pc |-> "send", duty |-> {d}, period |-> p]
    BY <2>2 DEF HoldTrue, About
  <2> QED BY <1>9, <2>1, <2>2
<1>19. \A b \in Agent : HoldTrue(agent[b])'
  <2>1. \A b \in Agent \ {a} : HoldTrue(agent[b])'
    BY <1>1, <1>2, <1>9 DEF HoldTrue, AgentAt
  <2> QED BY <1>18, <2>1
<1>20. \A e \in Duty : DutyTrue(e)'
  BY <1>2, RowsStay
<1> QED BY <1>11, <1>14, <1>15, <1>16, <1>17, <1>19, <1>20 DEF OutboundInv

LEMMA NodeSendKeeps ==
    ASSUME OutboundInv, NEW a \in Agent, NodeSend(a)
    PROVE  OutboundInv'
<1>1. /\ OutboundTypes
      /\ \A e \in Duty, q \in Period : MessageTrue(e, q) /\ ClaimsCounted(e, q)
      /\ \A s \in Scheduler : ErrandTrue(sched[s])
      /\ \A b \in Agent : HoldTrue(agent[b])
      /\ \A e \in Duty : DutyTrue(e)
  BY DEF OutboundInv
<1>2. agent[a].pc = "send" /\ UNCHANGED <<duty, content, out, sched, asked>>
  BY DEF NodeSend
<1>3. PICK d \in Duty, p \in Period : About(agent[a], d, p)
  BY <1>1, <1>2 DEF HoldTrue
<1>4. agent[a].duty = {d} /\ agent[a].period = p /\ ClaimsCounted(d, p)
  BY <1>1, <1>3 DEF About
<1>5. PICK reached \in BOOLEAN, answered \in BOOLEAN :
          /\ answered => reached
          /\ delivered' = [delivered EXCEPT ![d][p] = IF reached THEN @ + 1 ELSE @]
          /\ agent' = [agent EXCEPT ![a].pc = IF answered THEN "reportSent" ELSE "reportFailed"]
  <2>1. PICK e \in agent[a].duty, reached \in BOOLEAN, answered \in BOOLEAN :
          /\ answered => reached
          /\ delivered' = [delivered EXCEPT ![e][agent[a].period] = IF reached THEN @ + 1 ELSE @]
          /\ agent' = [agent EXCEPT ![a].pc = IF answered THEN "reportSent" ELSE "reportFailed"]
    BY DEF NodeSend
  <2>2. e = d
    BY <1>4, <2>1
  <2> QED BY <1>4, <2>1, <2>2
<1> PICK n \in Nat : n = delivered[d][p]
  BY <1>1 DEF OutboundTypes
<1> PICK m \in Nat : m = IF reached THEN n + 1 ELSE n
  OBVIOUS
<1>6. DeliveredAt(d, p) /\ delivered'[d][p] = m
  <2>1. delivered' = [delivered EXCEPT ![d][p] = m]
    BY <1>1, <1>5 DEF OutboundTypes
  <2> QED BY <1>1, <2>1, NestedUpdate DEF DeliveredAt, OutboundTypes
<1> PICK pc \in {"reportSent", "reportFailed"} : pc = IF answered THEN "reportSent" ELSE "reportFailed"
  OBVIOUS
<1> PICK hold \in HoldRow : hold = agent[a]
  BY <1>1 DEF OutboundTypes
<1>7. PICK then \in HoldRow : then = [hold EXCEPT !.pc = pc]
  <2>1. [hold EXCEPT !.pc = pc] \in HoldRow
    BY DEF HoldRow
  <2> QED BY <2>1
<1>8. then.pc = pc /\ then.duty = {d} /\ then.period = p
  BY <1>4, <1>7 DEF HoldRow
<1>9. AgentAt(a) /\ agent'[a] = then
  <2>1. agent' = [agent EXCEPT ![a] = then]
    BY <1>1, <1>5, <1>7 DEF OutboundTypes
  <2> QED BY <1>1, <2>1 DEF AgentAt, OutboundTypes
<1>10. m \in {n, n + 1} /\ (pc = "reportSent" => m > 0)
  BY <1>5
<1>11. OutboundTypes'
  BY <1>1, <1>2, <1>6, <1>9 DEF OutboundTypes, DeliveredAt, AgentAt
<1>12. \A e \in Duty, q \in Period : delivered'[e][q] >= delivered[e][q]
  <2>1. \A e \in Duty, q \in Period : delivered[e][q] \in Nat
    BY <1>1 DEF OutboundTypes
  <2> QED BY <1>6, <1>10, <2>1 DEF DeliveredAt
<1>13. NodeHanding(d, p)' = NodeHanding(d, p) \ {a} /\ a \in NodeHanding(d, p)
  BY <1>2, <1>3, <1>8, <1>9 DEF NodeHanding, AgentAt, About
<1>14. \A e, q : Handing(e, q)' = Handing(e, q)
  BY <1>2 DEF Handing
<1>15. ClaimsCounted(d, p)'
  <2>1. /\ IsFiniteSet(NodeHanding(d, p)')
        /\ Cardinality(NodeHanding(d, p)') = Cardinality(NodeHanding(d, p)) - 1
    BY <1>4, <1>13, FS_RemoveElement DEF ClaimsCounted
  <2>2. Cardinality(Handing(d, p)) \in Nat /\ Cardinality(NodeHanding(d, p)) \in Nat
    BY <1>4, FS_CardinalityType DEF ClaimsCounted
  <2>3. out[d][p].attempts \in Nat
    BY <1>1, OutboundBounds DEF OutboundTypes, MessageRow
  <2> QED BY <1>2, <1>4, <1>6, <1>10, <1>14, <2>1, <2>2, <2>3 DEF ClaimsCounted
<1>16. ASSUME NEW e \in Duty, NEW q \in Period, e # d \/ q # p
       PROVE  ClaimsCounted(e, q)'
  <2>1. NodeHanding(e, q)' = NodeHanding(e, q)
    BY <1>3, <1>8, <1>9, <1>16 DEF NodeHanding, AgentAt, About
  <2> QED BY <1>1, <1>2, <1>6, <1>14, <1>16, <2>1 DEF ClaimsCounted, DeliveredAt
<1>17. \A e \in Duty, q \in Period : MessageTrue(e, q)'
  BY <1>1, <1>2, <1>11, <1>12 DEF MessageTrue, OutboundTypes
<1>18. \A s \in Scheduler : ErrandTrue(sched[s])'
  BY <1>1, <1>2, <1>11, <1>12 DEF ErrandTrue, OutboundTypes
<1>19. HoldTrue(agent[a])'
  BY <1>6, <1>8, <1>9, <1>10 DEF HoldTrue, About
<1>20. \A b \in Agent : HoldTrue(agent[b])'
  <2>1. \A b \in Agent \ {a} : HoldTrue(agent[b])'
    BY <1>1, <1>9, <1>11, <1>12 DEF HoldTrue, AgentAt, OutboundTypes
  <2> QED BY <1>19, <2>1
<1>21. \A e \in Duty : DutyTrue(e)'
  BY <1>1, <1>2, <1>11, <1>12 DEF DutyTrue, OutboundTypes
<1> QED BY <1>11, <1>15, <1>16, <1>17, <1>18, <1>20, <1>21 DEF OutboundInv

LEMMA OutboundStarts == OutboundInit => OutboundInv
<1> SUFFICES ASSUME OutboundInit PROVE OutboundInv
  OBVIOUS
<1>1. NoRun \in RunRow /\ NoMessage \in MessageRow /\ [status |-> "none", period |-> 1] \in DutyRow
  BY OutboundBounds DEF NoRun, NoMessage, RunRow, MessageRow, DutyRow
<1>2. NoErrand \in ErrandRow
  BY OutboundBounds DEF NoErrand, ErrandRow, Outcome
<1>3. OutboundTypes
  BY <1>1, <1>2, NoHoldIsTrue DEF OutboundInit, OutboundTypes
<1>4. ASSUME NEW d \in Duty, NEW p \in Period
      PROVE  MessageTrue(d, p) /\ ClaimsCounted(d, p)
  <2>1. Handing(d, p) = {} /\ NodeHanding(d, p) = {}
    BY DEF OutboundInit, Handing, NodeHanding, NoErrand, NoHold
  <2>2. IsFiniteSet({}) /\ Cardinality({}) = 0
    BY FS_EmptySet
  <2> QED BY <2>1, <2>2 DEF OutboundInit, MessageTrue, ClaimsCounted, NoRun, NoMessage
<1>5. \A d \in Duty : DutyTrue(d)
  BY DEF OutboundInit, DutyTrue
<1>6. (\A s \in Scheduler : ErrandTrue(sched[s])) /\ \A a \in Agent : HoldTrue(agent[a])
  BY NoErrandIsTrue, NoHoldIsTrue DEF OutboundInit
<1> QED BY <1>3, <1>4, <1>5, <1>6 DEF OutboundInv

LEMMA OutboundMoves == OutboundInv /\ [OutboundNext]_outboundVars => OutboundInv'
<1> SUFFICES ASSUME OutboundInv, [OutboundNext]_outboundVars PROVE OutboundInv'
  OBVIOUS
<1>1. ASSUME NEW d \in Duty, CreateDuty(d) \/ AskCancel(d) \/ CancelReminder(d)
      PROVE  OutboundInv'
  BY <1>1, PeopleMove
<1>2. ASSUME NEW s \in Scheduler, SchedulerStep(s)
      PROVE  OutboundInv'
  BY <1>2, ClaimDueKeeps, ClaimRunKeeps, NothingSentKeeps, EnqueueProactiveKeeps, ClaimInlineKeeps,
     SendInlineKeeps, RecordInlineKeeps, SettleFixedKeeps, SettleCommitmentKeeps, SettleRunKeeps,
     AdvanceDynamicKeeps, SchedulerDiesKeeps DEF SchedulerStep
<1>3. ASSUME NEW a \in Agent, AgentStep(a)
      PROVE  OutboundInv'
  BY <1>3, NodeClaimKeeps, NodeSendKeeps, NodeReportsKeep, AgentDiesKeeps DEF AgentStep
<1>4. ASSUME NEW d \in Duty, NEW p \in Period, ReconcileEnqueued(d, p) \/ NodeClaimGoesStale(d, p)
      PROVE  OutboundInv'
  BY <1>4, ReconcileKeeps, GoesStaleKeeps
<1>5. CASE UNCHANGED outboundVars
  <2>1. /\ UNCHANGED <<content, out, delivered, sched, agent>> /\ duty' = duty /\ asked' = asked
    BY <1>5 DEF outboundVars
  <2>2. OutboundTypes /\ \A d \in Duty : DutyTrue(d)'
    BY <2>1, RowsStay DEF OutboundInv
  <2> QED BY <2>1, <2>2, DutyWrites DEF OutboundTypes
<1> QED BY <1>1, <1>2, <1>3, <1>4, <1>5 DEF OutboundNext

LEMMA OutboundShows == OutboundInv => DeliveriesAreSound
<1> SUFFICES ASSUME OutboundInv PROVE DeliveriesAreSound
  OBVIOUS
<1>1. OutboundTypes /\ (\A d \in Duty : DutyTrue(d))
      /\ \A d \in Duty, p \in Period : MessageTrue(d, p) /\ ClaimsCounted(d, p)
  BY DEF OutboundInv
<1>2. OutboundTypeOK
  BY <1>1 DEF OutboundTypeOK, OutboundTypes, DutyRow, RunRow, MessageRow
<1>3. ASSUME NEW d \in Duty, NEW p \in Period
      PROVE  /\ delivered[d][p] <= 1 + out[d][p].stale
             /\ \/ delivered[d][p] > 0
                \/ /\ out[d][p].status # "sent"
                   /\ content[d][p].status # "sent"
                   /\ ~(KindOf[d] = "commitment" /\ duty[d] = [status |-> "sent", period |-> p])
  <2>1. /\ delivered[d][p] \in Nat /\ out[d][p].attempts \in Nat /\ out[d][p].stale \in Nat
    BY <1>1, OutboundBounds DEF OutboundTypes, MessageRow
  <2>2. /\ Cardinality(Handing(d, p)) \in Nat /\ Cardinality(NodeHanding(d, p)) \in Nat
        /\ delivered[d][p] + Cardinality(Handing(d, p)) + Cardinality(NodeHanding(d, p))
             <= out[d][p].attempts
        /\ out[d][p].attempts <= 1 + out[d][p].stale
    BY <1>1, FS_CardinalityType DEF ClaimsCounted
  <2>3. delivered[d][p] <= 1 + out[d][p].stale
    BY <2>1, <2>2
  <2>4. ASSUME KindOf[d] = "commitment", duty[d] = [status |-> "sent", period |-> p]
        PROVE  delivered[d][p] > 0
    BY <1>1, <2>4 DEF DutyTrue
  <2> QED BY <1>1, <2>1, <2>3, <2>4 DEF MessageTrue
<1>4. DeliveredOnce
  BY <1>3 DEF DeliveredOnce
<1>5. SentWasDelivered
  BY <1>3 DEF SentWasDelivered
<1> QED BY <1>2, <1>4, <1>5 DEF DeliveriesAreSound

\* However many schedulers and nodes claim, send, retry, report late and die, a
\* period's message reaches the person at most once for every claim that nobody
\* else could still hold, and what the books call sent was delivered.
THEOREM MessagesGoOutOnce == OutboundSpec => []DeliveriesAreSound
BY OutboundStarts, OutboundMoves, OutboundShows, PTL DEF OutboundSpec

-----------------------------------------------------------------------------
(***************************************************************************)
(* The language model: LanguageModel.  A piece of text names the round and *)
(* the attempt it came in, so what is shown is one answer when all of its  *)
(* pieces are of the attempt under way.                                    *)
(***************************************************************************)
Piece == Nat \X Nat
CallRow == [pc : {"idle", "round", "sent", "reading", "finish", "tools", "over"},
            provider : DOMAIN Catalog, kind : {"plain", "loop"}, streams : BOOLEAN, tools : BOOLEAN,
            forced : BOOLEAN, round : Nat, attempt : Nat, emitted : BOOLEAN,
            result : {"none", "ok", "error", "cancelled"}, reply : Seq(Piece)]
CollectedRow == [text : Seq(Piece), calls : SUBSET Indexes,
                 finish : {"none", "stop", "length", "tool_calls"}]
Turn == [role : {"assistant"}, calls : SUBSET Indexes]
            \cup [role : {"tool"}, round : Nat, call : Indexes]
RequestRow == [provider : DOMAIN Catalog, late : BOOLEAN]

LlmTypes ==
    /\ call \in CallRow /\ collected \in CollectedRow
    /\ transcript \in Seq(Turn) /\ requests \in Seq(RequestRow)
    /\ visible \in Seq(Piece) /\ cancelled \in BOOLEAN /\ finished \subseteq Piece
    /\ family \in Families

Asked == {"sent", "reading", "finish"}

\* How far the loop is.
Progress ==
    /\ call.pc \in {"round", "sent", "reading", "finish"} => call.round <= RoundLimit
    /\ call.pc = "tools" => call.round < RoundLimit /\ call.tools
    /\ call.pc \in Asked \cup {"tools"} => call.attempt \in 1 .. Retries + 1
    /\ ~call.tools => call.round = 0
    /\ call.pc # "over" => call.result = "none"
    /\ cancelled \/ call.pc = "reading" => call.streams

\* Text of the attempt under way, and nothing else, is collected and shown.
Shown ==
    /\ call.pc = "sent" => ~call.emitted
    /\ call.pc \in {"sent", "reading"} /\ ~call.emitted => collected = NothingCollected
    /\ call.pc \in Asked =>
           /\ \A n \in DOMAIN collected.text : collected.text[n] = <<call.round, call.attempt>>
           /\ ~call.tools => collected.calls = {}
           /\ visible = IF call.streams /\ ~call.tools THEN collected.text ELSE <<>>
    /\ call.pc \in Asked /\ (call.pc = "finish" \/ collected.finish # "none")
           => <<call.round, call.attempt>> \in finished
    /\ call.pc \in {"idle", "round", "tools"} => visible = <<>>
    /\ \A n, m \in DOMAIN visible : visible[n] = visible[m]
    /\ ReplyIsShownAndWhole /\ ToolRoundIsSilent

\* The tool calls of a turn have their results right behind them.
Answered(n) ==
    LET c == Cardinality(transcript[n].calls)
    IN  /\ n + c <= Len(transcript)
        /\ {transcript[m].call : m \in (n + 1)..(n + c)} = transcript[n].calls

AnsweredBefore(l) ==
    \A n \in DOMAIN transcript : n < l =>
        /\ transcript[n].role = "assistant" => Answered(n)
        /\ transcript[n].role = "tool" => transcript[n].round < call.round

\* What the tools have handed back since the turn at l, which asked for them.
GivenSince(l) == {transcript[m].call : m \in (l + 1)..Len(transcript)}
Asking(l) ==
    /\ transcript[l].role = "assistant" /\ transcript[l].calls = collected.calls
    /\ AnsweredBefore(l)
    /\ \A n \in DOMAIN transcript : n > l =>
           /\ transcript[n].role = "tool" /\ transcript[n].round = call.round
           /\ transcript[n].call \in collected.calls
    /\ Cardinality(GivenSince(l)) = Len(transcript) - l
    /\ collected.calls \ GivenSince(l) # {}

Told ==
    /\ call.pc \in Asked \cup {"round"} => AnsweredBefore(Len(transcript) + 1)
    /\ call.pc = "tools" => \E l \in DOMAIN transcript : Asking(l)

\* The requests of r rounds.
Budget(r) == r * (Retries + 1)
LateOnes == {n \in DOMAIN requests : requests[n].late}

Bounded ==
    /\ call.pc = "round" => Len(requests) <= Budget(call.round)
    /\ call.pc \in Asked \cup {"tools"} => Len(requests) <= Budget(call.round) + call.attempt
    /\ Len(requests) <= Budget(RoundLimit + 1)
    /\ ~cancelled => LateOnes = {}
    /\ call.pc \in Asked => Cardinality(LateOnes) <= call.attempt - 1
    /\ Cardinality(LateOnes) <= Retries
    /\ \A n \in DOMAIN requests : requests[n].provider = call.provider

\* Whatever admins may choose is ready.
ProviderIds == {Unset} \cup {Catalog[k].id : k \in DOMAIN Catalog}
Bound ==
    /\ \A t \in Tier : Catalog[ResolveProvider(t, family, Unset)].ready
    /\ override \in [Tier -> ProviderIds]
    /\ \A t \in Tier : \/ override[t] = Unset
                       \/ \E k \in DOMAIN Catalog : Catalog[k].ready /\ override[t] = Catalog[k].id
    /\ call.pc # "idle" => Catalog[call.provider].ready

LlmInv == LlmTypes /\ Progress /\ Shown /\ Told /\ Bounded /\ Bound

(* What the operators of the model give. *)

LEMMA RoundLimitType == RoundLimit \in 1 .. 8
  BY LlmBounds DEF RoundLimit

LEMMA BudgetGrows ==
    ASSUME NEW r \in Nat
    PROVE  /\ Budget(r) \in Nat /\ Budget(0) = 0
           /\ Budget(r + 1) = Budget(r) + Retries + 1
           /\ \A q \in Nat : q <= r => Budget(q) <= Budget(r)
<1>1. Retries \in Nat
  BY LlmBounds
<1>2. \A q \in Nat : Budget(q) \in Nat
  BY <1>1 DEF Budget
<1>3. Budget(0) = 0 /\ Budget(r + 1) = Budget(r) + Retries + 1
  BY <1>1 DEF Budget
<1>4. ASSUME NEW q \in Nat, q <= r
      PROVE  Budget(q) <= Budget(r)
  <2>1. PICK d \in Nat : r = q + d
    <3>1. r - q \in Nat /\ r = q + (r - q)
      BY <1>4
    <3> QED BY <3>1
  <2>2. Budget(r) = Budget(q) + d * (Retries + 1) /\ d * (Retries + 1) \in Nat
    BY <1>1, <2>1 DEF Budget
  <2> QED BY <1>2, <2>2
<1> QED BY <1>2, <1>3, <1>4

LEMMA FirstIsLeast ==
    ASSUME NEW S \in SUBSET Nat, S # {}
    PROVE  FirstOf(S) \in S /\ \A j \in S : FirstOf(S) <= j
<1>1. \E k \in S : \A j \in S : k <= j
  BY LeastNumber
<1> QED BY <1>1 DEF FirstOf

LEMMA FirstOfOne ==
    ASSUME NEW k \in Nat
    PROVE  FirstOf({k}) = k
  BY FirstIsLeast

LEMMA CatalogNumbers ==
    /\ DOMAIN Catalog \subseteq Nat /\ 1 \in DOMAIN Catalog
    /\ \A k \in DOMAIN Catalog : Catalog[k].id \in STRING /\ Catalog[k].id # Unset
                                 /\ Catalog[k].family \in STRING /\ Catalog[k].ready \in BOOLEAN
<1> DEFINE Provider == [id : STRING, family : STRING, tier : STRING, protocol : STRING, ready : BOOLEAN]
<1>1. Catalog \in Seq(Provider) /\ Catalog # <<>>
  BY LlmBounds
<1>2. Len(Catalog) \in Nat /\ DOMAIN Catalog = 1 .. Len(Catalog) /\ Len(Catalog) # 0
  <2> HIDE DEF Provider
  <2> QED BY <1>1
<1>3. \A k \in DOMAIN Catalog : Catalog[k] \in Provider
  <2> HIDE DEF Provider
  <2> QED BY <1>1, <1>2
<1> QED BY <1>2, <1>3, LlmBounds

\* An override names one provider.
LEMMA NamedIsResolved ==
    ASSUME NEW k \in DOMAIN Catalog, NEW t, NEW f
    PROVE  ResolveProvider(t, f, Catalog[k].id) = k
<1> DEFINE byId == {j \in DOMAIN Catalog : Catalog[j].id = Catalog[k].id}
           own  == {j \in DOMAIN Catalog : Catalog[j].family = f /\ Catalog[j].tier = t}
           pro  == {j \in DOMAIN Catalog : Catalog[j].family = f /\ Catalog[j].tier = "pro"}
           same == {j \in DOMAIN Catalog : Catalog[j].tier = t}
           tried == <<byId, own, pro, same, DOMAIN Catalog>>
           S == {n \in DOMAIN tried : tried[n] # {}}
<1>1. byId = {k}
  BY LlmBounds
<1>2. DOMAIN tried = 1 .. 5 /\ tried[1] = byId
  OBVIOUS
<1>3. S \in SUBSET Nat /\ 1 \in S /\ \A n \in S : n >= 1
  <2>1. tried[1] # {} /\ DOMAIN tried = 1 .. 5
    <3>1. byId # {}
      BY <1>1
    <3> HIDE DEF tried, byId
    <3> QED BY <1>2, <3>1
  <2> HIDE DEF tried
  <2>2. 1 \in S
    BY <2>1
  <2>3. S \subseteq 1 .. 5
    BY <2>1
  <2> HIDE DEF S
  <2> QED BY <2>2, <2>3
<1>4. FirstOf(S) = 1
  <2> HIDE DEF S
  <2>1. FirstOf(S) \in S /\ FirstOf(S) <= 1
    BY <1>3, FirstIsLeast
  <2>2. PICK n \in Nat : n = FirstOf(S)
    BY <1>3, <2>1
  <2> QED BY <1>3, <2>1, <2>2
<1>5. FirstOf(tried[FirstOf(S)]) = k
  <2>1. k \in Nat
    BY CatalogNumbers
  <2> HIDE DEF tried, S, byId
  <2> QED BY <1>1, <1>2, <1>4, <2>1, FirstOfOne
<1> QED BY <1>5 DEF ResolveProvider

LEMMA ActiveIsReady ==
    ASSUME Bound, NEW t \in Tier
    PROVE  Catalog[ActiveProvider(t)].ready
<1>1. CASE override[t] = Unset
  BY <1>1 DEF Bound, ActiveProvider
<1>2. ASSUME NEW k \in DOMAIN Catalog, Catalog[k].ready, override[t] = Catalog[k].id
      PROVE  Catalog[ActiveProvider(t)].ready
  BY <1>2, NamedIsResolved DEF ActiveProvider
<1> QED BY <1>1, <1>2 DEF Bound

LEMMA ResolvesToOne ==
    ASSUME NEW t, NEW f, NEW i
    PROVE  ResolveProvider(t, f, i) \in DOMAIN Catalog
<1> DEFINE byId == {j \in DOMAIN Catalog : Catalog[j].id = i}
           own  == {j \in DOMAIN Catalog : Catalog[j].family = f /\ Catalog[j].tier = t}
           pro  == {j \in DOMAIN Catalog : Catalog[j].family = f /\ Catalog[j].tier = "pro"}
           same == {j \in DOMAIN Catalog : Catalog[j].tier = t}
           tried == <<byId, own, pro, same, DOMAIN Catalog>>
           S == {n \in DOMAIN tried : tried[n] # {}}
<1>1. DOMAIN tried = 1 .. 5 /\ tried[5] = DOMAIN Catalog /\ \A n \in 1 .. 5 : tried[n] \subseteq DOMAIN Catalog
  <2>1. /\ tried[1] = byId /\ tried[2] = own /\ tried[3] = pro /\ tried[4] = same
        /\ tried[5] = DOMAIN Catalog /\ DOMAIN tried = 1 .. 5
    OBVIOUS
  <2>2. /\ byId \subseteq DOMAIN Catalog /\ own \subseteq DOMAIN Catalog
        /\ pro \subseteq DOMAIN Catalog /\ same \subseteq DOMAIN Catalog
    OBVIOUS
  <2> HIDE DEF tried, byId, own, pro, same
  <2> QED BY <2>1, <2>2
<1>2. S \in SUBSET Nat /\ S # {}
  <2> HIDE DEF tried
  <2>1. 5 \in S
    BY <1>1, CatalogNumbers
  <2> QED BY <1>1, <2>1
<1>3. FirstOf(S) \in S
  <2> HIDE DEF S
  <2> QED BY <1>2, FirstIsLeast
<1>4. FirstOf(tried[FirstOf(S)]) \in DOMAIN Catalog
  <2>1. tried[FirstOf(S)] # {} /\ tried[FirstOf(S)] \subseteq DOMAIN Catalog
    <3> HIDE DEF tried
    <3> QED BY <1>1, <1>3
  <2> HIDE DEF tried, S
  <2> QED BY <2>1, CatalogNumbers, FirstIsLeast
<1> QED BY <1>4 DEF ResolveProvider

(* What a step does to the call. *)

SameTask ==
    /\ call' \in CallRow /\ call'.provider = call.provider /\ call'.kind = call.kind
    /\ call'.streams = call.streams /\ call'.tools = call.tools /\ call'.forced = call.forced

\* The same attempt, further on.
OnTo(pc) ==
    /\ SameTask /\ call'.pc = pc
    /\ call'.round = call.round /\ call'.attempt = call.attempt
    /\ call'.result = call.result /\ call'.reply = call.reply

LEMMA EndsAsMoves ==
    ASSUME call \in CallRow, NEW r \in {"error", "cancelled"}, EndsAs(r)
    PROVE  /\ SameTask /\ call'.pc = "over" /\ call'.result = r
           /\ call'.round = call.round /\ call'.attempt = call.attempt
  BY DEF EndsAs, SameTask, CallRow

LEMMA AppendGives ==
    ASSUME NEW S, NEW q \in Seq(S), NEW e \in S
    PROVE  /\ Append(q, e) \in Seq(S) /\ Len(Append(q, e)) = Len(q) + 1
           /\ DOMAIN Append(q, e) = DOMAIN q \cup {Len(q) + 1}
           /\ DOMAIN q = 1 .. Len(q) /\ Len(q) \in Nat
           /\ Append(q, e)[Len(q) + 1] = e
           /\ \A n \in DOMAIN q : Append(q, e)[n] = q[n]
  OBVIOUS

LEMMA BoundStays ==
    ASSUME Bound, UNCHANGED bindingState, call.pc # "idle", call'.provider = call.provider
    PROVE  Bound'
  BY DEF Bound, bindingState

LEMMA ToldStays ==
    ASSUME Told, UNCHANGED transcript, call.pc \in Asked \cup {"round"},
           call'.pc \in Asked \cup {"round", "over"}, call'.round = call.round
    PROVE  Told'
<1>1. \A n : Answered(n)' <=> Answered(n)
  BY DEF Answered
<1>2. AnsweredBefore(Len(transcript) + 1)
  BY DEF Told
<1>3. AnsweredBefore(Len(transcript) + 1)'
  BY <1>1, <1>2 DEF AnsweredBefore
<1>4. call'.pc # "tools"
  BY DEF Asked
<1> QED BY <1>3, <1>4 DEF Told

\* Nothing is told, and the rounds are where they were.
LEMMA ToldUnchanged ==
    ASSUME Told, UNCHANGED <<call, collected, transcript>>
    PROVE  Told'
<1>1. \A n : Answered(n)' <=> Answered(n)
  BY DEF Answered
<1>2. \A l : AnsweredBefore(l)' <=> AnsweredBefore(l)
  BY <1>1 DEF AnsweredBefore
<1>3. \A l : GivenSince(l)' = GivenSince(l)
  BY DEF GivenSince
<1>4. \A l : Asking(l)' <=> Asking(l)
  BY <1>2, <1>3 DEF Asking
<1>5. AnsweredBefore(Len(transcript) + 1)' <=> AnsweredBefore(Len(transcript) + 1)
  BY <1>2
<1> QED BY <1>4, <1>5 DEF Told

LEMMA LateOnesFinite ==
    ASSUME requests \in Seq(RequestRow)
    PROVE  IsFiniteSet(LateOnes) /\ Cardinality(LateOnes) \in Nat
<1>1. LateOnes \subseteq 1 .. Len(requests)
  BY DEF LateOnes
<1>2. IsFiniteSet(1 .. Len(requests))
  BY FS_Interval
<1> QED BY <1>1, <1>2, FS_Subset, FS_CardinalityType

LEMMA BoundedStays ==
    ASSUME Bounded, UNCHANGED <<requests, cancelled>>, call.pc \in Asked,
           call'.pc \in Asked \cup {"tools", "over"},
           call'.round = call.round /\ call'.attempt = call.attempt /\ call'.provider = call.provider
    PROVE  Bounded'
<1>1. LateOnes' = LateOnes
  BY DEF LateOnes
<1> QED BY <1>1 DEF Bounded, Asked

LEMMA ProgressStays ==
    ASSUME Progress, SameTask, UNCHANGED cancelled, call.pc \in Asked, call'.pc \in Asked,
           call'.pc = "reading" => call.streams,
           call'.round = call.round /\ call'.attempt = call.attempt /\ call'.result = call.result
    PROVE  Progress'
<1>1. call.round <= RoundLimit /\ call.attempt \in 1 .. Retries + 1 /\ call.result = "none"
  BY DEF Progress, Asked
<1>2. (~call.tools => call.round = 0) /\ (cancelled => call.streams)
  BY DEF Progress
<1>3. call'.pc # "tools"
  BY DEF Asked
<1> QED BY <1>1, <1>2, <1>3 DEF Progress, SameTask

\* A call ends without a reply.
LEMMA CallEnds ==
    ASSUME LlmInv, NEW r \in {"error", "cancelled"}, EndsAs(r), call.pc \in Asked \cup {"round"},
           UNCHANGED <<bindingState, transcript, visible, cancelled, requests>>,
           collected' \in CollectedRow, finished \subseteq finished', finished' \subseteq Piece
    PROVE  LlmInv'
<1>1. LlmTypes /\ Progress /\ Shown /\ Told /\ Bounded /\ Bound
  BY DEF LlmInv
<1>2. /\ SameTask /\ call'.pc = "over" /\ call'.result = r
      /\ call'.round = call.round /\ call'.attempt = call.attempt
  BY <1>1, EndsAsMoves DEF LlmTypes
<1>3. LlmTypes'
  BY <1>1, <1>2 DEF LlmTypes, SameTask, bindingState
<1>4. Progress'
  <2>1. (~call.tools => call.round = 0) /\ (cancelled => call.streams)
    BY <1>1 DEF Progress
  <2> QED BY <1>2, <2>1 DEF Progress, SameTask, Asked
<1>5. Shown'
  <2>1. call.tools => visible = <<>>
    BY <1>1 DEF Shown, Asked
  <2>2. \A n, m \in DOMAIN visible : visible[n] = visible[m]
    BY <1>1 DEF Shown
  <2>3. ReplyIsShownAndWhole' /\ ToolRoundIsSilent'
    BY <1>2, <2>1 DEF ReplyIsShownAndWhole, ToolRoundIsSilent, SameTask
  <2>4. \A n, m \in DOMAIN visible' : visible'[n] = visible'[m]
    BY <2>2
  <2> QED BY <1>2, <2>3, <2>4 DEF Shown, Asked
<1>6. Told'
  BY <1>2 DEF Told, Asked
<1>7. Bounded'
  <2>1. LateOnes' = LateOnes
    BY DEF LateOnes
  <2> QED BY <1>1, <1>2, <2>1 DEF Bounded, SameTask, Asked
<1>8. Bound'
  BY <1>1, <1>2, BoundStays DEF SameTask, Asked
<1> QED BY <1>3, <1>4, <1>5, <1>6, <1>7, <1>8 DEF LlmInv

\* The attempt goes on, or its answer is complete.
LEMMA AttemptGoesOn ==
    ASSUME LlmInv, NEW pc \in Asked, OnTo(pc), call.pc \in Asked,
           UNCHANGED <<bindingState, transcript, cancelled, requests>>,
           collected' \in CollectedRow, visible' \in Seq(Piece), finished' \subseteq Piece, Shown',
           pc = "reading" => call.streams
    PROVE  LlmInv'
<1>1. LlmTypes /\ Progress /\ Told /\ Bounded /\ Bound
  BY DEF LlmInv
<1>2. LlmTypes'
  BY <1>1 DEF LlmTypes, OnTo, SameTask, bindingState
<1>3. Progress'
  BY <1>1, ProgressStays DEF OnTo
<1>4. Told'
  BY <1>1, ToldStays DEF OnTo
<1>5. Bounded'
  BY <1>1, BoundedStays DEF OnTo, SameTask
<1>6. Bound'
  BY <1>1, BoundStays DEF OnTo, SameTask, Asked
<1> QED BY <1>2, <1>3, <1>4, <1>5, <1>6 DEF LlmInv

\* While an attempt is under way there is no reply, and what is shown follows from
\* what is collected.
LEMMA ShownWhileAsked ==
    ASSUME LlmTypes', call'.pc \in Asked, call'.result = "none",
           call'.pc = "sent" => ~call'.emitted,
           call'.pc \in {"sent", "reading"} /\ ~call'.emitted => collected' = NothingCollected,
           \A n \in DOMAIN collected'.text : collected'.text[n] = <<call'.round, call'.attempt>>,
           ~call'.tools => collected'.calls = {},
           visible' = (IF call'.streams /\ ~call'.tools THEN collected'.text ELSE <<>>),
           call'.pc = "finish" \/ collected'.finish # "none" => <<call'.round, call'.attempt>> \in finished'
    PROVE  Shown'
<1>1. ReplyIsShownAndWhole'
  BY DEF ReplyIsShownAndWhole
<1>2. ToolRoundIsSilent'
  BY DEF ToolRoundIsSilent
<1>3. \A n, m \in DOMAIN visible' : visible'[n] = visible'[m]
  <2>1. CASE visible' = collected'.text
    BY <2>1
  <2>2. CASE visible' = <<>>
    BY <2>2
  <2> QED BY <2>1, <2>2
<1>4. call'.pc \notin {"idle", "round", "tools"}
  BY DEF Asked
<1> QED BY <1>1, <1>2, <1>3, <1>4 DEF Shown

(* The answer of one attempt. *)

LEMMA AttemptKnown ==
    ASSUME LlmInv, call.pc \in Asked
    PROVE  /\ LlmTypes /\ call.result = "none" /\ call.attempt \in 1 .. Retries + 1
           /\ call.round \in Nat /\ <<call.round, call.attempt>> \in Piece
           /\ call.pc = "reading" => call.streams
           /\ call.pc = "sent" => ~call.emitted
           /\ call.pc \in {"sent", "reading"} /\ ~call.emitted => collected = NothingCollected
           /\ \A n \in DOMAIN collected.text : collected.text[n] = <<call.round, call.attempt>>
           /\ ~call.tools => collected.calls = {}
           /\ visible = (IF call.streams /\ ~call.tools THEN collected.text ELSE <<>>)
           /\ call.pc = "finish" \/ collected.finish # "none" => <<call.round, call.attempt>> \in finished
<1>1. LlmTypes /\ Progress /\ Shown
  BY DEF LlmInv
<1>2. /\ call.result = "none" /\ call.attempt \in 1 .. Retries + 1
      /\ call.pc = "reading" => call.streams
  BY <1>1 DEF Progress, Asked
<1>3. call.round \in Nat /\ <<call.round, call.attempt>> \in Piece
  BY <1>1 DEF LlmTypes, CallRow, Piece
<1> QED BY <1>1, <1>2, <1>3 DEF Shown

LEMMA EmptyCollection ==
    /\ NothingCollected \in CollectedRow /\ NothingCollected.text = <<>>
    /\ NothingCollected.calls = {} /\ NothingCollected.finish = "none"
  BY DEF NothingCollected, CollectedRow

LEMMA StreamOpensKeeps ==
    ASSUME LlmInv, StreamOpens
    PROVE  LlmInv'
<1>1. /\ call.pc = "sent" /\ call.streams
      /\ UNCHANGED <<bindingState, collected, transcript, visible, cancelled, requests, finished>>
  BY DEF StreamOpens
<1>2. LlmTypes /\ call.pc \in Asked
  BY <1>1 DEF LlmInv, Asked
<1>3. OnTo("reading") /\ call'.emitted = call.emitted
  BY <1>2 DEF StreamOpens, OnTo, SameTask, CallRow, LlmTypes
<1>4. LlmTypes'
  BY <1>1, <1>2, <1>3 DEF LlmTypes, OnTo, SameTask, bindingState
<1>5. Shown'
  BY <1>1, <1>2, <1>3, <1>4, AttemptKnown, ShownWhileAsked DEF OnTo, SameTask, Asked
<1> QED BY <1>1, <1>2, <1>3, <1>5, AttemptGoesOn DEF LlmTypes, Asked

LEMMA CollectedGrows ==
    ASSUME collected \in CollectedRow
    PROVE  /\ \A x \in Piece : LET new == [collected EXCEPT !.text = Append(@, x)]
                               IN  /\ new \in CollectedRow /\ new.text = Append(collected.text, x)
                                   /\ new.calls = collected.calls /\ new.finish = collected.finish
           /\ \A k \in Indexes : LET new == [collected EXCEPT !.calls = @ \cup {k}]
                                 IN  new \in CollectedRow /\ new.text = collected.text /\ new.finish = collected.finish
           /\ \A f \in {"stop", "length", "tool_calls"} :
                  LET new == [collected EXCEPT !.finish = f]
                  IN  new \in CollectedRow /\ new.text = collected.text /\ new.calls = collected.calls
<1>1. collected.text \in Seq(Piece) /\ collected.calls \in SUBSET Indexes
  BY DEF CollectedRow
<1>2. ASSUME NEW x \in Piece
      PROVE  LET new == [collected EXCEPT !.text = Append(@, x)]
             IN  /\ new \in CollectedRow /\ new.text = Append(collected.text, x)
                 /\ new.calls = collected.calls /\ new.finish = collected.finish
  <2>1. PICK text \in Seq(Piece) : text = Append(collected.text, x)
    BY <1>1, AppendGives
  <2> DEFINE new == [collected EXCEPT !.text = text]
  <2>2. /\ new \in CollectedRow /\ new.text = text
        /\ new.calls = collected.calls /\ new.finish = collected.finish
    BY DEF CollectedRow
  <2>3. [collected EXCEPT !.text = Append(@, x)] = new
    BY <2>1
  <2> HIDE DEF new
  <2> QED BY <2>2, <2>3, <2>1
<1>3. ASSUME NEW k \in Indexes
      PROVE  LET new == [collected EXCEPT !.calls = @ \cup {k}]
             IN  new \in CollectedRow /\ new.text = collected.text /\ new.finish = collected.finish
  <2>1. PICK calls \in SUBSET Indexes : calls = collected.calls \cup {k}
    BY <1>1
  <2> DEFINE new == [collected EXCEPT !.calls = calls]
  <2>2. new \in CollectedRow /\ new.text = collected.text /\ new.finish = collected.finish
    BY DEF CollectedRow
  <2>3. [collected EXCEPT !.calls = @ \cup {k}] = new
    BY <2>1
  <2> HIDE DEF new
  <2> QED BY <2>2, <2>3
<1>4. ASSUME NEW f \in {"stop", "length", "tool_calls"}
      PROVE  LET new == [collected EXCEPT !.finish = f]
             IN  new \in CollectedRow /\ new.text = collected.text /\ new.calls = collected.calls
  BY DEF CollectedRow
<1> QED BY <1>2, <1>3, <1>4

LEMMA StreamEventKeeps ==
    ASSUME LlmInv, StreamEvent
    PROVE  LlmInv'
<1>1. /\ call.pc = "reading" /\ collected.finish = "none"
      /\ UNCHANGED <<bindingState, transcript, cancelled, requests, finished>>
  BY DEF StreamEvent
<1>2. LlmTypes /\ call.pc \in Asked
  BY <1>1 DEF LlmInv, Asked
<1>3. CASE cancelled
  <2>1. EndsAs("cancelled") /\ UNCHANGED <<collected, visible>>
    BY <1>3 DEF StreamEvent
  <2> QED BY <1>1, <1>2, <2>1, CallEnds DEF LlmTypes
<1>4. CASE ~cancelled
  <2>1. OnTo("reading") /\ call'.emitted = TRUE
    BY <1>1, <1>2, <1>4 DEF StreamEvent, OnTo, SameTask, CallRow, LlmTypes
  <2>2. TextArrives \/ \E k \in Offered : ToolPartArrives(k)
    BY <1>4 DEF StreamEvent
  <2> PICK x \in Piece : x = <<call.round, call.attempt>>
    BY <1>2, AttemptKnown
  <2>3. CASE TextArrives
    <3>1. collected' = [collected EXCEPT !.text = Append(@, x)]
          /\ visible' = IF call.tools THEN visible ELSE Append(visible, x)
      BY <2>3 DEF TextArrives, Chunk
    <3>2. collected' \in CollectedRow /\ collected'.text = Append(collected.text, x)
          /\ collected'.calls = collected.calls /\ collected'.finish = collected.finish
      BY <1>2, <3>1, CollectedGrows DEF LlmTypes
    <3>3. collected.text \in Seq(Piece)
      BY <1>2 DEF LlmTypes, CollectedRow
    <3>4. \A n \in DOMAIN collected'.text : collected'.text[n] = x
      <4>1. \A n \in DOMAIN collected.text : collected.text[n] = x
        BY <1>2, AttemptKnown
      <4> QED BY <3>2, <3>3, <4>1, AppendGives
    <3>5. call.streams
      BY <1>1, <1>2, AttemptKnown
    <3>6. visible' \in Seq(Piece) /\ visible' = IF call.streams /\ ~call.tools THEN collected'.text ELSE <<>>
      <4>1. visible \in Seq(Piece) /\ Append(collected.text, x) \in Seq(Piece)
        BY <1>2, <3>3, AppendGives DEF LlmTypes
      <4>2. visible = IF call.streams /\ ~call.tools THEN collected.text ELSE <<>>
        BY <1>2, AttemptKnown
      <4>3. CASE call.tools
        BY <3>1, <4>1, <4>2, <4>3
      <4>4. CASE ~call.tools
        BY <3>1, <3>2, <3>5, <4>1, <4>2, <4>4
      <4> QED BY <4>3, <4>4
    <3>7. LlmTypes'
      BY <1>1, <1>2, <2>1, <3>2, <3>6 DEF LlmTypes, OnTo, SameTask, bindingState
    <3>8. Shown'
      BY <1>1, <1>2, <2>1, <3>2, <3>4, <3>6, <3>7, AttemptKnown, ShownWhileAsked
         DEF OnTo, SameTask, Asked
    <3> QED BY <1>1, <1>2, <2>1, <3>2, <3>5, <3>6, <3>8, AttemptGoesOn DEF LlmTypes, Asked
  <2>4. ASSUME NEW k \in Offered, ToolPartArrives(k)
        PROVE  LlmInv'
    <3>1. call.tools /\ k \in Indexes
      BY DEF Offered
    <3>2. collected' = [collected EXCEPT !.calls = @ \cup {k}] /\ visible' = visible
      BY <2>4 DEF ToolPartArrives
    <3>3. collected' \in CollectedRow /\ collected'.text = collected.text /\ collected'.finish = collected.finish
      BY <1>2, <3>1, <3>2, CollectedGrows DEF LlmTypes
    <3>4. LlmTypes'
      BY <1>1, <1>2, <2>1, <3>2, <3>3 DEF LlmTypes, OnTo, SameTask, bindingState
    <3>5. Shown'
      BY <1>1, <1>2, <2>1, <3>1, <3>2, <3>3, <3>4, AttemptKnown, ShownWhileAsked
         DEF OnTo, SameTask, Asked
    <3>6. call.streams
      BY <1>1, <1>2, AttemptKnown
    <3> QED BY <1>1, <1>2, <2>1, <3>2, <3>3, <3>5, <3>6, AttemptGoesOn DEF LlmTypes, Asked
  <2> QED BY <2>2, <2>3, <2>4
<1> QED BY <1>3, <1>4

LEMMA FinishReasonArrivesKeeps ==
    ASSUME LlmInv, FinishReasonArrives
    PROVE  LlmInv'
<1>1. /\ call.pc = "reading" /\ finished' = finished \cup {<<call.round, call.attempt>>}
      /\ UNCHANGED <<bindingState, transcript, visible, cancelled, requests>>
  BY DEF FinishReasonArrives, Chunk
<1>2. LlmTypes /\ call.pc \in Asked
  BY <1>1 DEF LlmInv, Asked
<1>3. OnTo("reading") /\ call'.emitted = TRUE
  BY <1>1, <1>2 DEF FinishReasonArrives, OnTo, SameTask, CallRow, LlmTypes
<1>4. PICK f \in {"stop", "length", "tool_calls"} : collected' = [collected EXCEPT !.finish = f]
  BY DEF FinishReasonArrives
<1>5. collected' \in CollectedRow /\ collected'.text = collected.text /\ collected'.calls = collected.calls
  BY <1>2, <1>4, CollectedGrows DEF LlmTypes
<1>6. finished' \subseteq Piece
  BY <1>1, <1>2, AttemptKnown DEF LlmTypes
<1>7. LlmTypes'
  BY <1>1, <1>2, <1>3, <1>5, <1>6 DEF LlmTypes, OnTo, SameTask, bindingState
<1>8. Shown'
  BY <1>1, <1>2, <1>3, <1>5, <1>7, AttemptKnown, ShownWhileAsked DEF OnTo, SameTask, Asked
<1> QED BY <1>1, <1>2, <1>3, <1>5, <1>6, <1>8, AttemptKnown, AttemptGoesOn DEF LlmTypes, Asked

\* The answer is complete, unless the caller has given up.
LEMMA CompletionKeeps ==
    ASSUME LlmInv, call.pc = "reading", StreamCompletes,
           finished' = finished \cup {<<call.round, call.attempt>>},
           UNCHANGED <<bindingState, collected, transcript, visible, cancelled, requests>>
    PROVE  LlmInv'
<1>1. LlmTypes /\ call.pc \in Asked
  BY DEF LlmInv, Asked
<1>2. finished' \subseteq Piece
  BY <1>1, AttemptKnown DEF LlmTypes
<1>3. CASE cancelled
  <2>1. EndsAs("cancelled")
    BY <1>3 DEF StreamCompletes
  <2> QED BY <1>1, <1>2, <2>1, CallEnds DEF LlmTypes
<1>4. CASE ~cancelled
  <2>1. OnTo("finish")
    BY <1>1, <1>4 DEF StreamCompletes, OnTo, SameTask, CallRow, LlmTypes
  <2>2. LlmTypes'
    BY <1>1, <1>2, <2>1 DEF LlmTypes, OnTo, SameTask, bindingState
  <2>3. Shown'
    BY <1>1, <2>1, <2>2, AttemptKnown, ShownWhileAsked DEF OnTo, SameTask, Asked
  <2> QED BY <1>1, <1>2, <2>1, <2>3, AttemptGoesOn DEF LlmTypes, Asked
<1> QED BY <1>3, <1>4

LEMMA StreamEndsKeeps ==
    ASSUME LlmInv, DoneArrives \/ StreamCloses
    PROVE  LlmInv'
<1>1. CASE DoneArrives
  BY <1>1, CompletionKeeps DEF DoneArrives, Chunk
<1>2. CASE StreamCloses
  <2>1. call.pc = "reading"
        /\ UNCHANGED <<bindingState, collected, transcript, visible, cancelled, requests, finished>>
    BY <1>2 DEF StreamCloses
  <2>2. LlmTypes /\ call.pc \in Asked
    BY <2>1 DEF LlmInv, Asked
  <2>3. CASE Catalog[call.provider].protocol = "openai_chat" /\ collected.finish # "none"
    <3>1. StreamCompletes
      BY <1>2, <2>3 DEF StreamCloses
    <3>2. finished' = finished \cup {<<call.round, call.attempt>>}
      BY <2>1, <2>2, <2>3, AttemptKnown
    <3> QED BY <2>1, <3>1, <3>2, CompletionKeeps
  <2>4. CASE ~(Catalog[call.provider].protocol = "openai_chat" /\ collected.finish # "none")
    <3>1. PICK r \in {"error", "cancelled"} : EndsAs(r)
      <4>1. EndsAs(IF cancelled THEN "cancelled" ELSE "error")
        BY <1>2, <2>4 DEF StreamCloses
      <4>2. CASE cancelled
        BY <4>1, <4>2
      <4>3. CASE ~cancelled
        BY <4>1, <4>3
      <4> QED BY <4>2, <4>3
    <3> QED BY <2>1, <2>2, <3>1, CallEnds DEF LlmTypes
  <2> QED BY <2>3, <2>4
<1> QED BY <1>1, <1>2

LEMMA AnswerFailsKeeps ==
    ASSUME LlmInv, AnswerFails
    PROVE  LlmInv'
<1>1. /\ call.pc \in Asked /\ EndsAs("error") /\ LlmTypes
      /\ UNCHANGED <<bindingState, collected, transcript, visible, cancelled, requests, finished>>
  BY DEF AnswerFails, Asked, LlmInv
<1> QED BY <1>1, CallEnds DEF LlmTypes

LEMMA PostAnswersKeeps ==
    ASSUME LlmInv, PostAnswers
    PROVE  LlmInv'
<1>1. /\ call.pc = "sent" /\ ~call.streams /\ finished' = finished \cup {<<call.round, call.attempt>>}
      /\ UNCHANGED <<bindingState, transcript, visible, cancelled, requests>>
  BY DEF PostAnswers, Chunk
<1>2. LlmTypes /\ call.pc \in Asked
  BY <1>1 DEF LlmInv, Asked
<1>3. OnTo("finish")
  BY <1>1, <1>2 DEF PostAnswers, OnTo, SameTask, CallRow, LlmTypes
<1> PICK x \in Piece : x = <<call.round, call.attempt>>
  BY <1>2, AttemptKnown
<1>4. PICK text \in {<<>>, <<x>>}, calls \in SUBSET Offered, f \in {"stop", "length", "tool_calls"} :
          collected' = [text |-> text, calls |-> calls, finish |-> f]
  BY DEF PostAnswers, Chunk
<1>5. text \in Seq(Piece) /\ (\A n \in DOMAIN text : text[n] = x)
  <2>1. <<x>> \in Seq(Piece) /\ (\A n \in DOMAIN <<x>> : <<x>>[n] = x)
    OBVIOUS
  <2>2. <<>> \in Seq(Piece) /\ (\A n \in DOMAIN <<>> : <<>>[n] = x)
    OBVIOUS
  <2> QED BY <1>4, <2>1, <2>2
<1>6. calls \in SUBSET Indexes /\ (~call.tools => calls = {})
  BY <1>4 DEF Offered
<1>7. collected' \in CollectedRow /\ collected'.text = text /\ collected'.calls = calls
  BY <1>4, <1>5, <1>6 DEF CollectedRow
<1>8. finished' \subseteq Piece
  BY <1>1, <1>2, AttemptKnown DEF LlmTypes
<1>9. LlmTypes'
  BY <1>1, <1>2, <1>3, <1>7, <1>8 DEF LlmTypes, OnTo, SameTask, bindingState
<1>10. Shown'
  BY <1>1, <1>2, <1>3, <1>5, <1>6, <1>7, <1>9, AttemptKnown, ShownWhileAsked DEF OnTo, SameTask, Asked
<1> QED BY <1>1, <1>2, <1>3, <1>7, <1>8, <1>10, AttemptGoesOn DEF LlmTypes, Asked

\* A request goes out.
LEMMA RequestGoesOut ==
    ASSUME requests \in Seq(RequestRow), call \in CallRow, cancelled \in BOOLEAN, Requested(call),
           \A n \in DOMAIN requests : requests[n].provider = call.provider
    PROVE  /\ requests' \in Seq(RequestRow) /\ Len(requests') = Len(requests) + 1 /\ Len(requests) \in Nat
           /\ \A n \in DOMAIN requests' : requests'[n].provider = call.provider
           /\ Cardinality(LateOnes) \in Nat
           /\ cancelled => Cardinality(LateOnes') = Cardinality(LateOnes) + 1
           /\ ~cancelled => LateOnes' = LateOnes
<1> PICK r \in RequestRow : r = [provider |-> call.provider, late |-> cancelled]
  BY DEF RequestRow, CallRow
<1>1. requests' = Append(requests, r) /\ r.provider = call.provider /\ r.late = cancelled
  BY DEF Requested
<1>2. /\ requests' \in Seq(RequestRow) /\ Len(requests') = Len(requests) + 1
      /\ DOMAIN requests' = DOMAIN requests \cup {Len(requests) + 1}
      /\ DOMAIN requests = 1 .. Len(requests) /\ Len(requests) \in Nat
      /\ requests'[Len(requests) + 1] = r
      /\ \A n \in DOMAIN requests : requests'[n] = requests[n]
  BY <1>1, AppendGives
<1>3. \A n \in DOMAIN requests' : requests'[n].provider = call.provider
  BY <1>1, <1>2
<1>4. IsFiniteSet(LateOnes) /\ Cardinality(LateOnes) \in Nat
  BY LateOnesFinite
<1>5. ASSUME cancelled
      PROVE  Cardinality(LateOnes') = Cardinality(LateOnes) + 1
  <2>1. LateOnes' = LateOnes \cup {Len(requests) + 1} /\ Len(requests) + 1 \notin LateOnes
    BY <1>1, <1>2, <1>5 DEF LateOnes
  <2> QED BY <1>4, <2>1, FS_AddElement
<1>6. ASSUME ~cancelled
      PROVE  LateOnes' = LateOnes
  BY <1>1, <1>2, <1>6 DEF LateOnes
<1> QED BY <1>2, <1>3, <1>4, <1>5, <1>6

\* An attempt begins, the first of its round or another.
LEMMA AttemptBegins ==
    ASSUME LlmInv, call.pc \in Asked \cup {"round"}, Requested(call),
           SameTask, call'.pc = "sent", ~call'.emitted, call'.round = call.round,
           call'.result = "none", call'.attempt \in 1 .. Retries + 1,
           collected' = NothingCollected, visible = <<>>,
           Len(requests) + 1 <= Budget(call.round) + call'.attempt,
           cancelled => Cardinality(LateOnes) + 1 <= call'.attempt - 1,
           UNCHANGED <<bindingState, transcript, visible, cancelled, finished>>
    PROVE  LlmInv'
<1>1. LlmTypes /\ Progress /\ Shown /\ Told /\ Bounded /\ Bound
  BY DEF LlmInv
<1>2. /\ requests' \in Seq(RequestRow) /\ Len(requests') = Len(requests) + 1 /\ Len(requests) \in Nat
      /\ \A n \in DOMAIN requests' : requests'[n].provider = call.provider
      /\ Cardinality(LateOnes) \in Nat
      /\ cancelled => Cardinality(LateOnes') = Cardinality(LateOnes) + 1
      /\ ~cancelled => LateOnes' = LateOnes
  BY <1>1, RequestGoesOut DEF LlmTypes, Bounded
<1>3. LlmTypes'
  BY <1>1, <1>2, EmptyCollection DEF LlmTypes, SameTask, bindingState
<1>4. call.round \in Nat /\ call.round <= RoundLimit /\ RoundLimit \in Nat /\ Retries \in Nat
  BY <1>1, RoundLimitType, LlmBounds DEF Progress, Asked, LlmTypes, CallRow
<1>5. Progress'
  <2>1. (~call.tools => call.round = 0) /\ (cancelled => call.streams)
    BY <1>1 DEF Progress
  <2> QED BY <1>4, <2>1 DEF Progress, SameTask
<1>6. Shown'
  <2>1. /\ \A n \in DOMAIN collected'.text : collected'.text[n] = <<call'.round, call'.attempt>>
        /\ collected'.calls = {} /\ collected'.finish = "none"
        /\ visible' = (IF call'.streams /\ ~call'.tools THEN collected'.text ELSE <<>>)
    BY EmptyCollection
  <2>2. call'.pc \in Asked /\ call'.pc # "finish"
    BY DEF Asked
  <2> QED BY <1>3, <2>1, <2>2, ShownWhileAsked
<1>7. Told'
  BY <1>1, ToldStays DEF Asked
<1>8. Bounded'
  <2>1. /\ Budget(call.round) \in Nat /\ Budget(call.round + 1) = Budget(call.round) + Retries + 1
        /\ Budget(call.round + 1) <= Budget(RoundLimit + 1) /\ Budget(RoundLimit + 1) \in Nat
    <3>1. RoundLimit + 1 \in Nat /\ call.round + 1 \in Nat /\ call.round + 1 <= RoundLimit + 1
      BY <1>4
    <3>2. Budget(RoundLimit + 1) \in Nat /\ Budget(call.round + 1) <= Budget(RoundLimit + 1)
      BY <3>1, BudgetGrows
    <3>3. Budget(call.round) \in Nat /\ Budget(call.round + 1) = Budget(call.round) + Retries + 1
      BY <1>4, BudgetGrows
    <3> QED BY <3>2, <3>3
  <2>2. Budget(call'.round) = Budget(call.round) /\ Len(requests') <= Budget(call.round) + call'.attempt
    BY <1>2, <1>4, <2>1
  <2>3. Len(requests') <= Budget(RoundLimit + 1)
    <3>1. call'.attempt \in Nat /\ call'.attempt <= Retries + 1 /\ Len(requests') \in Nat
      BY <1>2, <1>4
    <3>2. Budget(call.round) + call'.attempt <= Budget(call.round + 1)
      BY <1>4, <2>1, <3>1
    <3> QED BY <1>4, <2>1, <2>2, <3>1, <3>2
  <2>4. ~cancelled' => LateOnes' = {}
    BY <1>1, <1>2 DEF Bounded
  <2>5. Cardinality(LateOnes') <= call'.attempt - 1
    <3>1. CASE cancelled
      BY <1>2, <3>1
    <3>2. CASE ~cancelled
      <4>1. LateOnes' = {}
        BY <2>4, <3>2
      <4> QED BY <4>1, FS_EmptySet
    <3> QED BY <3>1, <3>2
  <2>6. Cardinality(LateOnes') <= Retries
    <3>1. Cardinality(LateOnes') \in Nat
      BY <1>2, <1>3, LateOnesFinite, <2>4, FS_EmptySet
    <3> QED BY <1>4, <2>5, <3>1
  <2>7. (Budget(RoundLimit + 1))' = Budget(RoundLimit + 1) /\ (Budget(call.round))' = Budget(call.round)
    BY DEF Budget, RoundLimit
  <2> QED BY <1>2, <2>2, <2>3, <2>4, <2>5, <2>6, <2>7 DEF Bounded, SameTask
<1>9. Bound'
  BY <1>1, BoundStays DEF SameTask, Asked
<1> QED BY <1>3, <1>5, <1>6, <1>7, <1>8, <1>9 DEF LlmInv

LEMMA ConnectionFailsKeeps ==
    ASSUME LlmInv, ConnectionFails
    PROVE  LlmInv'
<1>1. /\ call.pc \in {"sent", "reading"} /\ call.pc \in Asked
      /\ UNCHANGED <<bindingState, collected, transcript, visible, cancelled, finished>>
  BY DEF ConnectionFails, Asked
<1>2. LlmTypes /\ Progress /\ Bounded
  BY DEF LlmInv
<1>3. CASE ~MayTryAgain
  <2>1. EndsAs("error") /\ UNCHANGED requests
    BY <1>3 DEF ConnectionFails
  <2> QED BY <1>1, <1>2, <2>1, CallEnds DEF LlmTypes
<1>4. CASE MayTryAgain
  <2>1. ~call.emitted /\ call.attempt <= Retries /\ Retries \in Nat
    BY <1>4, LlmBounds DEF MayTryAgain
  <2>2. call.attempt \in 1 .. Retries + 1 /\ call.result = "none" /\ call.round \in Nat
    BY <1>1, AttemptKnown
  <2>3. /\ Requested(call) /\ call'.attempt = call.attempt + 1
        /\ SameTask /\ call'.pc = "sent" /\ ~call'.emitted /\ call'.round = call.round /\ call'.result = "none"
    <3>1. Requested(call) /\ call' = [call EXCEPT !.pc = "sent", !.attempt = @ + 1, !.emitted = FALSE]
      BY <1>4 DEF ConnectionFails
    <3>2. PICK a \in Nat : a = call.attempt + 1
      BY <2>1, <2>2
    <3>3. call' = [call EXCEPT !.pc = "sent", !.attempt = a, !.emitted = FALSE] /\ call \in CallRow
      BY <1>2, <3>1, <3>2 DEF LlmTypes
    <3> QED BY <2>2, <3>1, <3>2, <3>3 DEF SameTask, CallRow
  <2>4. call'.attempt \in 1 .. Retries + 1
    BY <2>1, <2>2, <2>3
  <2>5. collected = NothingCollected
    BY <1>1, <2>1, AttemptKnown
  <2>6. visible = <<>>
    BY <1>1, <2>5, AttemptKnown, EmptyCollection
  <2>7. Len(requests) \in Nat /\ Budget(call.round) \in Nat /\ Cardinality(LateOnes) \in Nat
    <3>1. requests \in Seq(RequestRow)
      BY <1>2 DEF LlmTypes
    <3>2. Len(requests) \in Nat
      BY <3>1
    <3>3. Budget(call.round) \in Nat
      BY <2>2, BudgetGrows
    <3>4. Cardinality(LateOnes) \in Nat
      BY <3>1, LateOnesFinite
    <3> QED BY <3>2, <3>3, <3>4
  <2>8. Len(requests) <= Budget(call.round) + call.attempt /\ Cardinality(LateOnes) <= call.attempt - 1
    BY <1>1, <1>2 DEF Bounded
  <2>9. Len(requests) + 1 <= Budget(call.round) + call'.attempt /\ Cardinality(LateOnes) + 1 <= call'.attempt - 1
    BY <2>2, <2>3, <2>7, <2>8
  <2> QED BY <1>1, <2>3, <2>4, <2>5, <2>6, <2>9, AttemptBegins
<1> QED BY <1>3, <1>4

LEMMA BeginRoundKeeps ==
    ASSUME LlmInv, BeginRound
    PROVE  LlmInv'
<1>1. /\ call.pc = "round" /\ collected' = NothingCollected
      /\ UNCHANGED <<bindingState, transcript, visible, cancelled, finished>>
  BY DEF BeginRound
<1>2. LlmTypes /\ Progress /\ Bounded /\ Shown
  BY DEF LlmInv
<1>3. CASE call.streams /\ cancelled
  <2>1. EndsAs("cancelled") /\ UNCHANGED requests
    BY <1>3 DEF BeginRound
  <2> QED BY <1>1, <1>2, <2>1, CallEnds, EmptyCollection DEF LlmTypes
<1>4. CASE ~(call.streams /\ cancelled)
  <2>1. ~cancelled /\ visible = <<>> /\ call.result = "none" /\ Retries \in Nat /\ call.round \in Nat
    BY <1>1, <1>2, <1>4, LlmBounds DEF Progress, Shown, LlmTypes, CallRow
  <2>2. /\ Requested(call) /\ call'.attempt = 1
        /\ SameTask /\ call'.pc = "sent" /\ ~call'.emitted /\ call'.round = call.round /\ call'.result = "none"
    <3>1. Requested(call) /\ call' = [call EXCEPT !.pc = "sent", !.attempt = 1, !.emitted = FALSE]
      BY <1>4 DEF BeginRound
    <3>2. call \in CallRow
      BY <1>2 DEF LlmTypes
    <3> QED BY <2>1, <3>1, <3>2 DEF SameTask, CallRow
  <2>3. Len(requests) \in Nat /\ Budget(call.round) \in Nat /\ Len(requests) <= Budget(call.round)
    <3>1. requests \in Seq(RequestRow) /\ Len(requests) <= Budget(call.round)
      BY <1>1, <1>2 DEF LlmTypes, Bounded
    <3>2. Len(requests) \in Nat
      BY <3>1
    <3>3. Budget(call.round) \in Nat
      BY <2>1, BudgetGrows
    <3> QED BY <3>1, <3>2, <3>3
  <2>4. call'.attempt \in 1 .. Retries + 1 /\ Len(requests) + 1 <= Budget(call.round) + call'.attempt
    BY <2>1, <2>2, <2>3
  <2> QED BY <1>1, <2>1, <2>2, <2>4, AttemptBegins
<1> QED BY <1>3, <1>4

(* What a round comes to. *)

LEMMA RepliesKeep ==
    ASSUME LlmInv, call.pc = "finish", Replies,
           UNCHANGED <<bindingState, collected, transcript, cancelled, requests, finished>>
    PROVE  LlmInv'
<1>1. LlmTypes /\ Progress /\ Shown /\ Told /\ Bounded /\ Bound /\ call.pc \in Asked
  BY DEF LlmInv, Asked
<1>2. CASE collected.text = <<>>
  <2>1. EndsAs("error") /\ UNCHANGED visible
    BY <1>2 DEF Replies
  <2> QED BY <1>1, <2>1, CallEnds DEF LlmTypes
<1>3. CASE collected.text # <<>>
  <2> DEFINE x == <<call.round, call.attempt>>
  <2>1. /\ collected.text \in Seq(Piece) /\ x \in finished
        /\ \A n \in DOMAIN collected.text : collected.text[n] = x
        /\ visible = (IF call.streams /\ ~call.tools THEN collected.text ELSE <<>>)
    BY <1>1, AttemptKnown DEF LlmTypes, CollectedRow
  <2>2. /\ SameTask /\ call'.pc = "over" /\ call'.result = "ok" /\ call'.reply = collected.text
        /\ call'.round = call.round /\ call'.attempt = call.attempt
    BY <1>1, <1>3, <2>1 DEF Replies, SameTask, CallRow, LlmTypes
  <2>3. /\ call.streams => visible' = collected.text
        /\ visible' = collected.text \/ visible' = <<>>
    <3>1. visible' = IF call.streams /\ call.tools THEN collected.text ELSE visible
      BY <1>3 DEF Replies
    <3> QED BY <2>1, <3>1
  <2>4. visible' \in Seq(Piece)
    <3>1. <<>> \in Seq(Piece)
      OBVIOUS
    <3> QED BY <2>1, <2>3, <3>1
  <2>5. LlmTypes'
    BY <1>1, <2>2, <2>4 DEF LlmTypes, SameTask, bindingState
  <2>6. Progress'
    <3>1. (~call.tools => call.round = 0) /\ (cancelled => call.streams)
      BY <1>1 DEF Progress
    <3> QED BY <2>2, <3>1 DEF Progress, SameTask, Asked
  <2>7. Shown'
    <3>1. \A n, m \in DOMAIN visible' : visible'[n] = visible'[m]
      <4>1. CASE visible' = collected.text
        BY <2>1, <4>1
      <4>2. CASE visible' = <<>>
        BY <4>2
      <4> QED BY <2>3, <4>1, <4>2
    <3>2. ReplyIsShownAndWhole'
      BY <2>1, <2>2, <2>3 DEF ReplyIsShownAndWhole, SameTask
    <3>3. ToolRoundIsSilent'
      BY <2>2 DEF ToolRoundIsSilent
    <3> QED BY <2>2, <3>1, <3>2, <3>3 DEF Shown, Asked
  <2>8. Told'
    BY <2>2 DEF Told, Asked
  <2>9. Bounded'
    BY <1>1, <2>2, BoundedStays DEF SameTask
  <2>10. Bound'
    BY <1>1, <2>2, BoundStays DEF SameTask
  <2> QED BY <2>5, <2>6, <2>7, <2>8, <2>9, <2>10 DEF LlmInv
<1> QED BY <1>2, <1>3

\* The calls of an answer are finite in number, and what has been answered stays so.
LEMMA TurnCalls ==
    ASSUME transcript \in Seq(Turn), NEW n \in DOMAIN transcript, transcript[n].role = "assistant"
    PROVE  transcript[n].calls \subseteq Indexes /\ IsFiniteSet(transcript[n].calls)
<1>1. transcript[n] \in Turn
  BY DEF Turn
<1>2. transcript[n].calls \subseteq Indexes
  BY <1>1 DEF Turn
<1> QED BY <1>2, LlmBounds, FS_Subset

LEMMA AnsweredKept ==
    ASSUME transcript \in Seq(Turn), NEW x \in Turn, transcript' = Append(transcript, x),
           NEW n \in DOMAIN transcript, transcript[n].role = "assistant", Answered(n)
    PROVE  Answered(n)'
<1> DEFINE c == Cardinality(transcript[n].calls)
<1>1. c \in Nat
  BY TurnCalls, FS_CardinalityType
<1>2. /\ Len(transcript') = Len(transcript) + 1 /\ DOMAIN transcript = 1 .. Len(transcript)
      /\ Len(transcript) \in Nat
      /\ \A m \in DOMAIN transcript : transcript'[m] = transcript[m]
  BY AppendGives
<1>3. n + c <= Len(transcript) /\ {transcript[m].call : m \in (n + 1)..(n + c)} = transcript[n].calls
  BY DEF Answered
<1>4. transcript'[n] = transcript[n] /\ n \in Nat
  BY <1>2
<1> HIDE DEF c
<1>5. \A m \in (n + 1)..(n + c) : transcript'[m] = transcript[m]
  BY <1>1, <1>2, <1>3, <1>4
<1>6. {transcript'[m].call : m \in (n + 1)..(n + c)} = {transcript[m].call : m \in (n + 1)..(n + c)}
  BY <1>5
<1>7. n + c <= Len(transcript')
  BY <1>1, <1>2, <1>3, <1>4
<1> QED BY <1>3, <1>4, <1>6, <1>7 DEF Answered, c

\* What was answered before the turn at l stays so when another turn follows.
LEMMA AnsweredBeforeKept ==
    ASSUME transcript \in Seq(Turn), NEW x \in Turn, transcript' = Append(transcript, x),
           NEW l \in Nat, l <= Len(transcript) + 1, AnsweredBefore(l), call'.round = call.round
    PROVE  AnsweredBefore(l)'
<1>1. /\ DOMAIN transcript' = DOMAIN transcript \cup {Len(transcript) + 1}
      /\ DOMAIN transcript = 1 .. Len(transcript) /\ Len(transcript) \in Nat
      /\ \A m \in DOMAIN transcript : transcript'[m] = transcript[m]
  BY AppendGives
<1>2. ASSUME NEW n \in DOMAIN transcript', n < l
      PROVE  /\ transcript'[n].role = "assistant" => Answered(n)'
             /\ transcript'[n].role = "tool" => transcript'[n].round < call'.round
  <2>1. n \in DOMAIN transcript /\ transcript'[n] = transcript[n]
    BY <1>1, <1>2
  <2>2. /\ transcript[n].role = "assistant" => Answered(n)
        /\ transcript[n].role = "tool" => transcript[n].round < call.round
    BY <1>2, <2>1 DEF AnsweredBefore
  <2>3. ASSUME transcript[n].role = "assistant"
        PROVE  Answered(n)'
    BY <2>1, <2>2, <2>3, AnsweredKept
  <2> QED BY <2>1, <2>2, <2>3
<1> QED BY <1>2 DEF AnsweredBefore

\* The model asks for tools.
LEMMA ToolsAreAsked ==
    ASSUME LlmInv, call.pc = "finish", collected.calls # {}, call.round < RoundLimit,
           call' = [call EXCEPT !.pc = "tools"],
           transcript' = Append(transcript, [role |-> "assistant", calls |-> collected.calls]),
           UNCHANGED <<bindingState, collected, visible, cancelled, requests, finished>>
    PROVE  LlmInv'
<1>1. LlmTypes /\ Progress /\ Shown /\ Told /\ Bounded /\ Bound /\ call.pc \in Asked
  BY DEF LlmInv, Asked
<1>2. OnTo("tools")
  BY <1>1 DEF OnTo, SameTask, CallRow, LlmTypes
<1>3. collected.calls \subseteq Indexes
  BY <1>1 DEF LlmTypes, CollectedRow
<1>5. transcript \in Seq(Turn)
  BY <1>1 DEF LlmTypes
<1> PICK l \in Nat : l = Len(transcript) + 1
  BY <1>5
<1> PICK x \in Turn : x = [role |-> "assistant", calls |-> collected.calls]
  BY <1>3 DEF Turn
<1>4. x.role = "assistant" /\ x.calls = collected.calls /\ transcript' = Append(transcript, x)
  OBVIOUS
<1>6. /\ transcript' \in Seq(Turn) /\ Len(transcript') = l /\ Len(transcript) \in Nat
      /\ DOMAIN transcript' = DOMAIN transcript \cup {l} /\ DOMAIN transcript = 1 .. Len(transcript)
      /\ transcript'[l] = x
  BY <1>4, <1>5, AppendGives
<1>7. call.tools /\ visible = <<>> /\ call.result = "none" /\ call.attempt \in 1 .. Retries + 1
  BY <1>1, AttemptKnown
<1>8. LlmTypes'
  BY <1>1, <1>2, <1>6 DEF LlmTypes, OnTo, SameTask, bindingState
<1>9. Progress'
  <2>1. (~call.tools => call.round = 0) /\ (cancelled => call.streams) /\ RoundLimit' = RoundLimit
    BY <1>1 DEF Progress, RoundLimit
  <2> QED BY <1>2, <1>7, <2>1 DEF Progress, OnTo, SameTask
<1>10. Shown'
  <2>1. ReplyIsShownAndWhole' /\ ToolRoundIsSilent' /\ visible' = <<>>
    BY <1>2, <1>7 DEF ReplyIsShownAndWhole, ToolRoundIsSilent, OnTo
  <2> QED BY <1>2, <2>1 DEF Shown, OnTo, Asked
<1>11. Told'
  <2>1. AnsweredBefore(l)'
    <3>1. AnsweredBefore(l) /\ l \in Nat /\ l <= Len(transcript) + 1 /\ call'.round = call.round
      BY <1>1, <1>2, <1>6 DEF Told, OnTo
    <3> QED BY <1>4, <1>5, <3>1, AnsweredBeforeKept
  <2>2. GivenSince(l)' = {} /\ ~(\E n \in DOMAIN transcript' : n > l)
    <3>1. (l + 1) .. Len(transcript') = {}
      BY <1>6
    <3> QED BY <1>6, <3>1 DEF GivenSince
  <2>3. Cardinality(GivenSince(l)') = Len(transcript') - l
    <3>1. Cardinality(GivenSince(l)') = 0
      BY <2>2, FS_EmptySet
    <3>2. Len(transcript') - l = 0
      BY <1>6
    <3> QED BY <3>1, <3>2
  <2>4. Asking(l)'
    <3>1. transcript'[l].role = "assistant" /\ transcript'[l].calls = collected'.calls
      BY <1>4, <1>6
    <3>2. \A n \in DOMAIN transcript' : n > l =>
              /\ transcript'[n].role = "tool" /\ transcript'[n].round = call'.round
              /\ transcript'[n].call \in collected'.calls
      BY <2>2
    <3>3. collected'.calls \ GivenSince(l)' # {}
      BY <2>2
    <3> QED BY <2>1, <2>3, <3>1, <3>2, <3>3 DEF Asking
  <2>5. l \in DOMAIN transcript' /\ call'.pc = "tools"
    BY <1>2, <1>6 DEF OnTo
  <2> QED BY <2>4, <2>5 DEF Told, Asked
<1>12. Bounded'
  BY <1>1, <1>2, BoundedStays DEF OnTo, SameTask
<1>13. Bound'
  BY <1>1, <1>2, BoundStays DEF OnTo, SameTask
<1> QED BY <1>8, <1>9, <1>10, <1>11, <1>12, <1>13 DEF LlmInv

LEMMA FinishKeeps ==
    ASSUME LlmInv, FinishPlain \/ FinishRound
    PROVE  LlmInv'
<1>1. CASE FinishPlain
  BY <1>1, RepliesKeep DEF FinishPlain
<1>2. CASE FinishRound
  <2>1. call.pc = "finish" /\ UNCHANGED <<bindingState, collected, cancelled, requests, finished>>
    BY <1>2 DEF FinishRound
  <2>2. CASE FinishReason = "stop"
    <3>1. Replies /\ UNCHANGED transcript
      BY <1>2, <2>2 DEF FinishRound
    <3> QED BY <2>1, <3>1, RepliesKeep
  <2>3. CASE FinishReason = "tool_calls" /\ call.round < RoundLimit /\ collected.calls # {}
    <3>1. /\ call' = [call EXCEPT !.pc = "tools"]
          /\ transcript' = Append(transcript, [role |-> "assistant", calls |-> collected.calls])
          /\ UNCHANGED visible
      BY <1>2, <2>3 DEF FinishRound
    <3> QED BY <2>1, <2>3, <3>1, ToolsAreAsked
  <2>4. CASE /\ FinishReason # "stop"
             /\ ~(FinishReason = "tool_calls" /\ call.round < RoundLimit /\ collected.calls # {})
    <3>1. EndsAs("error") /\ UNCHANGED <<visible, transcript>>
      BY <1>2, <2>4 DEF FinishRound
    <3>2. LlmTypes /\ call.pc \in Asked
      BY <2>1 DEF LlmInv, Asked
    <3> QED BY <2>1, <3>1, <3>2, CallEnds DEF LlmTypes
  <2> QED BY <2>2, <2>3, <2>4
<1> QED BY <1>1, <1>2

\* What the tools of this round have handed back is what follows the turn that asked.
LEMMA GivenResultsAreSince ==
    ASSUME transcript \in Seq(Turn), NEW l \in DOMAIN transcript, Asking(l)
    PROVE  GivenResults = GivenSince(l)
<1>1. DOMAIN transcript = 1 .. Len(transcript) /\ Len(transcript) \in Nat
  OBVIOUS
<1>2. \A n \in DOMAIN transcript : n \in Nat
  BY <1>1
<1>3. {m \in DOMAIN transcript : transcript[m].role = "tool" /\ transcript[m].round = call.round}
          = (l + 1)..Len(transcript)
  <2>1. ASSUME NEW m \in DOMAIN transcript, transcript[m].role = "tool", transcript[m].round = call.round
        PROVE  m \in (l + 1)..Len(transcript)
    <3>1. ~(m < l)
      <4>1. m < l => transcript[m].round < call.round
        BY <2>1 DEF Asking, AnsweredBefore
      <4>2. transcript[m] \in Turn /\ transcript[m].role # "assistant"
        BY <2>1
      <4>3. transcript[m].round \in Nat
        BY <2>1, <4>2 DEF Turn
      <4> QED BY <2>1, <4>1, <4>3
    <3>2. m # l
      BY <2>1 DEF Asking
    <3> QED BY <1>1, <1>2, <3>1, <3>2
  <2>2. ASSUME NEW m \in (l + 1)..Len(transcript)
        PROVE  m \in DOMAIN transcript /\ transcript[m].role = "tool" /\ transcript[m].round = call.round
    <3>1. m \in DOMAIN transcript /\ m > l
      BY <1>1, <1>2
    <3> QED BY <3>1 DEF Asking
  <2> QED BY <2>1, <2>2
<1> QED BY <1>3 DEF GivenResults, GivenSince

\* A tool hands back its result; with the last of a round the turn is answered.
LEMMA ResultIsGiven ==
    ASSUME transcript \in Seq(Turn), NEW l \in DOMAIN transcript, Asking(l), call.round \in Nat,
           collected \in CollectedRow, NEW k \in collected.calls \ GivenSince(l),
           transcript' = Append(transcript, [role |-> "tool", round |-> call.round, call |-> k]),
           UNCHANGED collected
    PROVE  /\ transcript' \in Seq(Turn) /\ l \in DOMAIN transcript'
           /\ GivenSince(l)' = GivenSince(l) \cup {k}
           /\ call'.round = call.round /\ collected.calls \ GivenSince(l) # {k} => Asking(l)'
           /\ call'.round = call.round + 1 /\ collected.calls \ GivenSince(l) = {k}
                  => AnsweredBefore(Len(transcript) + 1)'
<1>1. collected.calls \subseteq Indexes /\ k \in Indexes /\ IsFiniteSet(collected.calls)
  BY LlmBounds, FS_Subset DEF CollectedRow
<1> PICK x \in Turn : x = [role |-> "tool", round |-> call.round, call |-> k]
  BY <1>1 DEF Turn
<1>2. x.role = "tool" /\ x.round = call.round /\ x.call = k /\ transcript' = Append(transcript, x)
  OBVIOUS
<1>3. /\ transcript' \in Seq(Turn) /\ Len(transcript') = Len(transcript) + 1 /\ Len(transcript) \in Nat
      /\ DOMAIN transcript' = DOMAIN transcript \cup {Len(transcript) + 1}
      /\ DOMAIN transcript = 1 .. Len(transcript)
      /\ transcript'[Len(transcript) + 1] = x
      /\ \A m \in DOMAIN transcript : transcript'[m] = transcript[m]
  BY <1>2, AppendGives
<1>4. l \in Nat /\ l <= Len(transcript) /\ l \in DOMAIN transcript' /\ transcript'[l] = transcript[l]
  BY <1>3
<1>5. GivenSince(l)' = GivenSince(l) \cup {k}
  <2>1. (l + 1) .. Len(transcript') = ((l + 1) .. Len(transcript)) \cup {Len(transcript) + 1}
    BY <1>3, <1>4
  <2>2. \A m \in (l + 1) .. Len(transcript) : transcript'[m] = transcript[m]
    BY <1>3, <1>4
  <2> QED BY <1>2, <1>3, <2>1, <2>2 DEF GivenSince
<1>6. GivenSince(l) \subseteq collected.calls
  <2>1. \A m \in (l + 1) .. Len(transcript) : m \in DOMAIN transcript /\ m > l
    BY <1>3, <1>4
  <2> QED BY <2>1 DEF Asking, GivenSince
<1>7. Cardinality(GivenSince(l)') = Len(transcript') - l
  <2>1. IsFiniteSet(GivenSince(l)) /\ k \notin GivenSince(l)
    BY <1>1, <1>6, FS_Subset
  <2>2. Cardinality(GivenSince(l) \cup {k}) = Cardinality(GivenSince(l)) + 1
    BY <2>1, FS_AddElement
  <2>3. Cardinality(GivenSince(l)) = Len(transcript) - l
    BY DEF Asking
  <2> QED BY <1>3, <1>4, <1>5, <2>2, <2>3
<1>8. \A n \in DOMAIN transcript' : n > l =>
          /\ transcript'[n].role = "tool" /\ transcript'[n].round = call.round
          /\ transcript'[n].call \in collected.calls
  <2>1. \A n \in DOMAIN transcript : n > l =>
          /\ transcript[n].role = "tool" /\ transcript[n].round = call.round
          /\ transcript[n].call \in collected.calls
    BY DEF Asking
  <2> QED BY <1>2, <1>3, <2>1
<1>9. transcript'[l].role = "assistant" /\ transcript'[l].calls = collected.calls /\ AnsweredBefore(l)
  BY <1>4 DEF Asking
<1>10. ASSUME call'.round = call.round, collected.calls \ GivenSince(l) # {k}
       PROVE  Asking(l)'
  <2>1. AnsweredBefore(l)'
    <3>1. l <= Len(transcript) + 1
      BY <1>3, <1>4
    <3> QED BY <1>2, <1>4, <1>9, <1>10, <3>1, AnsweredBeforeKept
  <2>2. collected.calls \ GivenSince(l)' # {}
    BY <1>5, <1>10
  <2> QED BY <1>7, <1>8, <1>9, <1>10, <2>1, <2>2 DEF Asking
<1>11. ASSUME call'.round = call.round + 1, collected.calls \ GivenSince(l) = {k}
       PROVE  AnsweredBefore(Len(transcript) + 1)'
  <2>1. GivenSince(l)' = collected.calls
    BY <1>5, <1>6, <1>11
  <2>2. Answered(l)'
    <3>1. Cardinality(transcript'[l].calls) = Len(transcript') - l
      BY <1>7, <1>9, <2>1
    <3>2. l + (Len(transcript') - l) = Len(transcript')
      BY <1>3, <1>4
    <3>3. {transcript'[m].call : m \in (l + 1)..Len(transcript')} = collected.calls
      BY <2>1 DEF GivenSince
    <3>4. Len(transcript') <= Len(transcript')
      BY <1>3
    <3> QED BY <1>9, <3>1, <3>2, <3>3, <3>4 DEF Answered
  <2>3. ASSUME NEW n \in DOMAIN transcript'
        PROVE  /\ transcript'[n].role = "assistant" => Answered(n)'
               /\ transcript'[n].role = "tool" => transcript'[n].round < call'.round
    <3>1. CASE n > l
      <4>1. transcript'[n].role = "tool" /\ transcript'[n].round = call.round
        BY <1>8, <3>1
      <4> QED BY <1>11, <4>1
    <3>2. CASE n = l
      BY <1>9, <2>2, <3>2
    <3>3. CASE n < l
      <4>1. n \in DOMAIN transcript /\ transcript'[n] = transcript[n]
        BY <1>3, <1>4, <3>3
      <4>2. /\ transcript[n].role = "assistant" => Answered(n)
            /\ transcript[n].role = "tool" => transcript[n].round < call.round
        BY <1>9, <3>3, <4>1 DEF AnsweredBefore
      <4>3. ASSUME transcript[n].role = "assistant"
            PROVE  Answered(n)'
        BY <1>2, <4>1, <4>2, <4>3, AnsweredKept
      <4>4. ASSUME transcript[n].role = "tool"
            PROVE  transcript[n].round < call'.round
        <5>1. transcript[n] \in Turn /\ transcript[n].role # "assistant"
          BY <4>1, <4>4
        <5>2. transcript[n].round \in Nat
          BY <4>4, <5>1 DEF Turn
        <5> QED BY <1>11, <4>2, <4>4, <5>2
      <4> QED BY <4>1, <4>3, <4>4
    <3>4. n \in Nat
      BY <1>3
    <3> QED BY <1>4, <3>1, <3>2, <3>3, <3>4
  <2> QED BY <2>3 DEF AnsweredBefore
<1> QED BY <1>3, <1>4, <1>5, <1>10, <1>11

LEMMA RunToolKeeps ==
    ASSUME LlmInv, RunTool
    PROVE  LlmInv'
<1>1. LlmTypes /\ Progress /\ Shown /\ Told /\ Bounded /\ Bound
  BY DEF LlmInv
<1>2. call.pc = "tools" /\ UNCHANGED <<bindingState, collected, visible, cancelled, requests, finished>>
  BY DEF RunTool
<1>3. transcript \in Seq(Turn) /\ call \in CallRow /\ collected \in CollectedRow /\ call.round \in Nat
  BY <1>1 DEF LlmTypes, CallRow
<1>4. PICK l \in DOMAIN transcript : Asking(l)
  BY <1>1, <1>2 DEF Told
<1>5. GivenResults = GivenSince(l)
  BY <1>3, <1>4, GivenResultsAreSince
<1> PICK k \in collected.calls \ GivenSince(l) : k = NextCall
  <2>1. collected.calls \ GivenSince(l) \in SUBSET Nat /\ collected.calls \ GivenSince(l) # {}
    BY <1>3, <1>4, LlmBounds DEF Asking, CollectedRow
  <2> QED BY <1>5, <2>1, FirstIsLeast DEF NextCall
<1>6. transcript' = Append(transcript, [role |-> "tool", round |-> call.round, call |-> k])
  BY DEF RunTool
<1>7. /\ transcript' \in Seq(Turn) /\ l \in DOMAIN transcript'
      /\ call'.round = call.round /\ collected.calls \ GivenSince(l) # {k} => Asking(l)'
      /\ call'.round = call.round + 1 /\ collected.calls \ GivenSince(l) = {k}
             => AnsweredBefore(Len(transcript) + 1)'
  BY <1>2, <1>3, <1>4, <1>6, ResultIsGiven
<1>8. /\ call.round < RoundLimit /\ call.tools /\ call.result = "none" /\ visible = <<>>
      /\ call.attempt \in 1 .. Retries + 1 /\ RoundLimit \in Nat /\ Retries \in Nat
      /\ cancelled => call.streams
  BY <1>1, <1>2, RoundLimitType, LlmBounds DEF Progress, Shown
<1>9. LateOnes' = LateOnes /\ RoundLimit' = RoundLimit
  BY <1>2 DEF LateOnes, RoundLimit
<1>10. CASE collected.calls \ GivenSince(l) = {k}
  <2>1. /\ SameTask /\ call'.pc = "round" /\ call'.round = call.round + 1
        /\ call'.result = "none" /\ call'.attempt = call.attempt
    <3>1. call' = [call EXCEPT !.pc = "round", !.round = @ + 1]
      BY <1>5, <1>10 DEF RunTool
    <3>2. PICK r \in Nat : r = call.round + 1
      BY <1>3
    <3>3. call' = [call EXCEPT !.pc = "round", !.round = r]
      BY <3>1, <3>2
    <3> QED BY <1>3, <1>8, <3>2, <3>3 DEF SameTask, CallRow
  <2>2. LlmTypes'
    BY <1>1, <1>2, <1>7, <2>1 DEF LlmTypes, SameTask, bindingState
  <2>3. Progress'
    BY <1>2, <1>3, <1>8, <1>9, <2>1 DEF Progress, SameTask, Asked
  <2>4. Shown'
    <3>1. ReplyIsShownAndWhole' /\ ToolRoundIsSilent' /\ visible' = <<>>
      BY <1>2, <1>8, <2>1 DEF ReplyIsShownAndWhole, ToolRoundIsSilent
    <3> QED BY <2>1, <3>1 DEF Shown, Asked
  <2>5. Told'
    BY <1>7, <1>10, <2>1 DEF Told, Asked
  <2>6. Bounded'
    <3>1. requests \in Seq(RequestRow) /\ Len(requests) <= Budget(call.round) + call.attempt
      BY <1>1, <1>2 DEF LlmTypes, Bounded
    <3>2. Len(requests) \in Nat
      BY <3>1
    <3>3. Budget(call.round) \in Nat /\ Budget(call.round + 1) = Budget(call.round) + Retries + 1
      BY <1>3, BudgetGrows
    <3>4. Len(requests) <= Budget(call.round + 1)
      BY <1>8, <3>1, <3>2, <3>3
    <3>5. Budget(call'.round) = Budget(call.round + 1)
      BY <2>1
    <3> QED BY <1>1, <1>2, <1>9, <2>1, <3>4, <3>5 DEF Bounded, SameTask, Asked, Budget
  <2>7. Bound'
    BY <1>1, <1>2, <2>1, BoundStays DEF SameTask
  <2> QED BY <2>2, <2>3, <2>4, <2>5, <2>6, <2>7 DEF LlmInv
<1>11. CASE collected.calls \ GivenSince(l) # {k}
  <2>1. call' = call
    BY <1>5, <1>11 DEF RunTool
  <2>2. LlmTypes'
    BY <1>1, <1>2, <1>7, <2>1 DEF LlmTypes, bindingState
  <2>3. Progress'
    BY <1>1, <1>2, <1>9, <2>1 DEF Progress
  <2>4. Shown'
    <3>1. ReplyIsShownAndWhole' /\ ToolRoundIsSilent' /\ visible' = <<>>
      BY <1>2, <1>8, <2>1 DEF ReplyIsShownAndWhole, ToolRoundIsSilent
    <3> QED BY <1>2, <2>1, <3>1 DEF Shown, Asked
  <2>5. Told'
    BY <1>2, <1>7, <1>11, <2>1 DEF Told, Asked
  <2>6. Bounded'
    BY <1>1, <1>2, <1>9, <2>1 DEF Bounded
  <2>7. Bound'
    BY <1>1, <1>2, <2>1, BoundStays
  <2> QED BY <2>2, <2>3, <2>4, <2>5, <2>6, <2>7 DEF LlmInv
<1> QED BY <1>10, <1>11

LEMMA StartCallKeeps ==
    ASSUME LlmInv, NEW kind \in {"plain", "loop"}, NEW s \in BOOLEAN, NEW t \in BOOLEAN, NEW f \in BOOLEAN,
           StartCall(kind, s, t, f)
    PROVE  LlmInv'
<1>1. LlmTypes /\ Bound
  BY DEF LlmInv
<1> PICK p \in DOMAIN Catalog : p = ActiveProvider("flash")
  BY ResolvesToOne DEF ActiveProvider
<1>2. Catalog[p].ready
  BY <1>1, ActiveIsReady DEF Tier
<1>3. /\ collected' = NothingCollected /\ transcript' = <<>> /\ visible' = <<>>
      /\ cancelled' = FALSE /\ requests' = <<>> /\ finished' = {} /\ UNCHANGED bindingState
  BY DEF StartCall
<1>4. call' = [NoCall EXCEPT !.provider = p, !.kind = kind, !.streams = s, !.tools = t, !.forced = f,
                             !.pc = "round", !.result = "none"]
  BY <1>2 DEF StartCall
<1>5. /\ call' \in CallRow /\ call'.pc = "round" /\ call'.round = 0 /\ call'.result = "none"
      /\ call'.provider = p
  <2>1. <<>> \in Seq(Piece)
    OBVIOUS
  <2> QED BY <1>4, <2>1 DEF NoCall, CallRow
<1>6. RoundLimit \in Nat /\ RoundLimit' = RoundLimit
  BY RoundLimitType DEF RoundLimit
<1>7. LlmTypes'
  <2>1. /\ transcript' \in Seq(Turn) /\ requests' \in Seq(RequestRow) /\ visible' \in Seq(Piece)
        /\ cancelled' \in BOOLEAN /\ finished' \subseteq Piece
    <3>1. <<>> \in Seq(Turn) /\ <<>> \in Seq(RequestRow) /\ <<>> \in Seq(Piece)
      OBVIOUS
    <3> QED BY <1>3, <3>1
  <2> QED BY <1>1, <1>3, <1>5, <2>1, EmptyCollection DEF LlmTypes, bindingState
<1>8. Progress'
  BY <1>3, <1>5, <1>6 DEF Progress, Asked
<1>9. Shown'
  <2>1. ReplyIsShownAndWhole' /\ ToolRoundIsSilent'
    BY <1>3, <1>5 DEF ReplyIsShownAndWhole, ToolRoundIsSilent
  <2> QED BY <1>3, <1>5, <2>1 DEF Shown, Asked
<1>10. Told'
  <2>1. DOMAIN transcript' = {}
    BY <1>3
  <2>2. AnsweredBefore(Len(transcript) + 1)'
    BY <2>1 DEF AnsweredBefore
  <2> QED BY <1>5, <2>2 DEF Told, Asked
<1>11. Bounded'
  <2>1. DOMAIN requests' = {} /\ Len(requests') = 0
    BY <1>3
  <2>2. LateOnes' = {} /\ Cardinality(LateOnes') = 0 /\ Retries \in Nat
    BY <2>1, FS_EmptySet, LlmBounds DEF LateOnes
  <2>3. Budget(0) = 0 /\ Budget(RoundLimit + 1) \in Nat
    <3>1. RoundLimit + 1 \in Nat
      BY <1>6
    <3> QED BY <3>1, BudgetGrows
  <2>4. Budget(call'.round) = 0 /\ Budget(RoundLimit + 1)' = Budget(RoundLimit + 1)
    BY <1>5, <1>6, <2>3 DEF Budget
  <2>5. Len(requests') <= Budget(call'.round) /\ Len(requests') <= Budget(RoundLimit + 1)'
    BY <2>1, <2>3, <2>4
  <2> QED BY <1>5, <2>1, <2>2, <2>5 DEF Bounded, Asked, Budget
<1>12. Bound'
  BY <1>1, <1>2, <1>3, <1>5 DEF Bound, bindingState
<1> QED BY <1>7, <1>8, <1>9, <1>10, <1>11, <1>12 DEF LlmInv

LEMMA CancelCallKeeps ==
    ASSUME LlmInv, CancelCall
    PROVE  LlmInv'
<1>1. LlmTypes /\ Progress /\ Shown /\ Told /\ Bounded /\ Bound
  BY DEF LlmInv
<1>2. /\ call.streams /\ ~cancelled /\ cancelled' = TRUE
      /\ UNCHANGED <<bindingState, call, collected, transcript, visible, requests, finished>>
  BY DEF CancelCall
<1>3. LlmTypes'
  BY <1>1, <1>2 DEF LlmTypes, bindingState
<1>4. Progress'
  BY <1>1, <1>2 DEF Progress, RoundLimit
<1>5. Shown'
  BY <1>1, <1>2 DEF Shown, ReplyIsShownAndWhole, ToolRoundIsSilent
<1>6. Told'
  BY <1>1, <1>2, ToldUnchanged
<1>7. Bounded'
  BY <1>1, <1>2 DEF Bounded, LateOnes, Budget, RoundLimit
<1>8. Bound'
  BY <1>1, <1>2 DEF Bound, bindingState
<1> QED BY <1>3, <1>4, <1>5, <1>6, <1>7, <1>8 DEF LlmInv

\* What an admin does to the bindings leaves the call under way alone.
LEMMA OnlyBindingsChange ==
    ASSUME LlmInv, Bound', family' \in Families,
           UNCHANGED <<call, collected, transcript, visible, cancelled, requests, finished>>
    PROVE  LlmInv'
<1>1. LlmTypes /\ Progress /\ Shown /\ Told /\ Bounded
  BY DEF LlmInv
<1>2. LlmTypes'
  BY <1>1 DEF LlmTypes
<1>3. Progress' /\ Bounded'
  BY <1>1 DEF Progress, RoundLimit, Bounded, LateOnes, Budget
<1>4. Shown'
  BY <1>1 DEF Shown, ReplyIsShownAndWhole, ToolRoundIsSilent
<1>5. Told'
  BY <1>1, ToldUnchanged
<1> QED BY <1>2, <1>3, <1>4, <1>5 DEF LlmInv

LEMMA AdminsKeep ==
    ASSUME LlmInv,
           \/ \E f \in Families : SetActiveFamily(f)
           \/ \E t \in Overridden : ClearTierOverride(t) \/ \E k \in DOMAIN Catalog : SetTierOverride(t, k)
    PROVE  LlmInv'
<1>1. Bound /\ family \in Families
  BY DEF LlmInv, LlmTypes
<1>2. Unset \in ProviderIds /\ \A k \in DOMAIN Catalog : Catalog[k].id \in ProviderIds
  BY DEF ProviderIds
<1>3. ASSUME NEW f \in Families, SetActiveFamily(f)
      PROVE  LlmInv'
  <2>1. /\ \A t \in Tier : Catalog[ResolveProvider(t, f, Unset)].ready
        /\ family' = f /\ override' = [t \in Tier |-> Unset]
        /\ UNCHANGED <<call, collected, transcript, visible, cancelled, requests, finished>>
    BY <1>3 DEF SetActiveFamily
  <2>2. override' \in [Tier -> ProviderIds] /\ \A t \in Tier : override'[t] = Unset
    BY <1>2, <2>1
  <2>3. \A t \in Tier : Catalog[ResolveProvider(t, family', Unset)].ready
    BY <2>1
  <2>4. Bound'
    BY <1>1, <2>1, <2>2, <2>3 DEF Bound
  <2> QED BY <2>1, <2>4, OnlyBindingsChange
<1>4. ASSUME NEW t \in Overridden, NEW i \in ProviderIds,
             i = Unset \/ \E k \in DOMAIN Catalog : Catalog[k].ready /\ i = Catalog[k].id,
             override' = [override EXCEPT ![t] = i],
             UNCHANGED <<family, call, collected, transcript, visible, cancelled, requests, finished>>
      PROVE  LlmInv'
  <2>1. override' \in [Tier -> ProviderIds] /\ \A u \in Tier : override'[u] = override[u] \/ override'[u] = i
    BY <1>1, <1>4 DEF Bound
  <2>2. Bound'
    BY <1>1, <1>4, <2>1 DEF Bound
  <2> QED BY <1>1, <1>4, <2>2, OnlyBindingsChange
<1>5. ASSUME NEW t \in Overridden, ClearTierOverride(t)
      PROVE  LlmInv'
  BY <1>2, <1>4, <1>5 DEF ClearTierOverride
<1>6. ASSUME NEW t \in Overridden, NEW k \in DOMAIN Catalog, SetTierOverride(t, k)
      PROVE  LlmInv'
  BY <1>2, <1>4, <1>6 DEF SetTierOverride
<1> QED BY <1>3, <1>5, <1>6

LEMMA LlmStarts == LlmInit => LlmInv
<1> SUFFICES ASSUME LlmInit
             PROVE  LlmInv
  OBVIOUS
<1>1. /\ call = NoCall /\ collected = NothingCollected /\ transcript = <<>> /\ visible = <<>>
      /\ cancelled = FALSE /\ requests = <<>> /\ finished = {} /\ override = [t \in Tier |-> Unset]
      /\ family \in Families /\ \A t \in Tier : Catalog[ResolveProvider(t, family, Unset)].ready
  BY DEF LlmInit
<1>2. <<>> \in Seq(Turn) /\ <<>> \in Seq(RequestRow) /\ <<>> \in Seq(Piece)
  OBVIOUS
<1>3. call \in CallRow /\ call.pc = "idle" /\ call.round = 0 /\ call.result = "none"
  BY <1>1, <1>2, CatalogNumbers DEF NoCall, CallRow
<1>4. LlmTypes
  BY <1>1, <1>2, <1>3, EmptyCollection DEF LlmTypes
<1>5. Progress
  BY <1>1, <1>3 DEF Progress, Asked
<1>6. Shown
  BY <1>1, <1>3 DEF Shown, Asked, ReplyIsShownAndWhole, ToolRoundIsSilent
<1>7. Told
  BY <1>3 DEF Told, Asked
<1>8. Bounded
  <2>1. DOMAIN requests = {} /\ Len(requests) = 0
    BY <1>1
  <2>2. LateOnes = {} /\ Cardinality(LateOnes) = 0 /\ Retries \in Nat
    BY <2>1, FS_EmptySet, LlmBounds DEF LateOnes
  <2>3. Budget(RoundLimit + 1) \in Nat
    <3>1. RoundLimit + 1 \in Nat
      BY RoundLimitType
    <3> QED BY <3>1, BudgetGrows
  <2> QED BY <1>3, <2>1, <2>2, <2>3 DEF Bounded, Asked
<1>9. Bound
  <2>1. override \in [Tier -> ProviderIds] /\ \A t \in Tier : override[t] = Unset
    BY <1>1 DEF ProviderIds
  <2> QED BY <1>1, <1>3, <2>1 DEF Bound
<1> QED BY <1>4, <1>5, <1>6, <1>7, <1>8, <1>9 DEF LlmInv

LEMMA LlmStays == LlmInv /\ [LlmNext]_llmVars => LlmInv'
<1>1. ASSUME LlmInv, LlmNext
      PROVE  LlmInv'
  <2>1. CASE \/ \E f \in Families : SetActiveFamily(f)
             \/ \E t \in Overridden : ClearTierOverride(t) \/ \E k \in DOMAIN Catalog : SetTierOverride(t, k)
    BY <1>1, <2>1, AdminsKeep
  <2>2. CASE \E kind \in {"plain", "loop"}, s, t, f \in BOOLEAN : StartCall(kind, s, t, f)
    BY <1>1, <2>2, StartCallKeeps
  <2>3. CASE CancelCall
    BY <1>1, <2>3, CancelCallKeeps
  <2>4. CASE BeginRound
    BY <1>1, <2>4, BeginRoundKeeps
  <2>5. CASE ConnectionFails
    BY <1>1, <2>5, ConnectionFailsKeeps
  <2>6. CASE AnswerFails
    BY <1>1, <2>6, AnswerFailsKeeps
  <2>7. CASE PostAnswers
    BY <1>1, <2>7, PostAnswersKeeps
  <2>8. CASE StreamOpens
    BY <1>1, <2>8, StreamOpensKeeps
  <2>9. CASE StreamEvent
    BY <1>1, <2>9, StreamEventKeeps
  <2>10. CASE FinishReasonArrives
    BY <1>1, <2>10, FinishReasonArrivesKeeps
  <2>11. CASE DoneArrives \/ StreamCloses
    BY <1>1, <2>11, StreamEndsKeeps
  <2>12. CASE FinishPlain \/ FinishRound
    BY <1>1, <2>12, FinishKeeps
  <2>13. CASE RunTool
    BY <1>1, <2>13, RunToolKeeps
  <2> QED BY <1>1, <2>1, <2>2, <2>3, <2>4, <2>5, <2>6, <2>7, <2>8, <2>9, <2>10, <2>11, <2>12, <2>13 DEF LlmNext
<1>2. ASSUME LlmInv, UNCHANGED llmVars
      PROVE  LlmInv'
  <2>1. Bound'
    BY <1>2 DEF LlmInv, Bound, llmVars
  <2>2. family' \in Families
    BY <1>2 DEF LlmInv, LlmTypes, llmVars
  <2> QED BY <1>2, <2>1, <2>2, OnlyBindingsChange DEF llmVars
<1> QED BY <1>1, <1>2

LEMMA LlmShows == LlmInv => LanguageModelIsSound
<1> SUFFICES ASSUME LlmInv
             PROVE  LanguageModelIsSound
  OBVIOUS
<1>1. LlmTypes /\ Progress /\ Shown /\ Told /\ Bounded /\ Bound
  BY DEF LlmInv
<1>2. ShownIsOneAnswer
  <2>1. \A n, m \in DOMAIN visible : visible[n] = visible[m]
    BY <1>1 DEF Shown
  <2>2. CASE DOMAIN visible = {}
    <3>1. Pieces = {}
      BY <2>2 DEF Pieces
    <3>2. Cardinality(Pieces) = 0
      BY <3>1, FS_EmptySet
    <3> QED BY <3>2 DEF ShownIsOneAnswer
  <2>3. ASSUME NEW n \in DOMAIN visible
        PROVE  ShownIsOneAnswer
    <3>1. Pieces = {visible[n]}
      BY <2>1 DEF Pieces
    <3>2. Cardinality(Pieces) = 1
      BY <3>1, FS_Singleton
    <3> QED BY <3>2 DEF ShownIsOneAnswer
  <2> QED BY <2>2, <2>3
<1>3. ReplyIsShownAndWhole /\ ToolRoundIsSilent
  BY <1>1 DEF Shown
<1>4. CallsAreAnswered
  <2>1. ASSUME call.pc = "sent", NEW n \in DOMAIN transcript, transcript[n].role = "assistant"
        PROVE  Answered(n)
    <3>1. AnsweredBefore(Len(transcript) + 1)
      BY <1>1, <2>1 DEF Told, Asked
    <3>2. n < Len(transcript) + 1
      <4>1. transcript \in Seq(Turn)
        BY <1>1 DEF LlmTypes
      <4> QED BY <4>1
    <3> QED BY <2>1, <3>1, <3>2 DEF AnsweredBefore
  <2> QED BY <2>1 DEF CallsAreAnswered, Answered
<1>5. RequestsAreBounded
  BY <1>1 DEF Bounded, Budget, LateOnes, RequestsAreBounded
<1>6. BoundIsReady
  BY <1>1 DEF Bound, BoundIsReady
<1> QED BY <1>2, <1>3, <1>4, <1>5, <1>6 DEF LanguageModelIsSound

\* However connections fail, streams break off, tools are called, admins switch
\* providers and callers give up, a person is shown one whole answer, every call of
\* a tool has its result, and the requests are bounded: service.py.
THEOREM OneWholeAnswer == LlmSpec => []LanguageModelIsSound
<1>1. LlmSpec => []LlmInv
  BY LlmStarts, LlmStays, PTL DEF LlmSpec
<1> QED BY <1>1, LlmShows, PTL

=============================================================================
