------------------------------ MODULE WorldCast ------------------------------
(***************************************************************************)
(* Who lives in a companion world (app/products/mingchan): onboarding with *)
(* its candidates, residents made from drafts, templates and letters, the  *)
(* owner's turns with a resident, and the lifecycle scan with the reviewed *)
(* departure of a resident.                                                *)
(*                                                                         *)
(* Whatever adds or removes a resident holds the row lock of the world.    *)
(* Each action is one transaction under that lock, save the approval of a  *)
(* departure, which is split around its attempt to lock the conversation,  *)
(* and the creation from a draft, which reads the draft before the lock.   *)
(***************************************************************************)
EXTENDS Naturals, FiniteSets

CONSTANTS Preset,     \* templates of the catalogue
          Initial,    \* those with an initial_candidate_rank
          Caller,     \* residents that letters bring
          Request,    \* client requests to make a resident of a draft
          Draft,      \* previewed drafts
          DraftOf,    \* the draft a request names
          Scanner,    \* processes that run WorldLifecycleScheduler
          Fact,       \* what may become known about a relationship
          Capacity,   \* MAX_ACTIVE_RESIDENTS
          MaxRounds,  \* bound on the lifecycle events of a resident
          MaxNews,    \* bound on the facts that arise
          MaxLives    \* bound on the residents ever known

\* A resident comes one way only, and the catalogue is finite.
ASSUME CastBounds ==
    /\ Initial \subseteq Preset /\ IsFiniteSet(Initial)
    /\ Request \cap (Preset \cup Caller) = {}
    /\ DraftOf \in [Request -> Draft]
    /\ Fact \subseteq {"quiet", "mismatch", "abuse", "crisis"}
    /\ Capacity \in Nat /\ MaxRounds \in Nat /\ MaxNews \in Nat

VARIABLES onboarding, \* onboarding_state of the world
          life,       \* status of the residents, a custom one by its request
          talk,       \* state of their conversations
          draft,      \* rows of resident_drafts
          asking,     \* requests that have read their draft
          talking,    \* turns that hold the advisory lock of a conversation
          facts,      \* what is known: "quiet", "mismatch", "abuse", "crisis"
          news,       \* facts that arose so far
          departure,  \* the latest lifecycle event of each resident
          scan,       \* what each scanner has read of its scope
          approval    \* the approval that holds the row locks, if any

castVars == <<onboarding, life, talk, draft, asking, talking, facts, news, departure, scan, approval>>
people == <<onboarding, life, talk>>
paper == <<draft, asking>>

Resident == Preset \cup Request \cup Caller
Kind == {"severe_abuse", "value_misalignment", "inactivity"}
FactFor == [k \in Kind |-> IF k = "severe_abuse" THEN "abuse"
                           ELSE IF k = "inactivity" THEN "quiet" ELSE "mismatch"]
NoDeparture == [round |-> 0, status |-> "none", kind |-> "none", ripe |-> FALSE, farewell |-> "none"]

Living == {r \in Resident : life[r] = "active"}
HasRoom == Cardinality(Living) < Capacity
Known == {r \in Resident : life[r] # "none"}
\* Variant: the row of the world is read without FOR UPDATE.
WorldReadOnly == TRUE

\* SELECT ... FOR UPDATE on the row of the world would wait.
WorldFree == approval = {}
\* A resident becomes active with a runtime account and a conversation.
Activated(R) == /\ life' = [r \in Resident |-> IF r \in R THEN "active" ELSE life[r]]
                /\ talk' = [r \in Resident |-> IF r \in R THEN "active" ELSE talk[r]]
-----------------------------------------------------------------------------
(***************************************************************************)
(* Onboarding and creation of residents.                                   *)
(***************************************************************************)
\* The first visit takes a snapshot of the initial candidates.
Bootstrap ==
    /\ WorldFree
    /\ onboarding = "preparing"
    /\ onboarding' = "selecting"
    /\ life' = [r \in Resident |-> IF r \in Initial THEN "candidate" ELSE life[r]]
    /\ UNCHANGED <<talk, paper, talking, facts, news, departure, scan, approval>>

\* The owner keeps the candidates of S and dismisses the others.
Confirm(S) ==
    LET new == {r \in S : life[r] = "candidate"}
    IN  /\ WorldFree
        /\ \A r \in S : life[r] \in {"candidate", "active"}
        /\ Cardinality(Living) + Cardinality(new) \in 1..Capacity
        /\ onboarding' = "confirmed"
        /\ life' = [r \in Resident |-> IF r \in new THEN "active"
                                       ELSE IF life[r] = "candidate" THEN "dismissed" ELSE life[r]]
        /\ talk' = [r \in Resident |-> IF r \in new THEN "active" ELSE talk[r]]
        /\ UNCHANGED <<paper, talking, facts, news, departure, scan, approval>>

\* A template of the catalogue is asked for by its id.
CreateFromTemplate(r) ==
    /\ WorldFree
    /\ life[r] \in {"none", "candidate"}
    /\ Cardinality(Known \cup {r}) <= MaxLives
    /\ \/ /\ onboarding = "selecting"
          /\ life' = [life EXCEPT ![r] = "candidate"]
          /\ talk' = talk
       \/ /\ onboarding = "confirmed"
          /\ HasRoom
          /\ Activated({r})
    /\ UNCHANGED <<onboarding, paper, talking, facts, news, departure, scan, approval>>

\* Accepting a letter brings its sender in.
MoveInByLetter(r) ==
    /\ WorldFree
    /\ onboarding = "confirmed"
    /\ life[r] = "none"
    /\ Cardinality(Known) < MaxLives
    /\ HasRoom
    /\ Activated({r})
    /\ UNCHANGED <<onboarding, paper, talking, facts, news, departure, scan, approval>>

PreviewDraft(d) ==
    /\ draft[d] = "none"
    /\ onboarding # "preparing"
    /\ onboarding = "confirmed" => HasRoom
    /\ draft' = [draft EXCEPT ![d] = "open"]
    /\ UNCHANGED <<people, asking, talking, facts, news, departure, scan, approval>>

\* expires_at passes; the row stays open.
DraftExpires(d) ==
    /\ draft[d] = "open"
    /\ draft' = [draft EXCEPT ![d] = "stale"]
    /\ UNCHANGED <<people, asking, talking, facts, news, departure, scan, approval>>

\* The request finds no earlier result of its own and an open draft.
AskResident(q) ==
    /\ q \notin asking
    /\ life[q] = "none"
    /\ Cardinality(Known \cup asking) < MaxLives
    /\ draft[DraftOf[q]] = "open"
    /\ asking' = asking \cup {q}
    /\ UNCHANGED <<people, draft, talking, facts, news, departure, scan, approval>>

\* UPDATE resident_drafts SET status = 'consumed' WHERE ... AND status = 'open'.
Consumable(d) == draft[d] \in {"open", "stale"}

\* Behind the lock of the world; any refusal rolls the whole request back.
MakeResident(q) ==
    /\ WorldFree
    /\ q \in asking
    /\ asking' = asking \ {q}
    /\ \/ /\ Consumable(DraftOf[q])
          /\ draft' = [draft EXCEPT ![DraftOf[q]] = "consumed"]
          /\ \/ /\ onboarding = "selecting"
                /\ \A c \in Request : life[c] \notin {"candidate", "active", "dismissed"}
                /\ life' = [life EXCEPT ![q] = "candidate"]
                /\ talk' = talk
             \/ /\ onboarding = "confirmed"
                /\ HasRoom
                /\ Activated({q})
       \/ /\ \/ ~Consumable(DraftOf[q])
             \/ onboarding = "confirmed" /\ ~HasRoom
             \/ onboarding = "selecting" /\ \E c \in Request : life[c] # "none"
          /\ UNCHANGED <<draft, life, talk>>
    /\ UNCHANGED <<onboarding, talking, facts, news, departure, scan, approval>>
-----------------------------------------------------------------------------
(***************************************************************************)
(* Turns, and what they and the moderation make known.                     *)
(***************************************************************************)
\* try_conversation_turn_lock, and the state read again behind it.
EnterTalk(r) ==
    /\ ~talking[r]
    /\ \A a \in approval : a.who = r => ~a.locked
    /\ talk[r] = "active"
    /\ talking' = [talking EXCEPT ![r] = TRUE]
    /\ UNCHANGED <<people, paper, facts, news, departure, scan, approval>>

\* The owner's message is stored.
SpeakInTalk(r) ==
    /\ talking[r]
    /\ "quiet" \in facts[r]
    /\ facts' = [facts EXCEPT ![r] = @ \ {"quiet"}]
    /\ UNCHANGED <<people, paper, talking, news, departure, scan, approval>>

LeaveTalk(r) ==
    /\ talking[r]
    /\ talking' = [talking EXCEPT ![r] = FALSE]
    /\ UNCHANGED <<people, paper, facts, news, departure, scan, approval>>

FactArises(r, f) ==
    /\ life[r] = "active"
    /\ f \notin facts[r]
    /\ news < MaxNews
    /\ news' = news + 1
    /\ facts' = [facts EXCEPT ![r] = @ \cup {f}]
    /\ UNCHANGED <<people, paper, talking, departure, scan, approval>>

\* An observation leaves its window.
FactFades(r, f) ==
    /\ f \in facts[r] \ {"quiet"}
    /\ facts' = [facts EXCEPT ![r] = @ \ {f}]
    /\ UNCHANGED <<people, paper, talking, news, departure, scan, approval>>
-----------------------------------------------------------------------------
(***************************************************************************)
(* The scan of the lifecycle.                                              *)
(***************************************************************************)
IsOpen(status) == status \in {"cooling_down", "review_pending"}
Open(r) == IsOpen(departure[r].status)

\* list_resident_lifecycle_scopes: the open event, the last message and the
\* number of residents are read long before the scope is evaluated.
ReadScope(s, r) ==
    /\ scan[s] = {}
    /\ life[r] = "active"
    /\ onboarding = "confirmed"
    /\ scan' = [scan EXCEPT ![s] = {[who |-> r, crowd |-> Cardinality(Living), known |-> facts[r],
                                     event |-> departure[r]]}]
    /\ UNCHANGED <<people, paper, talking, facts, news, departure, approval>>

\* Observations are read at the evaluation, the last message with the scope.
Evidence(v) == (facts[v.who] \ {"quiet"}) \cup (v.known \cap {"quiet"})

\* What a new event would be, if any.
Candidate(v) ==
    LET known == Evidence(v)
        calm == "crisis" \notin known /\ v.crowd > 1
    IN  IF "abuse" \in known THEN {[kind |-> "severe_abuse", status |-> "review_pending"]}
        ELSE IF calm /\ "mismatch" \in known
             THEN {[kind |-> "value_misalignment", status |-> "cooling_down"]}
        ELSE IF calm /\ "quiet" \in known THEN {[kind |-> "inactivity", status |-> "cooling_down"]}
        ELSE {}

\* create_resident_lifecycle_event.
CreateCandidate(s) == \E v \in scan[s] :
    /\ ~IsOpen(v.event.status)
    /\ WorldFree
    /\ scan' = [scan EXCEPT ![s] = {}]
    /\ departure' = [departure EXCEPT ![v.who] =
           IF Open(v.who) \/ life[v.who] # "active" \/ Candidate(v) = {} \/ @.round = MaxRounds THEN @
           ELSE LET c == CHOOSE c \in Candidate(v) : TRUE
                IN  [NoDeparture EXCEPT !.round = 1 + departure[v.who].round,
                                        !.status = c.status, !.kind = c.kind]]
    /\ UNCHANGED <<people, paper, talking, facts, news, approval>>

\* UPDATE ... WHERE id = ? AND status = ?; the row may be locked by an approval.
Transition(r, seen, status) ==
    /\ \A a \in approval : a.who # r
    /\ departure' = [departure EXCEPT ![r] =
           IF @.round = seen.round /\ @.status = seen.status THEN [@ EXCEPT !.status = status] ELSE @]

\* _revalidate_open_event.
Revalidate(s) == \E v \in scan[s] :
    LET known == Evidence(v)
        severe == v.event.kind = "severe_abuse"
        void == \/ ~severe /\ "crisis" \in known
                \/ ~severe /\ v.crowd <= 1
                \/ FactFor[v.event.kind] \notin known
    IN  /\ IsOpen(v.event.status)
        /\ scan' = [scan EXCEPT ![s] = {}]
        /\ \/ void /\ Transition(v.who, v.event, "cancelled")
           \/ /\ ~void /\ v.event.status = "cooling_down" /\ v.event.ripe
              /\ Transition(v.who, v.event, "review_pending")
           \/ /\ ~void /\ ~(v.event.status = "cooling_down" /\ v.event.ripe)
              /\ departure' = departure
        /\ UNCHANGED <<people, paper, talking, facts, news, approval>>

CooldownEnds(r) ==
    /\ departure[r].status = "cooling_down"
    /\ ~departure[r].ripe
    /\ departure' = [departure EXCEPT ![r].ripe = TRUE]
    /\ UNCHANGED <<people, paper, talking, facts, news, scan, approval>>

\* The operator rejects or cancels an open event.
Reject(r, status) ==
    /\ Open(r)
    /\ Transition(r, departure[r], status)
    /\ UNCHANGED <<people, paper, talking, facts, news, scan, approval>>
-----------------------------------------------------------------------------
(***************************************************************************)
(* The approval of a departure by a full admin.                            *)
(***************************************************************************)
\* More than one resident is left, or the exception is asked for and applies.
MayLeave(r, exception) == \/ Cardinality(Living) > 1
                          \/ departure[r].kind = "severe_abuse" /\ exception

\* approve_lifecycle_event locks event, world and resident, then judges.
StartApproval(r, exception) ==
    /\ WorldFree
    /\ departure[r].status = "review_pending"
    /\ onboarding = "confirmed"
    /\ life[r] = "active"
    /\ departure[r].kind # "severe_abuse" => departure[r].ripe /\ "crisis" \notin facts[r]
    /\ MayLeave(r, exception)
    /\ FactFor[departure[r].kind] \in facts[r]
    /\ approval' = approval \cup {[who |-> r, exception |-> exception, locked |-> FALSE]}
    /\ UNCHANGED <<people, paper, talking, facts, news, departure, scan>>

\* Variant: the conversation is not locked.
TalkUnheeded(r) == TRUE

\* try_conversation_transaction_lock, on the connection of the approval.
TalkFree(r) == ~talking[r]

LockTalk == \E a \in approval :
    /\ ~a.locked
    /\ \/ TalkFree(a.who) /\ talk[a.who] = "active" /\ approval' = (approval \ {a}) \cup {[a EXCEPT !.locked = TRUE]}
       \/ ~TalkFree(a.who) /\ approval' = approval \ {a}     \* conversation_busy
    /\ UNCHANGED <<people, paper, talking, facts, news, departure, scan>>

\* commit_locked_resident_offline.
CommitOffline == \E a \in approval :
    /\ a.locked
    /\ life' = [life EXCEPT ![a.who] = "offline"]
    /\ talk' = [talk EXCEPT ![a.who] = "read_only"]
    /\ departure' = [departure EXCEPT ![a.who].status = "committed", ![a.who].farewell = "published"]
    /\ approval' = approval \ {a}
    /\ UNCHANGED <<onboarding, paper, talking, facts, news, scan>>

\* correct_committed_resident_lifecycle_event with hide_farewell.
HideFarewell(r) ==
    /\ WorldFree
    /\ departure[r].status = "committed"
    /\ departure[r].farewell = "published"
    /\ departure' = [departure EXCEPT ![r].farewell = "hidden"]
    /\ UNCHANGED <<people, paper, talking, facts, news, scan, approval>>
-----------------------------------------------------------------------------
CastInit ==
    /\ onboarding = "preparing"
    /\ life = [r \in Resident |-> "none"]
    /\ talk = [r \in Resident |-> "none"]
    /\ draft = [d \in Draft |-> "none"]
    /\ asking = {}
    /\ talking = [r \in Resident |-> FALSE]
    /\ facts = [r \in Resident |-> {}]
    /\ news = 0
    /\ departure = [r \in Resident |-> NoDeparture]
    /\ scan = [s \in Scanner |-> {}]
    /\ approval = {}

CastNext ==
    \/ Bootstrap
    \/ \E S \in SUBSET Resident : Confirm(S)
    \/ \E r \in Preset : CreateFromTemplate(r)
    \/ \E r \in Caller : MoveInByLetter(r)
    \/ \E d \in Draft : PreviewDraft(d) \/ DraftExpires(d)
    \/ \E q \in Request : AskResident(q) \/ MakeResident(q)
    \/ \E r \in Resident : EnterTalk(r) \/ SpeakInTalk(r) \/ LeaveTalk(r) \/ CooldownEnds(r) \/ HideFarewell(r)
    \/ \E r \in Resident, f \in Fact : FactArises(r, f) \/ FactFades(r, f)
    \/ \E s \in Scanner : (\E r \in Resident : ReadScope(s, r)) \/ CreateCandidate(s) \/ Revalidate(s)
    \/ \E r \in Resident, status \in {"rejected", "cancelled"} : Reject(r, status)
    \/ \E r \in Resident, exception \in BOOLEAN : StartApproval(r, exception)
    \/ LockTalk
    \/ CommitOffline

CastSpec == CastInit /\ [][CastNext]_castVars
-----------------------------------------------------------------------------
\* The rows and views of a world have their types.
CastTypeOK ==
    /\ onboarding \in {"preparing", "selecting", "confirmed"}
    /\ life \in [Resident -> {"none", "candidate", "active", "offline", "dismissed"}]
    /\ talk \in [Resident -> {"none", "active", "read_only"}]
    /\ draft \in [Draft -> {"none", "open", "stale", "consumed"}]
    /\ asking \subseteq Request
    /\ talking \in [Resident -> BOOLEAN]
    /\ facts \in [Resident -> SUBSET {"quiet", "mismatch", "abuse", "crisis"}]
    /\ news \in 0..MaxNews
    /\ \A r \in Resident : departure[r].round \in 0..MaxRounds

\* A world that has residents loses its last one only in an approved departure
\* for severe abuse with the exception for the last resident, whatever moves
\* in, is scanned or is approved meanwhile (approve_lifecycle_event, the rule
\* about active_count).
LastLeavesOnlyForAbuse ==
    [][Living # {} /\ Living' = {} =>
         \E a \in approval : a.exception /\ departure[a.who].kind = "severe_abuse"]_castVars

\* What onboarding, drafts, letters, turns and departures leave behind fits
\* together: never more residents than the capacity, never two residents of
\* one draft, and no turn under way with a resident that has left.
CastFits ==
    /\ CastTypeOK
    /\ Cardinality(Living) <= Capacity
    /\ \A p, q \in Request : p # q /\ DraftOf[p] = DraftOf[q] => "none" \in {life[p], life[q]}
    /\ \A r \in Resident : talking[r] => talk[r] = "active"
=============================================================================
