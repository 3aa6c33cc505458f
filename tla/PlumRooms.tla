----------------------------- MODULE PlumRooms -----------------------------
(***************************************************************************)
(* What Plum keeps besides its streams (app/products/plum/infrastructure/  *)
(* repository.py, app/products/plum/api/app.py): access codes and the home *)
(* of the person who redeems one, likes and favourites with their          *)
(* counters, conversations and their restart, and the turn that is         *)
(* answered at once, with its fixed price.  The streamed turn is the       *)
(* subject of PlumStream.                                                  *)
(*                                                                         *)
(* One code, one person and one character are followed; several people     *)
(* react to the character.  A step is one statement where two transactions *)
(* can meet on a row or an index, and a transaction elsewhere.             *)
(***************************************************************************)
EXTENDS Naturals, FiniteSets, Sequences

CONSTANTS Visitor,   \* requests that run at the same time
          Fan,       \* people who like the character
          Word,      \* numbers of the messages of the person, each sent with a key of its own
          MaxRooms,  \* bound on the conversations
          MaxVisits  \* bound on the requests

VARIABLES house,    \* what the person has: "person", "entry", "coins"
          login,    \* somebody has a session of the person
          likes,    \* rows of plum_character_likes
          count,    \* like_count of plum_character_stats, less its seed
          liking,   \* for each fan, the open transaction that holds their row
          room,     \* status of the conversations; the i-th has the i-th session
          price,    \* reservation of each conversation and message
          posted,   \* messages with a row of their own
          replied,  \* messages with a reply
          displayed,    \* conversation and message of the turns that returned a text
          broken,   \* conversation and message of the requests that died
          visits,   \* how many requests there have been
          visitor   \* what each request is doing

roomVars == <<house, login, likes, count, liking, room, price, posted, replied,
              displayed, broken, visits, visitor>>

codeVars == <<house, login>>
likeVars == <<likes, count, liking>>
turnVars == <<price, posted, replied, displayed, broken>>

Away == [pc |-> "away", what |-> 0, at |-> 0]
Nobody == "nobody"

ASSUME RoomBounds == IsFiniteSet(Fan) /\ MaxRooms \in Nat /\ Nobody \notin Visitor

Room == 1..MaxRooms

\* A request comes in, goes on, or is answered.
Comes(v, pc, what, at) ==
    /\ visitor[v] = Away
    /\ visits < MaxVisits
    /\ visits' = visits + 1
    /\ visitor' = [visitor EXCEPT ![v] = [pc |-> pc, what |-> what, at |-> at]]
GoesOn(v, pc) == visitor' = [visitor EXCEPT ![v].pc = pc] /\ UNCHANGED visits
IsAnswered(v) == visitor' = [visitor EXCEPT ![v] = Away] /\ UNCHANGED visits
-----------------------------------------------------------------------------
(***************************************************************************)
(* Access codes.  The code is claimed with its person in one transaction,  *)
(* under a lock on its row; the entry account, the welcome coins and the   *)
(* session follow, each in a transaction of its own, and all again when    *)
(* the code is used again.                                                 *)
(***************************************************************************)
RedeemCode(v) ==
    /\ Comes(v, "entry", 0, 0)
    /\ house' = house \cup {"person"}
    /\ UNCHANGED <<login, likeVars, room, turnVars>>

EnsureEntry(v) ==
    /\ visitor[v].pc = "entry"
    /\ house' = house \cup {"entry"}
    /\ GoesOn(v, "coins")
    /\ UNCHANGED <<login, likeVars, room, turnVars>>

GrantCoins(v) ==
    /\ visitor[v].pc = "coins"
    /\ house' = house \cup {"coins"}
    /\ GoesOn(v, "login")
    /\ UNCHANGED <<login, likeVars, room, turnVars>>

MayLogIn(v) == visitor[v].pc = "login"

LogIn(v) ==
    /\ MayLogIn(v)
    /\ login' = TRUE
    /\ IsAnswered(v)
    /\ UNCHANGED <<house, likeVars, room, turnVars>>

LogOut(v) ==
    /\ login
    /\ Comes(v, "away", 0, 0)
    /\ login' = FALSE
    /\ UNCHANGED <<house, likeVars, room, turnVars>>
-----------------------------------------------------------------------------
(***************************************************************************)
(* Reactions.  The row is inserted or deleted first; a second transaction  *)
(* on the same row waits for the first, and the counter moves only if a    *)
(* row was really touched.                                                 *)
(***************************************************************************)
\* The row of the fan is touched: `what` is the fan, `at` whether a row changed.
Touch(v, f, on) ==
    /\ liking[f] = Nobody
    /\ Comes(v, IF on THEN "liked" ELSE "unliked", f, IF (f \in likes) # on THEN 1 ELSE 0)
    /\ liking' = [liking EXCEPT ![f] = v]
    /\ UNCHANGED <<codeVars, likes, count, room, turnVars>>

Like(v, f) == Touch(v, f, TRUE)
Unlike(v, f) == Touch(v, f, FALSE)

Counts(v) == visitor[v].at

\* The counter, and the commit.
CountReaction(v) ==
    LET f == visitor[v].what
    IN  /\ visitor[v].pc \in {"liked", "unliked"}
        /\ IF visitor[v].pc = "liked"
           THEN likes' = likes \cup {f} /\ count' = count + Counts(v)
           ELSE likes' = likes \ {f} /\ count' = IF count > 0 THEN count - Counts(v) ELSE 0
        /\ liking' = [liking EXCEPT ![f] = Nobody]
        /\ IsAnswered(v)
        /\ UNCHANGED <<codeVars, room, turnVars>>
-----------------------------------------------------------------------------
(***************************************************************************)
(* Conversations.  At most one is active; whoever reads that there is none,*)
(* or which it is, may find it changed when the rows are written: the      *)
(* unique indexes on the active conversation and on the session's key fail *)
(* the second writer, whose transaction leaves nothing behind.             *)
(***************************************************************************)
Current(c) == c \in 1..Len(room) /\ room[c] = "active"

\* create_or_get_conversation: the active one, or a look that finds none.
OpenRoom(v) ==
    /\ house = {"person", "entry", "coins"}
    /\ IF \E c \in Room : Current(c) THEN Comes(v, "away", 0, 0) ELSE Comes(v, "create", 0, 0)
    /\ UNCHANGED <<codeVars, likeVars, room, turnVars>>

\* Variant: no index on the active conversation.
SlotIsOpen == TRUE

\* ux_plum_conversations_active, and the key of the active session.
SlotIsFree == \A c \in Room : ~Current(c)

CreateRoom(v) ==
    /\ visitor[v].pc = "create"
    /\ room' = IF SlotIsFree /\ Len(room) < MaxRooms THEN Append(room, "active") ELSE room
    /\ IsAnswered(v)
    /\ UNCHANGED <<codeVars, likeVars, turnVars>>

StartRestart(v) ==
    /\ \E c \in Room : Current(c) /\ Comes(v, "restart", 0, c)
    /\ UNCHANGED <<codeVars, likeVars, room, turnVars>>

\* The old one is archived if it still is active, and a new one takes its
\* place, unless another restart has been there.
Restart(v) ==
    LET c == visitor[v].at
        archived == [room EXCEPT ![c] = "archived"]
    IN  /\ visitor[v].pc = "restart"
        /\ room' = IF Len(room) = MaxRooms \/ ~Current(c) THEN room
                   ELSE Append(archived, "active")
        /\ IsAnswered(v)
        /\ UNCHANGED <<codeVars, likeVars, turnVars>>
-----------------------------------------------------------------------------
(***************************************************************************)
(* The turn that is answered at once.                                      *)
(***************************************************************************)
Bill(v) == <<visitor[v].at, visitor[v].what>>

PostWord(v, w) ==
    /\ \E c \in Room : Current(c) /\ Comes(v, "reserve", w, c)
    /\ UNCHANGED <<codeVars, likeVars, room, turnVars>>

\* The price is reserved under a key of the conversation and the request; a
\* repeated request replays the reservation, and one that has been given back
\* is refused, as is one that the wallet cannot pay.
ReservePrice(v) ==
    /\ visitor[v].pc = "reserve"
    /\ \/ /\ price[Bill(v)] \in {"none", "reserved"}
          /\ price' = [price EXCEPT ![Bill(v)] = "reserved"]
          /\ GoesOn(v, "prepare")
       \/ /\ price[Bill(v)] # "reserved"
          /\ IsAnswered(v) /\ UNCHANGED price
    /\ UNCHANGED <<codeVars, likeVars, room, posted, replied, displayed, broken>>

\* The limits and the reply that is there already; then the row of the message,
\* which also answers a repetition, with the reply or with a placeholder.
Prepare(v) ==
    /\ visitor[v].pc = "prepare"
    /\ \/ GoesOn(v, "limited") /\ UNCHANGED posted
       \/ IF visitor[v].what \in posted THEN GoesOn(v, "duplicate") /\ UNCHANGED posted
          ELSE /\ posted' = posted \cup {visitor[v].what}
               /\ GoesOn(v, "answering") \/ GoesOn(v, "limited")
    /\ UNCHANGED <<codeVars, likeVars, room, price, replied, displayed, broken>>

AnswerWord(v) ==
    /\ visitor[v].pc = "answering"
    /\ replied' = replied \cup {visitor[v].what}
    /\ GoesOn(v, "ok")
    /\ UNCHANGED <<codeVars, likeVars, room, price, posted, displayed, broken>>

\* run_product_turn raises.
TurnRaises(v) ==
    /\ visitor[v].pc \in {"prepare", "answering"}
    /\ GoesOn(v, "raised")
    /\ UNCHANGED <<codeVars, likeVars, room, turnVars>>

KeepsPrice(v) == visitor[v].pc \in {"ok", "duplicate"}

\* The price is kept for a text, given back otherwise.
SettlePrice(v) ==
    /\ visitor[v].pc \in {"ok", "duplicate", "limited", "raised"}
    /\ price' = IF KeepsPrice(v) THEN price ELSE [price EXCEPT ![Bill(v)] = "released"]
    /\ displayed' = IF visitor[v].pc \in {"ok", "duplicate"} THEN displayed \cup {Bill(v)} ELSE displayed
    /\ IsAnswered(v)
    /\ UNCHANGED <<codeVars, likeVars, room, posted, replied, broken>>
-----------------------------------------------------------------------------
\* The process ends, or a statement fails: an open transaction is undone.
VisitBreaks(v) ==
    /\ visitor[v] # Away
    /\ IsAnswered(v)
    /\ liking' = [f \in Fan |-> IF liking[f] = v THEN Nobody ELSE liking[f]]
    /\ broken' = IF visitor[v].pc \in {"prepare", "answering", "ok", "duplicate", "limited", "raised"}
                 THEN broken \cup {Bill(v)} ELSE broken
    /\ UNCHANGED <<codeVars, likes, count, room, price, posted, replied, displayed>>

RoomsInit ==
    /\ house = {} /\ login = FALSE
    /\ likes = {} /\ count = 0 /\ liking = [f \in Fan |-> Nobody]
    /\ room = <<>>
    /\ price = [b \in Room \X Word |-> "none"]
    /\ posted = {} /\ replied = {} /\ displayed = {} /\ broken = {}
    /\ visits = 0
    /\ visitor = [v \in Visitor |-> Away]

RoomsNext ==
    \E v \in Visitor :
        \/ RedeemCode(v) \/ EnsureEntry(v) \/ GrantCoins(v) \/ LogIn(v) \/ LogOut(v)
        \/ \E f \in Fan : Like(v, f) \/ Unlike(v, f)
        \/ CountReaction(v)
        \/ OpenRoom(v) \/ CreateRoom(v) \/ StartRestart(v) \/ Restart(v)
        \/ \E w \in Word : PostWord(v, w)
        \/ ReservePrice(v) \/ Prepare(v) \/ AnswerWord(v) \/ TurnRaises(v) \/ SettlePrice(v)
        \/ VisitBreaks(v)

RoomsSpec == RoomsInit /\ [][RoomsNext]_roomVars
-----------------------------------------------------------------------------
RoomsTypeOK ==
    /\ house \subseteq {"person", "entry", "coins"} /\ login \in BOOLEAN
    /\ likes \subseteq Fan /\ count \in Nat
    /\ price \in [Room \X Word -> {"none", "reserved", "released"}]
    /\ replied \subseteq posted /\ posted \subseteq Word

\* Whoever is logged in with a code has the account that pays and its coins,
\* whatever broke off an earlier attempt.
LoggedInIsHome == login => house = {"person", "entry", "coins"}

\* The counter is the number of rows, however the same people click.
LikesAreCounted == count = Cardinality(likes)

\* Two clicks on restart, or on a new conversation, leave one active one.
OneRoom == room # <<>> => Cardinality({c \in Room : Current(c)}) = 1

\* Coins that stay reserved have bought a text, or are those of a request that
\* is under way or died.
Underway(b) == \E v \in Visitor : Bill(v) = b /\ visitor[v].pc \in
                  {"prepare", "answering", "ok", "duplicate", "limited", "raised"}
KeptMeansShown ==
    \A b \in Room \X Word : price[b] = "reserved" => b \in displayed \/ b \in broken \/ Underway(b)

RoomsAreSound == RoomsTypeOK /\ LoggedInIsHome /\ LikesAreCounted /\ OneRoom /\ KeptMeansShown
=============================================================================
