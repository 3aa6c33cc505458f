---------------------------- MODULE PeopleProofs ----------------------------
(***************************************************************************)
(* What is proved about what happens to one person or around one row, for  *)
(* any number of browsers, requests, messages and visitors: signing in,    *)
(* the turn of a conversation, the nudges, the rooms of Plum, the WeChat   *)
(* of an account.  The models are those that MCPeople checks.              *)
(***************************************************************************)
EXTENDS SignIn, ChatTurn, Reactivation, PlumRooms, ChannelBinding, FiniteSetTheorems, SequenceTheorems, TLAPS

-----------------------------------------------------------------------------
(***************************************************************************)
(* Signing in: SignIn.  Who holds the lock of the phone sends the newest   *)
(* code; what a registration still has to do says what the person has.     *)
(***************************************************************************)
OtpRow == [state : {"none", "live", "expired", "cancelled"}, told : BOOLEAN, tries : Nat,
           token : Nat, used : BOOLEAN, stale : BOOLEAN]
AskRow == [pc : {"idle", "text", "keep", "right", "wrong", "verified", "account", "create", "insert",
                 "subscribe", "welcome", "origin", "regrant", "session"},
           code : Nat, token : Nat, way : Way \cup {"none"}]

SignInTypes ==
    /\ otp \in [Code -> OtpRow] /\ spent \in [Code -> Nat]
    /\ ask \in [Browser -> AskRow]
    /\ member \in [Way -> {"none", "active", "disabled"}]
    /\ texting \subseteq Browser /\ entry \in {0, 1} /\ extras \subseteq {"welcome"}

Newest(c) == c \in Created /\ \A d \in Created : d <= c
LastTold(c) == otp[c].told /\ \A d \in Code : otp[d].told => d <= c
Wrong(c) == {b \in Browser : ask[b].pc = "wrong" /\ ask[b].code = c}

CodesInOrder ==
    /\ Created = 1 .. Cardinality(Created) /\ Cardinality(Created) \in Nat
    /\ \A b, d \in texting : b = d

\* A row, and the guesses that have been read but not counted.
RowTrue(c) ==
    /\ otp[c].told => otp[c].state # "none"
    /\ LastTold(c) => otp[c].state # "cancelled"
    /\ spent[c] = IF otp[c].used THEN 1 ELSE 0
    /\ otp[c].tries + Cardinality(Wrong(c)) < MaxTries + Cardinality(Browser)

\* Whoever has the lock has the newest code in hand.
Sends(b) ==
    /\ ask[b].pc \in {"text", "keep", "right", "wrong", "verified"} => ask[b].code \in Code
    /\ b \in texting <=> ask[b].pc \in {"text", "keep"}
    /\ ask[b].pc \in {"text", "keep"} => Newest(ask[b].code)
    /\ ask[b].pc = "text" => ~otp[ask[b].code].told /\ otp[ask[b].code].state # "cancelled"
    /\ ask[b].pc = "keep" => otp[ask[b].code].told

\* How far a registration is, and what is there by then.
Backed(b) ==
    /\ ask[b].pc \in {"account", "create", "insert", "subscribe", "welcome", "origin", "regrant"}
           => ask[b].way = "web"
    /\ ask[b].pc \in {"subscribe", "welcome", "origin", "regrant"} => entry = 1
    /\ ask[b].pc = "origin" \/ (ask[b].pc = "session" /\ ask[b].way = "web")
           => entry = 1 /\ "welcome" \in extras

SignInInv ==
    /\ SignInTypes /\ CodesInOrder
    /\ \A c \in Code : RowTrue(c)
    /\ \A b \in Browser : Sends(b) /\ Backed(b)
    /\ "web" \in session => entry = 1 /\ "welcome" \in extras

AskAt(b) ==
    /\ ask' \in [Browser -> AskRow] /\ \A x \in Browser \ {b} : ask'[x] = ask[x]
OtpAt(c) ==
    /\ otp' \in [Code -> OtpRow] /\ \A x \in Code \ {c} : otp'[x] = otp[x]

LEMMA IdleAsk == NoAsk \in AskRow /\ NoAsk.pc = "idle" /\ NoAsk.way = "none"
  BY DEF NoAsk, AskRow

LEMMA CodeNumbers == \A c \in Code : c \in Nat /\ c >= 1 /\ c <= MaxTexts
  BY SignInBounds DEF Code

LEMMA StepMoves ==
    ASSUME SignInTypes, NEW b \in Browser, NEW pc \in {"idle", "text", "keep", "right", "wrong", "verified",
               "account", "create", "insert", "subscribe", "welcome", "origin", "regrant", "session"},
           Step(b, pc)
    PROVE  /\ AskAt(b) /\ ask'[b].pc = pc /\ ask'[b].code = ask[b].code /\ ask'[b].way = ask[b].way
<1>1. PICK r \in AskRow : r = ask[b]
  BY DEF SignInTypes
<1>2. ask' = [ask EXCEPT ![b] = [r EXCEPT !.pc = pc]]
  BY <1>1 DEF Step, SignInTypes
<1>3. [r EXCEPT !.pc = pc] \in AskRow
  BY DEF AskRow
<1>4. ask'[b] = [r EXCEPT !.pc = pc]
  BY <1>2 DEF SignInTypes
<1>5. [r EXCEPT !.pc = pc].pc = pc /\ [r EXCEPT !.pc = pc].code = r.code /\ [r EXCEPT !.pc = pc].way = r.way
  BY DEF AskRow
<1> QED BY <1>1, <1>2, <1>3, <1>4, <1>5 DEF AskAt, SignInTypes

LEMMA AnswerMoves ==
    ASSUME SignInTypes, NEW b \in Browser, Answer(b)
    PROVE  AskAt(b) /\ ask'[b] = NoAsk
  BY IdleAsk DEF Answer, AskAt, SignInTypes

\* Who does not guess adds nothing to the guesses.
LEMMA NoNewGuess ==
    ASSUME SignInTypes, NEW b \in Browser, AskAt(b), ask'[b].pc # "wrong", NEW c \in Code
    PROVE  /\ Cardinality(Wrong(c)) \in Nat /\ Cardinality(Wrong(c)') \in Nat
           /\ Cardinality(Wrong(c)') <= Cardinality(Wrong(c))
           /\ Cardinality(Wrong(c)) <= Cardinality(Browser) /\ Cardinality(Browser) \in Nat
           /\ ask[b].pc = "wrong" /\ ask[b].code = c => Cardinality(Wrong(c)') + 1 <= Cardinality(Wrong(c))
<1>1. IsFiniteSet(Wrong(c)) /\ Cardinality(Wrong(c)) \in Nat
      /\ Cardinality(Wrong(c)) <= Cardinality(Browser) /\ Cardinality(Browser) \in Nat
  <2>1. Wrong(c) \subseteq Browser
    BY DEF Wrong
  <2> QED BY <2>1, SignInBounds, FS_Subset, FS_CardinalityType
<1>2. Wrong(c)' \subseteq Wrong(c) /\ b \notin Wrong(c)'
  BY DEF Wrong, AskAt
<1>3. IsFiniteSet(Wrong(c)') /\ Cardinality(Wrong(c)') \in Nat /\ Cardinality(Wrong(c)') <= Cardinality(Wrong(c))
  BY <1>1, <1>2, FS_Subset, FS_CardinalityType
<1>4. ASSUME ask[b].pc = "wrong", ask[b].code = c
      PROVE  Cardinality(Wrong(c)') + 1 <= Cardinality(Wrong(c))
  <2>1. Wrong(c)' \cup {b} \subseteq Wrong(c)
    BY <1>2, <1>4 DEF Wrong
  <2>2. Cardinality(Wrong(c)' \cup {b}) = Cardinality(Wrong(c)') + 1
    BY <1>2, <1>3, FS_AddElement
  <2>3. Cardinality(Wrong(c)' \cup {b}) <= Cardinality(Wrong(c))
    BY <1>1, <2>1, FS_Subset
  <2> QED BY <2>2, <2>3
<1> QED BY <1>1, <1>3, <1>4

LEMMA RowStays ==
    ASSUME SignInInv, NEW b \in Browser, AskAt(b), ask'[b].pc # "wrong", UNCHANGED <<otp, spent>>,
           NEW c \in Code
    PROVE  RowTrue(c)'
<1>1. SignInTypes /\ RowTrue(c)
  BY DEF SignInInv
<1>2. otp[c].tries \in Nat
  BY <1>1 DEF SignInTypes, OtpRow
<1>3. /\ Cardinality(Wrong(c)) \in Nat /\ Cardinality(Wrong(c)') \in Nat
      /\ Cardinality(Wrong(c)') <= Cardinality(Wrong(c)) /\ Cardinality(Browser) \in Nat
  BY <1>1, NoNewGuess
<1>4. LastTold(c)' = LastTold(c)
  BY DEF LastTold
<1>5. otp'[c].tries + Cardinality(Wrong(c)') < MaxTries + Cardinality(Browser)
  BY <1>1, <1>2, <1>3, SignInBounds DEF RowTrue
<1> QED BY <1>1, <1>4, <1>5 DEF RowTrue

\* A request goes on that does not send: a registration, or one that gives up.
LEMMA AskGoesOn ==
    ASSUME SignInInv, NEW b \in Browser, AskAt(b), ask[b].pc \notin {"text", "keep"},
           ask'[b].pc \notin {"text", "keep", "right", "wrong", "verified"},
           UNCHANGED <<otp, texting, spent>>,
           member' \in [Way -> {"none", "active", "disabled"}],
           entry' \in {0, 1}, entry <= entry', extras \subseteq extras', extras' \subseteq {"welcome"},
           Backed(b)', "web" \in session' => entry' = 1 /\ "welcome" \in extras'
    PROVE  SignInInv'
<1>1. SignInTypes' /\ SignInTypes
  BY DEF SignInInv, SignInTypes, AskAt
<1>2. CodesInOrder'
  BY DEF SignInInv, CodesInOrder, Created
<1>3. \A c \in Code : RowTrue(c)'
  BY RowStays
<1>4. ASSUME NEW x \in Browser
      PROVE  Sends(x)'
  <2>1. CASE x = b
    BY <2>1 DEF SignInInv, Sends
  <2>2. CASE x # b
    BY <2>2 DEF SignInInv, Sends, AskAt, Newest, Created
  <2> QED BY <2>1, <2>2
<1>5. ASSUME NEW x \in Browser, x # b
      PROVE  Backed(x)'
  BY <1>1, <1>5 DEF SignInInv, Backed, AskAt, SignInTypes
<1> QED BY <1>1, <1>2, <1>3, <1>4, <1>5 DEF SignInInv

(* Codes. *)

LEMMA StartTextKeeps ==
    ASSUME SignInInv, NEW b \in Browser, StartText(b)
    PROVE  SignInInv'
<1>1. SignInTypes /\ CodesInOrder /\ ask[b] = NoAsk /\ texting = {} /\ texting' = {b}
      /\ Cardinality(Created) < MaxTexts
  BY DEF SignInInv, StartText, TextAllowed
<1> PICK c \in Nat : c = Cardinality(Created) + 1
  BY <1>1 DEF CodesInOrder
<1>2. c \in Code /\ c \notin Created /\ \A d \in Created : d <= c
  BY <1>1, SignInBounds DEF CodesInOrder, Code
<1>3. UNCHANGED <<member, entry, extras, session, spent>>
  BY DEF StartText
<1>4. OtpAt(c) /\ otp'[c].state = "live" /\ otp'[c].told = otp[c].told
      /\ otp'[c].tries = otp[c].tries /\ otp'[c].used = otp[c].used
  <2>1. otp' = [otp EXCEPT ![c].state = "live"]
    BY DEF StartText
  <2>2. PICK r \in OtpRow : r = otp[c]
    BY <1>1, <1>2 DEF SignInTypes
  <2>3. otp' = [otp EXCEPT ![c] = [r EXCEPT !.state = "live"]]
    BY <1>1, <2>1, <2>2 DEF SignInTypes
  <2>4. [r EXCEPT !.state = "live"] \in OtpRow
    BY DEF OtpRow
  <2>5. otp'[c] = [r EXCEPT !.state = "live"]
    BY <1>1, <1>2, <2>3 DEF SignInTypes
  <2>6. OtpAt(c)
    BY <1>1, <2>3, <2>4 DEF OtpAt, SignInTypes
  <2> QED BY <2>2, <2>5, <2>6 DEF OtpRow
<1>5. AskAt(b) /\ ask'[b].pc = "text" /\ ask'[b].code = c
  <2>1. ask' = [ask EXCEPT ![b] = [NoAsk EXCEPT !.pc = "text", !.code = c]]
    BY DEF StartText
  <2>2. [NoAsk EXCEPT !.pc = "text", !.code = c] \in AskRow
    BY DEF NoAsk, AskRow
  <2> QED BY <1>1, <2>1, <2>2 DEF AskAt, SignInTypes, NoAsk
<1>6. SignInTypes'
  BY <1>1, <1>3, <1>4, <1>5 DEF SignInTypes, OtpAt, AskAt
<1>7. Created' = Created \cup {c}
  BY <1>2, <1>4 DEF Created, OtpAt
<1>8. CodesInOrder'
  <2>1. Created' = 1 .. c
    BY <1>1, <1>7 DEF CodesInOrder
  <2>2. Cardinality(1 .. c) = c
    BY FS_Interval
  <2> QED BY <1>1, <2>1, <2>2 DEF CodesInOrder
<1>9. ~otp[c].told
  BY <1>2 DEF SignInInv, RowTrue, Created
<1>10. ASSUME NEW d \in Code
       PROVE  RowTrue(d)'
  <2>1. otp'[d].told = otp[d].told /\ otp'[d].tries = otp[d].tries /\ otp'[d].used = otp[d].used
    BY <1>4 DEF OtpAt
  <2>2. \A x \in Code : otp'[x].told = otp[x].told
    BY <1>4 DEF OtpAt
  <2>3. LastTold(d)' = LastTold(d)
    BY <2>2 DEF LastTold
  <2>4. otp'[d].state = otp[d].state \/ otp'[d].state = "live"
    BY <1>4 DEF OtpAt
  <2>5. RowTrue(d) /\ otp[d].tries \in Nat
    BY <1>1 DEF SignInInv, SignInTypes, OtpRow
  <2>6. /\ Cardinality(Wrong(d)) \in Nat /\ Cardinality(Wrong(d)') \in Nat
        /\ Cardinality(Wrong(d)') <= Cardinality(Wrong(d)) /\ Cardinality(Browser) \in Nat
    BY <1>1, <1>5, NoNewGuess
  <2>7. otp'[d].tries + Cardinality(Wrong(d)') < MaxTries + Cardinality(Browser)
    BY <2>1, <2>5, <2>6, SignInBounds DEF RowTrue
  <2> QED BY <1>3, <2>1, <2>3, <2>4, <2>5, <2>7 DEF RowTrue
<1>11. ASSUME NEW x \in Browser
       PROVE  Sends(x)' /\ Backed(x)'
  <2>1. CASE x = b
    <3>1. c \in Created' /\ \A d \in Created' : d <= c
      BY <1>2, <1>7, CodeNumbers
    <3> QED BY <1>1, <1>2, <1>4, <1>5, <1>9, <2>1, <3>1 DEF Sends, Backed, Newest
  <2>2. CASE x # b
    <3>1. ask'[x] = ask[x] /\ x \notin texting /\ x \notin texting' /\ Sends(x) /\ Backed(x)
      BY <1>1, <1>5, <2>2 DEF AskAt, SignInInv
    <3> QED BY <1>3, <3>1 DEF Sends, Backed
  <2> QED BY <2>1, <2>2
<1> QED BY <1>3, <1>6, <1>8, <1>10, <1>11 DEF SignInInv

\* What the lock keeps while its holder goes on or leaves.
LEMMA LockHeldAlone ==
    ASSUME SignInInv, NEW b \in Browser, ask[b].pc \in {"text", "keep"}
    PROVE  /\ texting = {b} /\ ask[b].code \in Code /\ Newest(ask[b].code)
           /\ \A x \in Browser \ {b} : ask[x].pc \notin {"text", "keep"}
<1>1. b \in texting /\ texting \subseteq Browser
  BY DEF SignInInv, SignInTypes, Sends
<1>2. \A x \in texting : x = b
  BY <1>1 DEF SignInInv, CodesInOrder
<1> QED BY <1>1, <1>2 DEF SignInInv, Sends

\* The row of the code that is being sent changes with its request.
LEMMA SendingKeeps ==
    ASSUME SignInInv, NEW b \in Browser, ask[b].pc \in {"text", "keep"}, AskAt(b),
           otp' \in [Code -> OtpRow],
           \A d \in Code : /\ otp'[d].state # "none" <=> otp[d].state # "none"
                           /\ otp'[d].tries = otp[d].tries /\ otp'[d].used = otp[d].used
                           /\ otp'[d].told => otp'[d].state # "none"
                           /\ LastTold(d)' => otp'[d].state # "cancelled",
           ask'[b].pc \in {"keep", "idle"}, ask'[b].code = ask[b].code \/ ask'[b].pc = "idle",
           ask'[b].pc = "keep" => texting' = texting /\ otp'[ask[b].code].told,
           ask'[b].pc = "idle" => texting' = texting \ {b},
           UNCHANGED <<member, entry, extras, session, spent>>
    PROVE  SignInInv'
<1>1. SignInTypes /\ CodesInOrder
  BY DEF SignInInv
<1>2. /\ texting = {b} /\ ask[b].code \in Code /\ Newest(ask[b].code)
      /\ \A x \in Browser \ {b} : ask[x].pc \notin {"text", "keep"}
  BY LockHeldAlone
<1>3. SignInTypes'
  BY <1>1, <1>2 DEF SignInTypes, AskAt
<1>4. Created' = Created
  BY DEF Created
<1>5. CodesInOrder'
  BY <1>1, <1>2, <1>4 DEF CodesInOrder
<1>6. ASSUME NEW d \in Code
      PROVE  RowTrue(d)'
  <2>1. RowTrue(d) /\ otp[d].tries \in Nat
    BY <1>1 DEF SignInInv, SignInTypes, OtpRow
  <2>2. /\ Cardinality(Wrong(d)) \in Nat /\ Cardinality(Wrong(d)') \in Nat
        /\ Cardinality(Wrong(d)') <= Cardinality(Wrong(d)) /\ Cardinality(Browser) \in Nat
    BY <1>1, NoNewGuess
  <2>3. otp'[d].tries + Cardinality(Wrong(d)') < MaxTries + Cardinality(Browser)
    BY <2>1, <2>2, SignInBounds DEF RowTrue
  <2> QED BY <2>1, <2>3 DEF RowTrue
<1>7. ASSUME NEW x \in Browser
      PROVE  Sends(x)' /\ Backed(x)'
  <2>1. CASE x = b
    BY <1>2, <1>4, <2>1 DEF Sends, Backed, Newest
  <2>2. CASE x # b
    <3>1. /\ ask'[x] = ask[x] /\ x \notin texting /\ x \notin texting' /\ Sends(x) /\ Backed(x)
          /\ ask[x].pc \notin {"text", "keep"}
      BY <1>1, <1>2, <2>2 DEF AskAt, SignInInv
    <3> QED BY <3>1 DEF Sends, Backed
  <2> QED BY <2>1, <2>2
<1> QED BY <1>3, <1>5, <1>6, <1>7 DEF SignInInv

LEMMA TextGoesOutKeeps ==
    ASSUME SignInInv, NEW b \in Browser, TextGoesOut(b)
    PROVE  SignInInv'
<1>1. SignInTypes /\ ask[b].pc = "text" /\ UNCHANGED <<texting, member, entry, extras, session, spent>>
      /\ Step(b, "keep")
  BY DEF SignInInv, TextGoesOut
<1> PICK c \in Code : c = ask[b].code
  BY <1>1, LockHeldAlone
<1>2. Newest(c) /\ ~otp[c].told /\ otp[c].state # "cancelled" /\ otp[c].state # "none"
  BY <1>1 DEF SignInInv, Sends, Newest, Created
<1>3. AskAt(b) /\ ask'[b].pc = "keep" /\ ask'[b].code = c
  BY <1>1, StepMoves
<1>4. OtpAt(c) /\ otp'[c].state = otp[c].state /\ otp'[c].told
      /\ otp'[c].tries = otp[c].tries /\ otp'[c].used = otp[c].used
  <2>1. otp' = [otp EXCEPT ![c].told = TRUE]
    BY DEF TextGoesOut
  <2>2. PICK r \in OtpRow : r = otp[c]
    BY <1>1 DEF SignInTypes
  <2>3. otp' = [otp EXCEPT ![c] = [r EXCEPT !.told = TRUE]]
    BY <1>1, <2>1, <2>2 DEF SignInTypes
  <2>4. [r EXCEPT !.told = TRUE] \in OtpRow
    BY DEF OtpRow
  <2>5. otp'[c] = [r EXCEPT !.told = TRUE]
    BY <1>1, <2>3 DEF SignInTypes
  <2>6. OtpAt(c)
    BY <1>1, <2>3, <2>4 DEF OtpAt, SignInTypes
  <2> QED BY <2>2, <2>5, <2>6 DEF OtpRow
<1>5. ASSUME NEW d \in Code
      PROVE  /\ otp'[d].state # "none" <=> otp[d].state # "none"
             /\ otp'[d].tries = otp[d].tries /\ otp'[d].used = otp[d].used
             /\ otp'[d].told => otp'[d].state # "none"
             /\ LastTold(d)' => otp'[d].state # "cancelled"
  <2>1. CASE d = c
    BY <1>2, <1>4, <2>1
  <2>2. CASE d # c
    <3>1. otp'[d] = otp[d] /\ RowTrue(d)
      BY <1>4, <2>2 DEF OtpAt, SignInInv
    <3>2. LastTold(d)' => FALSE
      <4>1. otp[d].told => d \in Created
        BY <3>1 DEF RowTrue, Created
      <4>2. d \in Created => d <= c
        BY <1>2 DEF Newest
      <4>3. LastTold(d)' => c <= d
        BY <1>4 DEF LastTold
      <4>4. c \in Nat /\ d \in Nat
        BY CodeNumbers
      <4> QED BY <2>2, <3>1, <4>1, <4>2, <4>3, <4>4 DEF LastTold
    <3> QED BY <3>1, <3>2 DEF RowTrue
  <2> QED BY <2>1, <2>2
<1> QED BY <1>1, <1>3, <1>4, <1>5, SendingKeeps DEF OtpAt

LEMMA TextFailsKeeps ==
    ASSUME SignInInv, NEW b \in Browser, TextFails(b)
    PROVE  SignInInv'
<1>1. SignInTypes /\ ask[b].pc = "text" /\ UNCHANGED <<member, entry, extras, session, spent>>
      /\ Answer(b) /\ texting' = texting \ {b}
  BY DEF SignInInv, TextFails
<1> PICK c \in Code : c = ask[b].code
  BY <1>1, LockHeldAlone
<1>2. Newest(c) /\ ~otp[c].told /\ otp[c].state # "none"
  BY <1>1 DEF SignInInv, Sends, Newest, Created
<1>3. AskAt(b) /\ ask'[b].pc = "idle"
  BY <1>1, AnswerMoves, IdleAsk
<1>4. OtpAt(c) /\ otp'[c].state = "cancelled" /\ otp'[c].told = otp[c].told
      /\ otp'[c].tries = otp[c].tries /\ otp'[c].used = otp[c].used
  <2>1. otp' = [otp EXCEPT ![c].state = "cancelled"]
    BY DEF TextFails
  <2>2. PICK r \in OtpRow : r = otp[c]
    BY <1>1 DEF SignInTypes
  <2>3. otp' = [otp EXCEPT ![c] = [r EXCEPT !.state = "cancelled"]]
    BY <1>1, <2>1, <2>2 DEF SignInTypes
  <2>4. [r EXCEPT !.state = "cancelled"] \in OtpRow
    BY DEF OtpRow
  <2>5. otp'[c] = [r EXCEPT !.state = "cancelled"]
    BY <1>1, <2>3 DEF SignInTypes
  <2>6. OtpAt(c)
    BY <1>1, <2>3, <2>4 DEF OtpAt, SignInTypes
  <2> QED BY <2>2, <2>5, <2>6 DEF OtpRow
<1>5. \A x \in Code : otp'[x].told = otp[x].told
  BY <1>4 DEF OtpAt
<1>6. ASSUME NEW d \in Code
      PROVE  /\ otp'[d].state # "none" <=> otp[d].state # "none"
             /\ otp'[d].tries = otp[d].tries /\ otp'[d].used = otp[d].used
             /\ otp'[d].told => otp'[d].state # "none"
             /\ LastTold(d)' => otp'[d].state # "cancelled"
  <2>1. LastTold(d)' = LastTold(d)
    BY <1>5 DEF LastTold
  <2>2. CASE d = c
    BY <1>2, <1>4, <2>1, <2>2 DEF LastTold
  <2>3. CASE d # c
    <3>1. otp'[d] = otp[d] /\ RowTrue(d)
      BY <1>4, <2>3 DEF OtpAt, SignInInv
    <3> QED BY <2>1, <3>1 DEF RowTrue
  <2> QED BY <2>2, <2>3
<1> QED BY <1>1, <1>3, <1>4, <1>6, SendingKeeps DEF OtpAt

LEMMA KeepOnlyKeeps ==
    ASSUME SignInInv, NEW b \in Browser, KeepOnly(b)
    PROVE  SignInInv'
<1>1. SignInTypes /\ ask[b].pc = "keep" /\ UNCHANGED <<member, entry, extras, session, spent>>
      /\ Answer(b) /\ texting' = texting \ {b}
  BY DEF SignInInv, KeepOnly
<1> PICK c \in Code : c = ask[b].code
  BY <1>1, LockHeldAlone
<1>2. Newest(c) /\ otp[c].told
  BY <1>1 DEF SignInInv, Sends
<1>3. AskAt(b) /\ ask'[b].pc = "idle"
  BY <1>1, AnswerMoves, IdleAsk
<1>4. ASSUME NEW d \in Code
      PROVE  /\ otp'[d] \in OtpRow
             /\ d = c \/ otp[d].state # "live" => otp'[d] = otp[d]
             /\ otp'[d].state # "none" <=> otp[d].state # "none"
             /\ otp'[d].told = otp[d].told /\ otp'[d].tries = otp[d].tries /\ otp'[d].used = otp[d].used
  <2>1. PICK r \in OtpRow : r = otp[d]
    BY <1>1 DEF SignInTypes
  <2>2. otp'[d] = IF d # c /\ r.state = "live" THEN [r EXCEPT !.state = "cancelled"] ELSE r
    BY <2>1 DEF KeepOnly
  <2>3. CASE d # c /\ r.state = "live"
    <3>1. otp'[d] = [r EXCEPT !.state = "cancelled"]
      BY <2>2, <2>3
    <3> QED BY <2>1, <2>3, <3>1 DEF OtpRow
  <2>4. CASE ~(d # c /\ r.state = "live")
    BY <2>1, <2>2, <2>4
  <2> QED BY <2>3, <2>4
<1>5. otp' \in [Code -> OtpRow]
  <2>1. DOMAIN otp' = Code
    BY DEF KeepOnly
  <2>2. otp' = [d \in Code |-> otp'[d]]
    BY DEF KeepOnly
  <2> QED BY <1>4, <2>2
<1>6. ASSUME NEW d \in Code
      PROVE  /\ otp'[d].told => otp'[d].state # "none"
             /\ LastTold(d)' => otp'[d].state # "cancelled"
  <2>1. RowTrue(d) /\ (LastTold(d)' => LastTold(d))
    <3>1. \A x \in Code : otp'[x].told = otp[x].told
      BY <1>4
    <3> QED BY <3>1 DEF SignInInv, LastTold
  <2>2. ASSUME LastTold(d)'
        PROVE  d = c
    <3>1. d \in Created /\ c <= d
      BY <1>2, <1>4, <2>1, <2>2 DEF LastTold, RowTrue, Created
    <3>2. d <= c
      BY <1>2, <3>1 DEF Newest
    <3> QED BY <3>1, <3>2, CodeNumbers
  <2>3. otp'[c] = otp[c]
    BY <1>4
  <2> QED BY <1>4, <2>1, <2>2, <2>3 DEF RowTrue
<1>7. \A d \in Code : /\ otp'[d].state # "none" <=> otp[d].state # "none"
                      /\ otp'[d].tries = otp[d].tries /\ otp'[d].used = otp[d].used
                      /\ otp'[d].told => otp'[d].state # "none"
                      /\ LastTold(d)' => otp'[d].state # "cancelled"
  BY <1>4, <1>6
<1> QED BY <1>1, <1>3, <1>5, <1>7, SendingKeeps

(* Verification and registration. *)

LEMMA CodesKept ==
    ASSUME SignInInv, NEW b \in Browser, AskAt(b), ask[b].pc \notin {"text", "keep"},
           ask'[b].pc \notin {"text", "keep"},
           ask'[b].pc \in {"right", "wrong", "verified"} => ask'[b].code \in Code,
           otp' \in [Code -> OtpRow], spent' \in [Code -> Nat],
           member' \in [Way -> {"none", "active", "disabled"}],
           \A d \in Code : /\ otp'[d].state = otp[d].state /\ otp'[d].told = otp[d].told
                           /\ spent'[d] = IF otp'[d].used THEN 1 ELSE 0
                           /\ otp'[d].tries + Cardinality(Wrong(d)') < MaxTries + Cardinality(Browser),
           Backed(b)', UNCHANGED <<texting, entry, extras, session>>
    PROVE  SignInInv'
<1>1. SignInTypes /\ CodesInOrder
  BY DEF SignInInv
<1>2. SignInTypes'
  BY <1>1 DEF SignInTypes, AskAt
<1>3. Created' = Created
  BY DEF Created
<1>4. CodesInOrder'
  BY <1>1, <1>3 DEF CodesInOrder
<1>5. ASSUME NEW d \in Code
      PROVE  RowTrue(d)'
  <2>1. LastTold(d)' = LastTold(d)
    BY DEF LastTold
  <2> QED BY <2>1 DEF SignInInv, RowTrue
<1>6. ASSUME NEW x \in Browser
      PROVE  Sends(x)' /\ Backed(x)'
  <2>1. CASE x = b
    BY <2>1 DEF SignInInv, Sends
  <2>2. CASE x # b
    <3>1. ask'[x] = ask[x] /\ Sends(x) /\ Backed(x)
      BY <2>2 DEF AskAt, SignInInv
    <3> QED BY <1>3, <3>1 DEF Sends, Backed, Newest
  <2> QED BY <2>1, <2>2
<1> QED BY <1>2, <1>4, <1>5, <1>6 DEF SignInInv

LEMMA ReadForVerifyKeeps ==
    ASSUME SignInInv, NEW b \in Browser, ReadForVerify(b)
    PROVE  SignInInv'
<1>1. SignInTypes /\ ask[b] = NoAsk /\ UNCHANGED <<otp, texting, member, entry, extras, session, spent>>
  BY DEF SignInInv, ReadForVerify
<1>2. PICK c \in Code, pc \in {"right", "wrong"} :
          /\ otp[c].tries < MaxTries
          /\ ask' = [ask EXCEPT ![b] = [NoAsk EXCEPT !.code = c, !.pc = pc]]
  <2>1. PICK c \in Waiting, typed \in {0} \cup {d \in Code : otp[d].told} :
            /\ otp[c].tries < MaxTries
            /\ ask' = [ask EXCEPT ![b] = [NoAsk EXCEPT !.code = c,
                                                       !.pc = IF typed = c THEN "right" ELSE "wrong"]]
    BY DEF ReadForVerify
  <2>2. c \in Code
    BY DEF Waiting, Created
  <2>3. CASE typed = c
    BY <2>1, <2>2, <2>3
  <2>4. CASE typed # c
    BY <2>1, <2>2, <2>4
  <2> QED BY <2>3, <2>4
<1>3. AskAt(b) /\ ask'[b].pc = pc /\ ask'[b].code = c
  <2>1. [NoAsk EXCEPT !.code = c, !.pc = pc] \in AskRow
    BY CodeNumbers DEF NoAsk, AskRow
  <2> QED BY <1>1, <1>2, <2>1 DEF AskAt, SignInTypes, NoAsk
<1>4. ask[b].pc = "idle"
  BY <1>1, IdleAsk
<1>5. ASSUME NEW d \in Code
      PROVE  otp[d].tries + Cardinality(Wrong(d)') < MaxTries + Cardinality(Browser)
  <2>1. otp[d].tries \in Nat /\ RowTrue(d)
    BY <1>1 DEF SignInInv, SignInTypes, OtpRow
  <2>2. IsFiniteSet(Wrong(d)) /\ Cardinality(Wrong(d)) \in Nat /\ Cardinality(Browser) \in Nat
        /\ Cardinality(Wrong(d)') \in Nat /\ Cardinality(Wrong(d)') <= Cardinality(Browser)
    <3>1. Wrong(d) \subseteq Browser /\ Wrong(d)' \subseteq Browser
      BY DEF Wrong
    <3> QED BY <3>1, SignInBounds, FS_Subset, FS_CardinalityType
  <2>3. CASE d = c
    BY <1>2, <2>1, <2>2, <2>3, SignInBounds
  <2>4. CASE d # c
    <3>1. Wrong(d)' \subseteq Wrong(d)
      BY <1>3, <2>4 DEF Wrong, AskAt
    <3>2. Cardinality(Wrong(d)') <= Cardinality(Wrong(d))
      BY <2>2, <3>1, FS_Subset
    <3> QED BY <2>1, <2>2, <3>2, SignInBounds DEF RowTrue
  <2> QED BY <2>3, <2>4
<1>6. \A d \in Code : /\ otp'[d].state = otp[d].state /\ otp'[d].told = otp[d].told
                      /\ spent'[d] = IF otp'[d].used THEN 1 ELSE 0
                      /\ otp'[d].tries + Cardinality(Wrong(d)') < MaxTries + Cardinality(Browser)
  BY <1>1, <1>5 DEF SignInInv, RowTrue
<1>7. Backed(b)'
  BY <1>3 DEF Backed
<1> QED BY <1>1, <1>3, <1>4, <1>6, <1>7, CodesKept DEF SignInTypes

LEMMA CountTryKeeps ==
    ASSUME SignInInv, NEW b \in Browser, CountTry(b)
    PROVE  SignInInv'
<1>1. SignInTypes /\ ask[b].pc = "wrong" /\ UNCHANGED <<texting, member, entry, extras, session, spent>>
      /\ Answer(b)
  BY DEF SignInInv, CountTry
<1> PICK c \in Code : c = ask[b].code
  BY <1>1 DEF SignInInv, Sends
<1>2. AskAt(b) /\ ask'[b].pc = "idle"
  BY <1>1, AnswerMoves, IdleAsk
<1> PICK r \in OtpRow : r = otp[c]
  BY <1>1 DEF SignInTypes
<1> PICK n \in Nat : n = r.tries + 1
  BY DEF OtpRow
<1>3. otp' = [otp EXCEPT ![c] = [r EXCEPT !.tries = n]] /\ [r EXCEPT !.tries = n] \in OtpRow
  BY <1>1 DEF CountTry, SignInTypes, OtpRow
<1>4. OtpAt(c) /\ otp'[c] = [r EXCEPT !.tries = n]
  BY <1>1, <1>3 DEF OtpAt, SignInTypes
<1>5. otp'[c].state = otp[c].state /\ otp'[c].told = otp[c].told /\ otp'[c].used = otp[c].used
      /\ otp'[c].tries = otp[c].tries + 1
  BY <1>4 DEF OtpRow
<1>6. ASSUME NEW d \in Code
      PROVE  /\ otp'[d].state = otp[d].state /\ otp'[d].told = otp[d].told /\ otp'[d].used = otp[d].used
             /\ otp'[d].tries + Cardinality(Wrong(d)') < MaxTries + Cardinality(Browser)
  <2>1. RowTrue(d) /\ otp[d].tries \in Nat
    BY <1>1 DEF SignInInv, SignInTypes, OtpRow
  <2>2. /\ Cardinality(Wrong(d)) \in Nat /\ Cardinality(Wrong(d)') \in Nat
        /\ Cardinality(Wrong(d)') <= Cardinality(Wrong(d)) /\ Cardinality(Browser) \in Nat
        /\ d = c => Cardinality(Wrong(d)') + 1 <= Cardinality(Wrong(d))
    BY <1>1, <1>2, NoNewGuess
  <2>3. CASE d = c
    <3>1. otp[c].tries + 1 + Cardinality(Wrong(c)') < MaxTries + Cardinality(Browser)
      BY <2>1, <2>2, <2>3, SignInBounds DEF RowTrue
    <3> QED BY <1>5, <2>3, <3>1
  <2>4. CASE d # c
    <3>1. otp'[d] = otp[d]
      BY <1>4, <2>4 DEF OtpAt
    <3> QED BY <2>1, <2>2, <3>1, SignInBounds DEF RowTrue
  <2> QED BY <2>3, <2>4
<1>7. \A d \in Code : /\ otp'[d].state = otp[d].state /\ otp'[d].told = otp[d].told
                      /\ spent'[d] = IF otp'[d].used THEN 1 ELSE 0
                      /\ otp'[d].tries + Cardinality(Wrong(d)') < MaxTries + Cardinality(Browser)
  BY <1>1, <1>6 DEF SignInInv, RowTrue
<1>8. Backed(b)'
  BY <1>2 DEF Backed
<1> QED BY <1>1, <1>2, <1>4, <1>7, <1>8, CodesKept DEF SignInTypes, OtpAt

LEMMA IssueTokenKeeps ==
    ASSUME SignInInv, NEW b \in Browser, IssueToken(b)
    PROVE  SignInInv'
<1>1. SignInTypes /\ ask[b].pc = "right" /\ UNCHANGED <<texting, member, entry, extras, session, spent>>
  BY DEF SignInInv, IssueToken
<1> PICK c \in Code : c = ask[b].code
  BY <1>1 DEF SignInInv, Sends
<1> PICK r \in OtpRow : r = otp[c]
  BY <1>1 DEF SignInTypes
<1> PICK n \in Nat : n = r.token + 1
  BY DEF OtpRow
<1>2. otp' = [otp EXCEPT ![c] = [r EXCEPT !.token = n, !.stale = FALSE]]
      /\ [r EXCEPT !.token = n, !.stale = FALSE] \in OtpRow
  <2>1. otp' = [otp EXCEPT ![c].token = @ + 1, ![c].stale = FALSE]
    BY DEF IssueToken
  <2>2. [otp EXCEPT ![c].token = @ + 1, ![c].stale = FALSE]
            = [otp EXCEPT ![c] = [otp[c] EXCEPT !.token = otp[c].token + 1, !.stale = FALSE]]
    BY <1>1 DEF SignInTypes, OtpRow
  <2> QED BY <2>1, <2>2 DEF OtpRow
<1>3. OtpAt(c) /\ otp'[c] = [r EXCEPT !.token = n, !.stale = FALSE]
  BY <1>1, <1>2 DEF OtpAt, SignInTypes
<1>4. otp'[c].state = otp[c].state /\ otp'[c].told = otp[c].told /\ otp'[c].used = otp[c].used
      /\ otp'[c].tries = otp[c].tries
  BY <1>3 DEF OtpRow
<1>5. AskAt(b) /\ ask'[b].pc = "verified" /\ ask'[b].code = c
  <2>1. ask' = [ask EXCEPT ![b].pc = "verified", ![b].token = n]
    BY DEF IssueToken
  <2>2. PICK q \in AskRow : q = ask[b]
    BY <1>1 DEF SignInTypes
  <2>3. ask' = [ask EXCEPT ![b] = [q EXCEPT !.pc = "verified", !.token = n]]
    BY <1>1, <2>1, <2>2 DEF SignInTypes
  <2>4. [q EXCEPT !.pc = "verified", !.token = n] \in AskRow
    BY DEF AskRow
  <2>5. ask'[b] = [q EXCEPT !.pc = "verified", !.token = n] /\ AskAt(b)
    BY <1>1, <2>3, <2>4 DEF AskAt, SignInTypes
  <2> QED BY <2>2, <2>5 DEF AskRow
<1>6. ASSUME NEW d \in Code
      PROVE  /\ otp'[d].state = otp[d].state /\ otp'[d].told = otp[d].told /\ otp'[d].used = otp[d].used
             /\ otp'[d].tries + Cardinality(Wrong(d)') < MaxTries + Cardinality(Browser)
  <2>1. RowTrue(d) /\ otp[d].tries \in Nat
    BY <1>1 DEF SignInInv, SignInTypes, OtpRow
  <2>2. /\ Cardinality(Wrong(d)) \in Nat /\ Cardinality(Wrong(d)') \in Nat
        /\ Cardinality(Wrong(d)') <= Cardinality(Wrong(d)) /\ Cardinality(Browser) \in Nat
    BY <1>1, <1>5, NoNewGuess
  <2>3. otp'[d].state = otp[d].state /\ otp'[d].told = otp[d].told /\ otp'[d].used = otp[d].used
        /\ otp'[d].tries = otp[d].tries
    BY <1>3, <1>4 DEF OtpAt
  <2> QED BY <2>1, <2>2, <2>3, SignInBounds DEF RowTrue
<1>7. \A d \in Code : /\ otp'[d].state = otp[d].state /\ otp'[d].told = otp[d].told
                      /\ spent'[d] = IF otp'[d].used THEN 1 ELSE 0
                      /\ otp'[d].tries + Cardinality(Wrong(d)') < MaxTries + Cardinality(Browser)
  BY <1>1, <1>6 DEF SignInInv, RowTrue
<1>8. Backed(b)'
  BY <1>5 DEF Backed
<1> QED BY <1>1, <1>3, <1>5, <1>7, <1>8, CodesKept DEF SignInTypes, OtpAt

LEMMA RegisterKeeps ==
    ASSUME SignInInv, NEW b \in Browser, NEW w \in Way, Register(b, w)
    PROVE  SignInInv'
<1>1. SignInTypes /\ ask[b].pc = "verified" /\ UNCHANGED <<texting, entry, extras, session>>
  BY DEF SignInInv, Register
<1> PICK c \in Code : c = ask[b].code
  BY <1>1 DEF SignInInv, Sends
<1>2. CASE ~(TokenOpens(c, ask[b].token) /\ member[w] # "disabled")
  <2>1. Answer(b) /\ UNCHANGED <<otp, spent, member>>
    BY <1>2 DEF Register
  <2>2. AskAt(b) /\ ask'[b].pc = "idle" /\ Backed(b)'
    BY <1>1, <2>1, AnswerMoves, IdleAsk DEF Backed
  <2>3. entry' = entry /\ extras' = extras /\ session' = session /\ entry <= entry' /\ entry' \in {0, 1}
    BY <1>1 DEF SignInTypes
  <2> QED BY <1>1, <2>1, <2>2, <2>3, AskGoesOn DEF SignInInv, SignInTypes
<1>3. CASE TokenOpens(c, ask[b].token) /\ member[w] # "disabled"
  <2> PICK r \in OtpRow : r = otp[c]
    BY <1>1 DEF SignInTypes
  <2> PICK n \in Nat : n = spent[c] + 1
    BY <1>1 DEF SignInTypes
  <2>1. ~r.used
    BY <1>3 DEF TokenOpens
  <2>2. otp' = [otp EXCEPT ![c] = [r EXCEPT !.used = TRUE]] /\ [r EXCEPT !.used = TRUE] \in OtpRow
        /\ spent' = [spent EXCEPT ![c] = n] /\ member' = [member EXCEPT ![w] = "active"]
    BY <1>1, <1>3 DEF Register, SignInTypes, OtpRow
  <2>3. OtpAt(c) /\ otp'[c] = [r EXCEPT !.used = TRUE]
    BY <1>1, <2>2 DEF OtpAt, SignInTypes
  <2>4. otp'[c].state = otp[c].state /\ otp'[c].told = otp[c].told /\ otp'[c].used
        /\ otp'[c].tries = otp[c].tries
    BY <2>3 DEF OtpRow
  <2>5. PICK pc \in {"account", "session"} : pc = IF w = "web" THEN "account" ELSE "session"
    OBVIOUS
  <2>6. AskAt(b) /\ ask'[b].pc = pc /\ ask'[b].way = w
    <3>1. ask' = [ask EXCEPT ![b] = [NoAsk EXCEPT !.way = w, !.pc = pc]]
      BY <1>3, <2>5 DEF Register
    <3>2. [NoAsk EXCEPT !.way = w, !.pc = pc] \in AskRow
      BY DEF NoAsk, AskRow
    <3> QED BY <1>1, <3>1, <3>2 DEF AskAt, SignInTypes, NoAsk
  <2>7. ASSUME NEW d \in Code
        PROVE  /\ otp'[d].state = otp[d].state /\ otp'[d].told = otp[d].told
               /\ spent'[d] = IF otp'[d].used THEN 1 ELSE 0
               /\ otp'[d].tries + Cardinality(Wrong(d)') < MaxTries + Cardinality(Browser)
    <3>1. RowTrue(d) /\ otp[d].tries \in Nat
      BY <1>1 DEF SignInInv, SignInTypes, OtpRow
    <3>2. /\ Cardinality(Wrong(d)) \in Nat /\ Cardinality(Wrong(d)') \in Nat
          /\ Cardinality(Wrong(d)') <= Cardinality(Wrong(d)) /\ Cardinality(Browser) \in Nat
      BY <1>1, <2>6, NoNewGuess
    <3>3. otp'[d].state = otp[d].state /\ otp'[d].told = otp[d].told /\ otp'[d].tries = otp[d].tries
      BY <2>3, <2>4 DEF OtpAt
    <3>4. otp'[d].tries + Cardinality(Wrong(d)') < MaxTries + Cardinality(Browser)
      BY <3>1, <3>2, <3>3, SignInBounds DEF RowTrue
    <3>5. spent'[d] = IF otp'[d].used THEN 1 ELSE 0
      <4>1. CASE d = c
        <5>1. spent[c] = 0
          BY <2>1, <3>1, <4>1 DEF RowTrue
        <5> QED BY <1>1, <2>2, <2>4, <4>1, <5>1 DEF SignInTypes
      <4>2. CASE d # c
        <5>1. spent'[d] = spent[d] /\ otp'[d] = otp[d]
          BY <1>1, <2>2, <2>3, <4>2 DEF OtpAt, SignInTypes
        <5> QED BY <3>1, <5>1 DEF RowTrue
      <4> QED BY <4>1, <4>2
    <3> QED BY <3>3, <3>4, <3>5
  <2>8. Backed(b)'
    BY <2>5, <2>6 DEF Backed
  <2>9. spent' \in [Code -> Nat] /\ member' \in [Way -> {"none", "active", "disabled"}]
    BY <1>1, <2>2 DEF SignInTypes
  <2> QED BY <1>1, <2>3, <2>5, <2>6, <2>7, <2>8, <2>9, CodesKept DEF OtpAt
<1> QED BY <1>2, <1>3

\* A step of a registration that only moves the request, in a state that has
\* what the next step relies on.
LEMMA OnlyMovesKeeps ==
    ASSUME SignInInv, NEW b \in Browser, AskAt(b), ask[b].pc \notin {"text", "keep"},
           ask'[b].pc \notin {"text", "keep", "right", "wrong", "verified"},
           UNCHANGED <<otp, texting, member, entry, extras, session, spent>>,
           Backed(b)'
    PROVE  SignInInv'
<1>1. entry' \in {0, 1} /\ entry <= entry' /\ extras' \subseteq {"welcome"} /\ extras \subseteq extras'
      /\ member' \in [Way -> {"none", "active", "disabled"}]
  BY DEF SignInInv, SignInTypes
<1>2. "web" \in session' => entry' = 1 /\ "welcome" \in extras'
  BY DEF SignInInv
<1> QED BY <1>1, <1>2, AskGoesOn

\* So does one that gives up.
LEMMA GivingUpKeeps ==
    ASSUME SignInInv, NEW b \in Browser, Answer(b), ask[b].pc \notin {"text", "keep"},
           UNCHANGED <<otp, texting, member, entry, extras, session, spent>>
    PROVE  SignInInv'
<1>1. AskAt(b) /\ ask'[b].pc = "idle"
  BY AnswerMoves, IdleAsk DEF SignInInv
<1>2. Backed(b)'
  BY <1>1 DEF Backed
<1> QED BY <1>1, <1>2, OnlyMovesKeeps

LEMMA FindAccountKeeps ==
    ASSUME SignInInv, NEW b \in Browser, FindAccount(b)
    PROVE  SignInInv'
<1>1. SignInTypes /\ ask[b].pc = "account" /\ ask[b].way = "web" /\ entry \in {0, 1}
      /\ UNCHANGED <<otp, texting, member, entry, extras, session, spent>>
  BY DEF SignInInv, FindAccount, Backed, SignInTypes
<1>2. CASE member["web"] # "active"
  BY <1>1, <1>2, GivingUpKeeps DEF FindAccount
<1>3. CASE member["web"] = "active"
  <2>1. PICK pc \in {"create", "regrant"} : pc = IF entry = 0 THEN "create" ELSE "regrant"
    OBVIOUS
  <2>2. Step(b, pc)
    BY <1>3, <2>1 DEF FindAccount
  <2>3. AskAt(b) /\ ask'[b].pc = pc /\ ask'[b].way = "web"
    BY <1>1, <2>2, StepMoves
  <2>4. Backed(b)'
    BY <1>1, <2>1, <2>3 DEF Backed
  <2> QED BY <1>1, <2>3, <2>4, OnlyMovesKeeps
<1> QED BY <1>2, <1>3

LEMMA CountAccountsKeeps ==
    ASSUME SignInInv, NEW b \in Browser, CountAccounts(b)
    PROVE  SignInInv'
<1>1. SignInTypes /\ ask[b].pc = "create" /\ ask[b].way = "web"
      /\ UNCHANGED <<otp, texting, member, entry, extras, session, spent>>
  BY DEF SignInInv, CountAccounts, Backed
<1>2. CASE Answer(b)
  BY <1>1, <1>2, GivingUpKeeps
<1>3. CASE Step(b, "insert")
  <2>1. AskAt(b) /\ ask'[b].pc = "insert" /\ ask'[b].way = "web"
    BY <1>1, <1>3, StepMoves
  <2>2. Backed(b)'
    BY <2>1 DEF Backed
  <2> QED BY <1>1, <2>1, <2>2, OnlyMovesKeeps
<1> QED BY <1>2, <1>3 DEF CountAccounts

\* Two requests may both have counted no account; the second finds the row of
\* the first when it inserts.
LEMMA InsertAccountKeeps ==
    ASSUME SignInInv, NEW b \in Browser, InsertAccount(b)
    PROVE  SignInInv'
<1>1. SignInTypes /\ ask[b].pc = "insert" /\ ask[b].way = "web" /\ entry \in {0, 1}
      /\ UNCHANGED <<otp, texting, member, extras, session, spent>>
  BY DEF SignInInv, InsertAccount, Backed, SignInTypes
<1>2. CASE entry # 0
  <2>1. Answer(b) /\ UNCHANGED entry
    BY <1>2 DEF InsertAccount, AccountIsFirst
  <2> QED BY <1>1, <2>1, GivingUpKeeps
<1>3. CASE entry = 0
  <2>1. Step(b, "subscribe") /\ entry' = 1
    BY <1>3 DEF InsertAccount, AccountIsFirst
  <2>2. AskAt(b) /\ ask'[b].pc = "subscribe" /\ ask'[b].way = "web"
    BY <1>1, <2>1, StepMoves
  <2>3. Backed(b)'
    BY <2>1, <2>2 DEF Backed
  <2>4. entry' \in {0, 1} /\ entry <= entry' /\ extras' \subseteq {"welcome"} /\ extras \subseteq extras'
        /\ member' \in [Way -> {"none", "active", "disabled"}]
    BY <1>1, <1>3, <2>1 DEF SignInTypes
  <2>5. "web" \notin session'
    BY <1>1, <1>3 DEF SignInInv
  <2> QED BY <1>1, <2>2, <2>3, <2>4, <2>5, AskGoesOn
<1> QED BY <1>2, <1>3

LEMMA SubscribeKeeps ==
    ASSUME SignInInv, NEW b \in Browser, Subscribe(b)
    PROVE  SignInInv'
<1>1. SignInTypes /\ ask[b].pc = "subscribe" /\ ask[b].way = "web" /\ entry = 1
      /\ UNCHANGED <<otp, texting, member, entry, extras, session, spent>>
  BY DEF SignInInv, Subscribe, Backed
<1>2. CASE Answer(b)
  BY <1>1, <1>2, GivingUpKeeps
<1>3. CASE Step(b, "welcome")
  <2>1. AskAt(b) /\ ask'[b].pc = "welcome" /\ ask'[b].way = "web"
    BY <1>1, <1>3, StepMoves
  <2>2. Backed(b)'
    BY <1>1, <2>1 DEF Backed
  <2> QED BY <1>1, <2>1, <2>2, OnlyMovesKeeps
<1> QED BY <1>2, <1>3 DEF Subscribe

\* The welcome is granted, by the request that made the account or by one that
\* found it.
LEMMA GrantKeeps ==
    ASSUME SignInInv, NEW b \in Browser, ask[b].pc \in {"welcome", "regrant"},
           NEW pc \in {"origin", "session"}, Step(b, pc), extras' = extras \cup {"welcome"},
           UNCHANGED <<otp, texting, member, entry, session, spent>>
    PROVE  SignInInv'
<1>1. SignInTypes /\ ask[b].way = "web" /\ entry = 1
  BY DEF SignInInv, Backed
<1>2. AskAt(b) /\ ask'[b].pc = pc /\ ask'[b].way = "web"
  BY <1>1, StepMoves
<1>3. Backed(b)'
  BY <1>1, <1>2 DEF Backed
<1>4. entry' \in {0, 1} /\ entry <= entry' /\ extras' \subseteq {"welcome"} /\ extras \subseteq extras'
      /\ member' \in [Way -> {"none", "active", "disabled"}]
  BY <1>1 DEF SignInTypes
<1>5. entry' = 1 /\ "welcome" \in extras'
  BY <1>1
<1> QED BY <1>2, <1>3, <1>4, <1>5, AskGoesOn

LEMMA AttributeKeeps ==
    ASSUME SignInInv, NEW b \in Browser, Attribute(b)
    PROVE  SignInInv'
<1>1. SignInTypes /\ ask[b].pc = "origin" /\ entry = 1 /\ "welcome" \in extras
      /\ UNCHANGED <<otp, texting, member, entry, extras, session, spent>> /\ Step(b, "session")
  BY DEF SignInInv, Attribute, Backed
<1>2. AskAt(b) /\ ask'[b].pc = "session"
  BY <1>1, StepMoves
<1>3. Backed(b)'
  BY <1>1, <1>2 DEF Backed
<1> QED BY <1>1, <1>2, <1>3, OnlyMovesKeeps

LEMMA IssueSessionKeeps ==
    ASSUME SignInInv, NEW b \in Browser, IssueSession(b)
    PROVE  SignInInv'
<1>1. SignInTypes /\ ask[b].pc = "session" /\ Answer(b)
      /\ UNCHANGED <<otp, texting, member, entry, extras, spent>>
      /\ session' \subseteq session \cup {ask[b].way}
  BY DEF SignInInv, IssueSession
<1>2. AskAt(b) /\ ask'[b].pc = "idle"
  BY <1>1, AnswerMoves, IdleAsk
<1>3. Backed(b)'
  BY <1>2 DEF Backed
<1>4. entry' \in {0, 1} /\ entry <= entry' /\ extras' \subseteq {"welcome"} /\ extras \subseteq extras'
      /\ member' \in [Way -> {"none", "active", "disabled"}]
  BY <1>1 DEF SignInTypes
<1>5. "web" \in session' => entry' = 1 /\ "welcome" \in extras'
  BY <1>1 DEF SignInInv, Backed
<1> QED BY <1>1, <1>2, <1>3, <1>4, <1>5, AskGoesOn

(* What happens to all of them. *)

LEMMA EndSessionKeeps ==
    ASSUME SignInInv, EndSession
    PROVE  SignInInv'
<1>1. session' \subseteq session /\ UNCHANGED <<otp, texting, member, entry, extras, spent, ask>>
  BY DEF EndSession
<1>2. SignInTypes' /\ CodesInOrder'
  BY <1>1 DEF SignInInv, SignInTypes, CodesInOrder, Created
<1>3. \A c \in Code : RowTrue(c)'
  BY <1>1 DEF SignInInv, RowTrue, LastTold, Wrong
<1>4. \A b \in Browser : Sends(b)' /\ Backed(b)'
  BY <1>1 DEF SignInInv, Sends, Backed, Newest, Created
<1> QED BY <1>1, <1>2, <1>3, <1>4 DEF SignInInv

LEMMA SetMembershipKeeps ==
    ASSUME SignInInv, NEW w \in Way, SetMembership(w)
    PROVE  SignInInv'
<1>1. UNCHANGED <<otp, texting, entry, extras, session, spent, ask>>
  BY DEF SetMembership
<1>2. PICK s \in {"active", "disabled"} : s = IF member[w] = "active" THEN "disabled" ELSE "active"
  OBVIOUS
<1>3. member' = [member EXCEPT ![w] = s]
  BY <1>2 DEF SetMembership
<1>4. SignInTypes' /\ CodesInOrder'
  BY <1>1, <1>3 DEF SignInInv, SignInTypes, CodesInOrder, Created
<1>5. \A c \in Code : RowTrue(c)'
  BY <1>1 DEF SignInInv, RowTrue, LastTold, Wrong
<1>6. \A b \in Browser : Sends(b)' /\ Backed(b)'
  BY <1>1 DEF SignInInv, Sends, Backed, Newest, Created
<1> QED BY <1>1, <1>4, <1>5, <1>6 DEF SignInInv

\* A guess that was read and not counted is forgotten with its request.
LEMMA ProcessDiesKeeps ==
    ASSUME SignInInv, ProcessDies
    PROVE  SignInInv'
<1>1. SignInTypes /\ ask' = [b \in Browser |-> NoAsk] /\ texting' = {}
      /\ UNCHANGED <<otp, member, entry, extras, session, spent>>
  BY DEF SignInInv, ProcessDies
<1>2. \A b \in Browser : ask'[b] \in AskRow /\ ask'[b].pc = "idle"
  BY <1>1, IdleAsk
<1>3. SignInTypes'
  BY <1>1, IdleAsk DEF SignInTypes
<1>4. CodesInOrder'
  BY <1>1 DEF SignInInv, CodesInOrder, Created
<1>5. ASSUME NEW c \in Code
      PROVE  RowTrue(c)'
  <2>1. RowTrue(c) /\ otp[c].tries \in Nat
    BY <1>1 DEF SignInInv, SignInTypes, OtpRow
  <2>2. Wrong(c)' = {}
    BY <1>2 DEF Wrong
  <2>3. Cardinality(Wrong(c)') = 0 /\ Cardinality(Wrong(c)) \in Nat /\ Cardinality(Browser) \in Nat
    <3>1. Wrong(c) \subseteq Browser
      BY DEF Wrong
    <3> QED BY <2>2, <3>1, SignInBounds, FS_EmptySet, FS_Subset, FS_CardinalityType
  <2>4. otp'[c].tries + Cardinality(Wrong(c)') < MaxTries + Cardinality(Browser)
    BY <1>1, <2>1, <2>3, SignInBounds DEF RowTrue
  <2>5. LastTold(c)' = LastTold(c)
    BY <1>1 DEF LastTold
  <2> QED BY <1>1, <2>1, <2>4, <2>5 DEF RowTrue
<1>6. \A b \in Browser : Sends(b)' /\ Backed(b)'
  BY <1>1, <1>2 DEF Sends, Backed
<1>7. "web" \in session' => entry' = 1 /\ "welcome" \in extras'
  BY <1>1 DEF SignInInv
<1> QED BY <1>3, <1>4, <1>5, <1>6, <1>7 DEF SignInInv

LEMMA TimeRunsOutKeeps ==
    ASSUME SignInInv, TimeRunsOut
    PROVE  SignInInv'
<1>1. SignInTypes /\ UNCHANGED <<texting, member, entry, extras, session, spent, ask>>
  BY DEF SignInInv, TimeRunsOut
<1> PICK c \in Code : \/ otp[c].state = "live" /\ otp' = [otp EXCEPT ![c].state = "expired"]
                      \/ otp' = [otp EXCEPT ![c].stale = TRUE]
  BY DEF TimeRunsOut, Created
<1> PICK r \in OtpRow : r = otp[c]
  BY <1>1 DEF SignInTypes
<1>2. PICK q \in OtpRow :
          /\ otp' = [otp EXCEPT ![c] = q]
          /\ q.told = r.told /\ q.tries = r.tries /\ q.used = r.used
          /\ q.state = r.state \/ (q.state = "expired" /\ r.state = "live")
  <2>1. CASE otp[c].state = "live" /\ otp' = [otp EXCEPT ![c].state = "expired"]
    <3>1. otp' = [otp EXCEPT ![c] = [r EXCEPT !.state = "expired"]]
      BY <1>1, <2>1 DEF SignInTypes
    <3>2. [r EXCEPT !.state = "expired"] \in OtpRow
      BY DEF OtpRow
    <3> QED BY <2>1, <3>1, <3>2 DEF OtpRow
  <2>2. CASE otp' = [otp EXCEPT ![c].stale = TRUE]
    <3>1. otp' = [otp EXCEPT ![c] = [r EXCEPT !.stale = TRUE]]
      BY <1>1, <2>2 DEF SignInTypes
    <3>2. [r EXCEPT !.stale = TRUE] \in OtpRow
      BY DEF OtpRow
    <3> QED BY <3>1, <3>2 DEF OtpRow
  <2> QED BY <2>1, <2>2
<1>3. OtpAt(c) /\ otp'[c] = q
  BY <1>1, <1>2 DEF OtpAt, SignInTypes
<1>4. \A d \in Code : /\ otp'[d].told = otp[d].told /\ otp'[d].tries = otp[d].tries
                      /\ otp'[d].used = otp[d].used
                      /\ \/ otp'[d].state = otp[d].state
                         \/ otp'[d].state = "expired" /\ otp[d].state = "live"
  BY <1>2, <1>3 DEF OtpAt
<1>5. Created' = Created
  BY <1>4 DEF Created
<1>6. SignInTypes' /\ CodesInOrder'
  BY <1>1, <1>3, <1>5 DEF SignInInv, SignInTypes, CodesInOrder, OtpAt
<1>7. ASSUME NEW d \in Code
      PROVE  RowTrue(d)'
  <2>1. LastTold(d)' = LastTold(d) /\ Wrong(d)' = Wrong(d)
    BY <1>1, <1>4 DEF LastTold, Wrong
  <2> QED BY <1>1, <1>4, <2>1 DEF SignInInv, RowTrue
<1>8. ASSUME NEW b \in Browser
      PROVE  Sends(b)' /\ Backed(b)'
  <2>1. Sends(b) /\ Backed(b)
    BY DEF SignInInv
  <2> QED BY <1>1, <1>4, <1>5, <2>1 DEF Sends, Backed, Newest
<1> QED BY <1>1, <1>6, <1>7, <1>8 DEF SignInInv

LEMMA SignInStutters ==
    ASSUME SignInInv, UNCHANGED signInVars
    PROVE  SignInInv'
<1>1. UNCHANGED <<otp, texting, member, entry, extras, session, spent, ask>>
  BY DEF signInVars
<1>2. SignInTypes' /\ CodesInOrder'
  BY <1>1 DEF SignInInv, SignInTypes, CodesInOrder, Created
<1>3. \A c \in Code : RowTrue(c)'
  BY <1>1 DEF SignInInv, RowTrue, LastTold, Wrong
<1>4. \A b \in Browser : Sends(b)' /\ Backed(b)'
  BY <1>1 DEF SignInInv, Sends, Backed, Newest, Created
<1> QED BY <1>1, <1>2, <1>3, <1>4 DEF SignInInv

LEMMA SignInStarts ==
    ASSUME SignInInit
    PROVE  SignInInv
<1>1. \A b \in Browser : ask[b] = NoAsk /\ ask[b].pc = "idle"
  BY IdleAsk DEF SignInInit
<1>2. NoRow \in OtpRow /\ NoRow.state = "none" /\ ~NoRow.told /\ ~NoRow.used /\ NoRow.tries = 0
  BY DEF NoRow, OtpRow
<1>3. \A c \in Code : otp[c] = NoRow /\ spent[c] = 0
  BY DEF SignInInit
<1>4. SignInTypes
  BY <1>2, IdleAsk DEF SignInInit, SignInTypes
<1>5. Created = {}
  BY <1>2, <1>3 DEF Created
<1>6. CodesInOrder
  <2>1. Cardinality(Created) = 0 /\ 1 .. 0 = {}
    BY <1>5, FS_EmptySet
  <2> QED BY <1>5, <2>1 DEF CodesInOrder, SignInInit
<1>7. ASSUME NEW c \in Code
      PROVE  RowTrue(c)
  <2>1. Wrong(c) = {}
    BY <1>1 DEF Wrong
  <2>2. Cardinality(Wrong(c)) = 0 /\ Cardinality(Browser) \in Nat
    BY <2>1, SignInBounds, FS_EmptySet, FS_CardinalityType
  <2>3. otp[c].tries + Cardinality(Wrong(c)) < MaxTries + Cardinality(Browser)
    BY <1>2, <1>3, <2>2, SignInBounds
  <2> QED BY <1>2, <1>3, <2>3 DEF RowTrue
<1>8. \A b \in Browser : Sends(b) /\ Backed(b)
  BY <1>1 DEF Sends, Backed, SignInInit
<1> QED BY <1>4, <1>6, <1>7, <1>8 DEF SignInInv, SignInInit

LEMMA SignInInvHolds ==
    ASSUME SignInInv
    PROVE  SignInIsSound
<1>1. SignInTypes
  BY DEF SignInInv
<1>2. SignInTypeOK
  BY <1>1 DEF SignInTypes, SignInTypeOK, OtpRow
<1>3. ASSUME NEW c \in Created, otp[c].told, \A d \in Created : otp[d].told => d <= c
      PROVE  otp[c].state # "cancelled"
  <2>1. c \in Code
    BY DEF Created
  <2>2. \A d \in Code : otp[d].told => d \in Created
    BY DEF SignInInv, RowTrue, Created
  <2>3. LastTold(c)
    BY <1>3, <2>2 DEF LastTold
  <2> QED BY <2>1, <2>3 DEF SignInInv, RowTrue
<1>4. LastCodeStands
  BY <1>3 DEF LastCodeStands
<1>5. ASSUME NEW c \in Code
      PROVE  spent[c] <= 1 /\ otp[c].tries < MaxTries + Cardinality(Browser)
  <2>1. RowTrue(c) /\ otp[c].tries \in Nat
    BY <1>1 DEF SignInInv, SignInTypes, OtpRow
  <2>2. Cardinality(Wrong(c)) \in Nat /\ Cardinality(Browser) \in Nat
    <3>1. Wrong(c) \subseteq Browser
      BY DEF Wrong
    <3> QED BY <3>1, SignInBounds, FS_Subset, FS_CardinalityType
  <2> QED BY <2>1, <2>2, SignInBounds DEF RowTrue
<1>6. SessionIsBacked
  BY <1>1 DEF SignInInv, SignInTypes, SessionIsBacked
<1> QED BY <1>2, <1>4, <1>5, <1>6 DEF SignInIsSound, CodeIsSpentOnce

\* Whatever requests of a phone run at the same time, fail or die: the code
\* that reached the phone last stands, a code opens one registration and is
\* guessed at boundedly often, one entry account is made, and a session of the
\* web has it with its welcome.
THEOREM SignInStaysSound == SignInSpec => []SignInIsSound
<1>1. SignInInit => SignInInv
  BY SignInStarts
<1>2. SignInInv /\ [SignInNext]_signInVars => SignInInv'
  <2> SUFFICES ASSUME SignInInv, [SignInNext]_signInVars PROVE SignInInv'
    OBVIOUS
  <2>1. ASSUME NEW b \in Browser, StartText(b) \/ TextGoesOut(b) \/ TextFails(b) \/ KeepOnly(b)
        PROVE  SignInInv'
    BY <2>1, StartTextKeeps, TextGoesOutKeeps, TextFailsKeeps, KeepOnlyKeeps
  <2>2. ASSUME NEW b \in Browser, ReadForVerify(b) \/ CountTry(b) \/ IssueToken(b) \/ \E w \in Way : Register(b, w)
        PROVE  SignInInv'
    BY <2>2, ReadForVerifyKeeps, CountTryKeeps, IssueTokenKeeps, RegisterKeeps
  <2>3. ASSUME NEW b \in Browser,
               FindAccount(b) \/ CountAccounts(b) \/ InsertAccount(b) \/ Subscribe(b) \/ Attribute(b) \/ IssueSession(b)
        PROVE  SignInInv'
    BY <2>3, FindAccountKeeps, CountAccountsKeeps, InsertAccountKeeps, SubscribeKeeps, AttributeKeeps,
       IssueSessionKeeps
  <2>4. ASSUME NEW b \in Browser, Welcome(b)
        PROVE  SignInInv'
    BY <2>4, GrantKeeps DEF Welcome
  <2>5. ASSUME NEW b \in Browser, Regrant(b)
        PROVE  SignInInv'
    BY <2>5, GrantKeeps DEF Regrant
  <2>6. ASSUME NEW b \in Browser, Abandon(b)
        PROVE  SignInInv'
    BY <2>6, GivingUpKeeps DEF Abandon
  <2>7. CASE EndSession \/ ProcessDies \/ TimeRunsOut \/ \E w \in Way : SetMembership(w)
    BY <2>7, EndSessionKeeps, ProcessDiesKeeps, TimeRunsOutKeeps, SetMembershipKeeps
  <2>8. CASE UNCHANGED signInVars
    BY <2>8, SignInStutters
  <2> QED BY <2>1, <2>2, <2>3, <2>4, <2>5, <2>6, <2>7, <2>8 DEF SignInNext
<1>3. SignInInv => SignInIsSound
  BY SignInInvHolds
<1> QED BY <1>1, <1>2, <1>3, PTL DEF SignInSpec

-----------------------------------------------------------------------------
(***************************************************************************)
(* A turn of a conversation: ChatTurn.  The request that stores a message  *)
(* is the only one that is ever in the middle of it; how far it has come   *)
(* says what the rows of the message hold.                                 *)
(***************************************************************************)
Stages == {"pending", "step1", "step2", "complete"}
\* A request has not stored its message yet, or it owns it.
Early == {"enter", "welcome", "start", "log", "gate", "store"}
Owner == {"screen", "mark", "ask", "model", "guard", "keep", "charge", "settle", "advance", "deliver"}
TurnRow == [pc : {"idle"} \cup Early \cup Owner, msg : Utterance \cup {0},
            life : Life, stage : Stages \cup {"none"},
            kind : Kinds \cup {"none"}, round : Nat, tools : BOOLEAN, waiting : BOOLEAN]

ChatTypes ==
    /\ posts \in 0 .. MaxPosts /\ life \in Life
    /\ heard \subseteq Row /\ barred \subseteq heard /\ charged \subseteq Utterance
    /\ answers \in [Row -> Seq(Kinds)]
    /\ asks \in [Row -> Nat]
    /\ daily \in [Row -> {"none", "held", "counted", "free"}]
    /\ stage \in Stages /\ asked \in BOOLEAN /\ named \in BOOLEAN
    /\ shown \in [Utterance -> SUBSET Kinds]
    /\ turn \in [Handler -> TurnRow]

Owns(h, r) == turn[h].pc \in Owner /\ Own(h) = r
AskedOk == asked \/ \E m \in Utterance : Said(m, {"withheld"})

\* What is true of a row whoever has stored it.
RowIsTrue(r) ==
    /\ asks[r] <= 1
    /\ r \notin heard => asks[r] = 0 /\ daily[r] = "none"
    /\ daily[r] = "counted" => asks[r] = 1 /\ r \notin barred

\* What is true of a message, over all the rows it has had.
Settled(m) == m \in charged \/ \E l \in Life : daily[<<m, l>>] = "counted"
MessageTrue(m) ==
    /\ m \in charged => \E l \in Life : asks[<<m, l>>] = 1 /\ <<m, l>> \notin barred
    /\ Settled(m) => Said(m, {"answer", "withheld"})
    /\ \A kind \in shown[m] \ {"welcome"} : Said(m, {kind})

\* What its owner has done with a row so far.
OwnerTrue(h) ==
    turn[h].pc \in Owner =>
        /\ Own(h) \in heard
        /\ turn[h].pc \notin {"advance", "deliver"} => daily[Own(h)] = "held"
        /\ turn[h].pc \in {"screen", "mark", "ask"} \/ (turn[h].pc = "model" /\ turn[h].round = 0)
               => asks[Own(h)] = 0
        /\ turn[h].pc = "guard" \/ (turn[h].pc = "model" /\ turn[h].round # 0) \/ Normal(h)
               => asks[Own(h)] = 1
        /\ turn[h].pc \in {"screen", "ask", "model", "guard"} \/ Normal(h) => Own(h) \notin barred
        /\ turn[h].pc \in {"guard", "keep", "charge", "settle", "advance", "deliver"} => turn[h].kind # "none"
        /\ turn[h].pc = "mark" => turn[h].kind = "safe"
        /\ turn[h].pc \in {"charge", "settle", "advance", "deliver"} => Said(Mine(h), {turn[h].kind})
        /\ turn[h].pc = "charge" => Normal(h)

\* What a request knows of the onboarding.
StageTrue(h) ==
    /\ turn[h].pc # "idle" => turn[h].msg \in Utterance
    /\ turn[h].waiting => turn[h].pc # "idle"
    /\ turn[h].pc \in Early => turn[h].kind = "none"
    /\ turn[h].pc \in Early \cup {"screen", "mark", "ask"} => turn[h].round = 0
    /\ turn[h].pc \notin {"idle", "enter"} => turn[h].stage \in Stages
    /\ turn[h].stage \in {"step1", "step2", "complete"} => AskedOk
    /\ turn[h].pc = "start" => asked
    /\ turn[h].pc \in {"charge", "settle", "advance"} /\ Normal(h) => AskedOk
    /\ turn[h].pc = "advance" => Normal(h) /\ turn[h].stage # "complete"

ChatInv ==
    /\ ChatTypes
    /\ \A r \in Row : RowIsTrue(r)
    /\ \A m \in Utterance : MessageTrue(m)
    /\ \A h \in Handler : OwnerTrue(h) /\ StageTrue(h)
    /\ \A r \in Row : \A g, h \in Handler : Owns(g, r) /\ Owns(h, r) => g = h
    /\ stage # "pending" \/ named => AskedOk

TurnAt(h) ==
    /\ turn' \in [Handler -> TurnRow] /\ \A g \in Handler \ {h} : turn'[g] = turn[g]

\* The rows that reply to r are what they were, or one more.
AnswersGrow(r) == answers' = answers \/ \E k \in Kinds : answers' = [answers EXCEPT ![r] = Append(@, k)]

\* What is said stays said.
SaidStays == \A m \in Utterance : \A K \in SUBSET Kinds : Said(m, K) => Said(m, K)'

LEMMA OwnRow ==
    ASSUME ChatTypes, NEW h \in Handler, StageTrue(h), turn[h].pc # "idle"
    PROVE  Mine(h) \in Utterance /\ Own(h) \in Row /\ Now(h) \in Row /\ turn[h].life \in Life
<1>1. turn[h] \in TurnRow /\ turn[h].msg \in Utterance /\ life \in Life
  BY DEF ChatTypes, StageTrue
<1>2. turn[h].life \in Life
  BY <1>1 DEF TurnRow
<1> QED BY <1>1, <1>2 DEF Mine, Own, Now, Row

LEMMA LifeBegins == 0 \in Life
  BY ChatBounds DEF Life

LEMMA RestRow == AtRest \in TurnRow /\ AtRest.pc = "idle" /\ AtRest.stage = "none" /\ AtRest.kind = "none"
                     /\ ~AtRest.waiting
  BY LifeBegins DEF AtRest, TurnRow

LEMMA GotoMoves ==
    ASSUME ChatTypes, NEW h \in Handler, NEW pc \in {"idle"} \cup Early \cup Owner, Goto(h, pc)
    PROVE  /\ TurnAt(h) /\ turn'[h].pc = pc /\ turn'[h].msg = turn[h].msg /\ Own(h)' = Own(h)
           /\ turn'[h].stage = turn[h].stage
           /\ turn'[h].kind = turn[h].kind /\ turn'[h].round = turn[h].round
<1>1. PICK r \in TurnRow : r = turn[h]
  BY DEF ChatTypes
<1>2. turn' = [turn EXCEPT ![h] = [r EXCEPT !.pc = pc]]
  BY <1>1 DEF Goto, ChatTypes
<1>3. /\ [r EXCEPT !.pc = pc] \in TurnRow /\ [r EXCEPT !.pc = pc].pc = pc
      /\ [r EXCEPT !.pc = pc].msg = r.msg /\ [r EXCEPT !.pc = pc].life = r.life /\ [r EXCEPT !.pc = pc].stage = r.stage
      /\ [r EXCEPT !.pc = pc].kind = r.kind /\ [r EXCEPT !.pc = pc].round = r.round
  BY DEF TurnRow
<1>4. turn'[h] = [r EXCEPT !.pc = pc] /\ TurnAt(h)
  BY <1>2, <1>3 DEF TurnAt, ChatTypes
<1> QED BY <1>1, <1>3, <1>4 DEF Own

LEMMA ReplyMoves ==
    ASSUME ChatTypes, NEW h \in Handler, NEW pc \in {"idle"} \cup Early \cup Owner, NEW k \in Kinds,
           Reply(h, k, pc)
    PROVE  /\ TurnAt(h) /\ turn'[h].pc = pc /\ turn'[h].msg = turn[h].msg /\ Own(h)' = Own(h)
           /\ turn'[h].stage = turn[h].stage
           /\ turn'[h].kind = k /\ turn'[h].round = turn[h].round
<1>1. PICK r \in TurnRow : r = turn[h]
  BY DEF ChatTypes
<1>2. turn' = [turn EXCEPT ![h] = [r EXCEPT !.kind = k, !.pc = pc]]
  BY <1>1 DEF Reply, ChatTypes
<1>3. PICK q \in TurnRow : /\ q = [r EXCEPT !.kind = k, !.pc = pc] /\ q.pc = pc /\ q.msg = r.msg /\ q.life = r.life
                           /\ q.stage = r.stage /\ q.kind = k /\ q.round = r.round
  <2>1. [r EXCEPT !.kind = k, !.pc = pc] \in TurnRow
    BY DEF TurnRow
  <2>2. PICK q \in TurnRow : q = [r EXCEPT !.kind = k, !.pc = pc]
    BY <2>1
  <2>3. q.pc = pc /\ q.msg = r.msg /\ q.life = r.life /\ q.stage = r.stage /\ q.kind = k /\ q.round = r.round
    BY <2>2 DEF TurnRow
  <2> QED BY <2>2, <2>3
<1>4. turn'[h] = q /\ TurnAt(h)
  BY <1>2, <1>3 DEF TurnAt, ChatTypes
<1> QED BY <1>1, <1>3, <1>4 DEF Own

LEMMA LeaveMoves ==
    ASSUME ChatTypes, NEW h \in Handler, Leave(h)
    PROVE  TurnAt(h) /\ turn'[h].pc = "idle" /\ turn'[h].stage = "none" /\ ~turn'[h].waiting
  BY RestRow DEF Leave, TurnAt, ChatTypes

LEMMA AnswerAdded ==
    ASSUME ChatTypes, NEW r \in Row, AnswersGrow(r)
    PROVE  answers' \in [Row -> Seq(Kinds)] /\ SaidStays
<1>1. ASSUME NEW x \in Row, NEW K \in SUBSET Kinds, Answered(x, K)
      PROVE  Answered(x, K)'
  <2>1. CASE answers' = answers
    BY <1>1, <2>1 DEF Answered
  <2>2. CASE \E k \in Kinds : answers' = [answers EXCEPT ![r] = Append(@, k)]
    <3>1. PICK k \in Kinds : answers' = [answers EXCEPT ![r] = Append(@, k)]
      BY <2>2
    <3>2. PICK s \in Seq(Kinds) : s = answers[r]
      BY DEF ChatTypes
    <3>3. /\ Append(s, k) \in Seq(Kinds) /\ Len(Append(s, k)) = Len(s) + 1 /\ Len(s) \in Nat
          /\ \A i \in 1 .. Len(s) : Append(s, k)[i] = s[i]
      OBVIOUS
    <3>4. CASE x # r
      <4>1. answers'[x] = answers[x]
        BY <3>1, <3>4 DEF ChatTypes
      <4> QED BY <1>1, <4>1 DEF Answered
    <3>5. CASE x = r
      <4>1. answers'[x] = Append(s, k)
        BY <3>1, <3>2, <3>5 DEF ChatTypes
      <4>2. PICK i \in 1 .. Len(s) : s[i] \in K
        BY <1>1, <3>2, <3>5 DEF Answered
      <4>3. i \in 1 .. Len(Append(s, k)) /\ Append(s, k)[i] \in K
        BY <3>3, <4>2
      <4> QED BY <4>1, <4>3 DEF Answered
    <3> QED BY <3>4, <3>5
  <2> QED BY <2>1, <2>2 DEF AnswersGrow
<1>2. SaidStays
  <2> SUFFICES ASSUME NEW m \in Utterance, NEW K \in SUBSET Kinds, Said(m, K)
               PROVE  Said(m, K)'
    BY DEF SaidStays
  <2>1. PICK l \in Life : Answered(<<m, l>>, K)
    BY DEF Said
  <2>2. <<m, l>> \in Row
    BY DEF Row
  <2> QED BY <1>1, <2>1, <2>2 DEF Said
<1>3. answers' \in [Row -> Seq(Kinds)]
  <2>1. CASE \E k \in Kinds : answers' = [answers EXCEPT ![r] = Append(@, k)]
    <3>1. PICK k \in Kinds : answers' = [answers EXCEPT ![r] = Append(@, k)]
      BY <2>1
    <3>2. PICK s \in Seq(Kinds) : s = answers[r]
      BY DEF ChatTypes
    <3>3. Append(s, k) \in Seq(Kinds)
      OBVIOUS
    <3>4. answers' = [answers EXCEPT ![r] = Append(s, k)]
      BY <3>1, <3>2 DEF ChatTypes
    <3> QED BY <3>3, <3>4 DEF ChatTypes
  <2> QED BY <2>1 DEF ChatTypes, AnswersGrow
<1> QED BY <1>2, <1>3

LEMMA AnswerStands ==
    ASSUME ChatTypes, NEW m \in Utterance, NEW l \in Life, NEW k \in Kinds,
           answers' = [answers EXCEPT ![<<m, l>>] = Append(@, k)]
    PROVE  Said(m, {k})'
<1>1. <<m, l>> \in Row
  BY DEF Row
<1>2. PICK s \in Seq(Kinds) : s = answers[<<m, l>>]
  BY <1>1 DEF ChatTypes
<1>3. answers'[<<m, l>>] = Append(s, k)
  BY <1>1, <1>2 DEF ChatTypes
<1>4. Len(s) + 1 \in 1 .. Len(Append(s, k)) /\ Append(s, k)[Len(s) + 1] = k
  OBVIOUS
<1>5. Answered(<<m, l>>, {k})'
  BY <1>3, <1>4 DEF Answered
<1> QED BY <1>5 DEF Said

\* What holds of a message goes on to hold where no row of it is undone.
LEMMA MessageStays ==
    ASSUME ChatInv, NEW m \in Utterance, SaidStays, shown' \in [Utterance -> SUBSET Kinds],
           \A k \in shown'[m] : k \in shown[m] \/ k = "welcome" \/ Said(m, {k})',
           m \in charged' => m \in charged,
           \A l \in Life : asks[<<m, l>>] = 1 /\ <<m, l>> \notin barred
                              => asks'[<<m, l>>] = 1 /\ <<m, l>> \notin barred',
           \A l \in Life : daily'[<<m, l>>] = "counted" => daily[<<m, l>>] = "counted"
    PROVE  MessageTrue(m)'
<1>1. ChatTypes /\ MessageTrue(m)
  BY DEF ChatInv
<1>2. (m \in charged => \E l \in Life : asks[<<m, l>>] = 1 /\ <<m, l>> \notin barred)'
  BY <1>1 DEF MessageTrue
<1>3. (Settled(m) => Said(m, {"answer", "withheld"}))'
  <2>1. {"answer", "withheld"} \in SUBSET Kinds
    BY DEF Kinds
  <2>2. Settled(m)' => Settled(m)
    BY DEF Settled
  <2> QED BY <1>1, <2>1, <2>2 DEF MessageTrue, SaidStays
<1>4. ASSUME NEW k \in shown'[m] \ {"welcome"}
      PROVE  Said(m, {k})'
  <2>1. CASE k \in shown[m]
    <3>1. {k} \in SUBSET Kinds /\ Said(m, {k})
      BY <1>1, <1>4, <2>1 DEF ChatTypes, MessageTrue
    <3> QED BY <3>1 DEF SaidStays
  <2> QED BY <1>4, <2>1
<1> QED BY <1>2, <1>3, <1>4 DEF MessageTrue

LEMMA AskedStays ==
    ASSUME SaidStays, asked => asked', AskedOk
    PROVE  AskedOk'
<1>1. {"withheld"} \in SUBSET Kinds
  BY DEF Kinds
<1> QED BY <1>1 DEF AskedOk, SaidStays

\* A step of one request about one row of one message: the other rows and
\* messages are left alone, and the row too unless it is nobody else's.
LEMMA HandlerStep ==
    ASSUME ChatInv, NEW h \in Handler, NEW m \in Utterance, NEW l \in Life, NEW r, r = <<m, l>>,
           TurnAt(h), ChatTypes', heard \subseteq heard', SaidStays, asked => asked',
           \A x \in Row \ {r} : /\ asks'[x] = asks[x] /\ daily'[x] = daily[x]
                                /\ (x \in barred' <=> x \in barred),
           \A y \in Utterance \ {m} : shown'[y] = shown[y] /\ (y \in charged' <=> y \in charged),
           \/ UNCHANGED <<asks, daily, barred>>
           \/ \A g \in Handler \ {h} : ~Owns(g, r),
           turn'[h].pc \in Owner => Own(h)' = r /\ \A g \in Handler \ {h} : ~Owns(g, r),
           RowIsTrue(r)', MessageTrue(m)', OwnerTrue(h)', StageTrue(h)',
           (stage # "pending" \/ named => AskedOk)'
    PROVE  ChatInv'
<1>1. ChatTypes
  BY DEF ChatInv
<1>2. AskedOk => AskedOk'
  BY AskedStays
<1>3. ASSUME NEW x \in Row, x # r
      PROVE  RowIsTrue(x)'
  BY <1>3 DEF ChatInv, RowIsTrue
<1>4. ASSUME NEW y \in Utterance, y # m
      PROVE  MessageTrue(y)'
  <2>1. shown' \in [Utterance -> SUBSET Kinds] /\ shown'[y] = shown[y] /\ (y \in charged' => y \in charged)
    BY <1>4 DEF ChatTypes
  <2>2. \A i \in Life : <<y, i>> \in Row /\ <<y, i>> # r
    BY <1>4 DEF Row
  <2> QED BY <2>1, <2>2, MessageStays
<1>5. ASSUME NEW g \in Handler, g # h
      PROVE  OwnerTrue(g)' /\ StageTrue(g)'
  <2>1. turn'[g] = turn[g] /\ OwnerTrue(g) /\ StageTrue(g) /\ Own(g)' = Own(g)
    BY <1>5 DEF TurnAt, ChatInv, Own
  <2>2. StageTrue(g)'
    BY <1>2, <2>1 DEF StageTrue, Normal
  <2>3. OwnerTrue(g)'
    <3>1. SUFFICES ASSUME turn[g].pc \in Owner PROVE OwnerTrue(g)'
      BY <2>1 DEF OwnerTrue
    <3>2. PICK x \in Row : x = Own(g)
      BY <1>1, <2>1, <3>1, OwnRow DEF Owner
    <3>3. asks'[x] = asks[x] /\ daily'[x] = daily[x] /\ (x \in barred' <=> x \in barred)
          /\ (x \in heard => x \in heard')
      BY <1>5, <3>1, <3>2 DEF Owns
    <3>4. Said(Mine(g), {turn[g].kind}) /\ turn[g].kind # "none" => Said(Mine(g), {turn[g].kind})'
      <4>1. PICK k \in Kinds \cup {"none"} : k = turn[g].kind
        BY <1>1 DEF ChatTypes, TurnRow
      <4>2. PICK y \in Utterance : y = Mine(g) /\ y = turn'[g].msg
        BY <1>1, <2>1, <3>1, OwnRow DEF Owner, Mine
      <4>3. k # "none" => {k} \in SUBSET Kinds
        OBVIOUS
      <4>4. k # "none" /\ Said(y, {k}) => Said(y, {k})'
        BY <4>3 DEF SaidStays
      <4> QED BY <2>1, <4>1, <4>2, <4>4 DEF Mine
    <3>5. Mine(g)' = Mine(g)
      BY <2>1 DEF Mine
    <3> QED BY <2>1, <3>1, <3>2, <3>3, <3>4, <3>5 DEF OwnerTrue, Normal
  <2> QED BY <2>2, <2>3
<1>6. ASSUME NEW x \in Row, NEW f \in Handler, NEW g \in Handler, Owns(f, x)', Owns(g, x)'
      PROVE  f = g
  <2>1. \A e \in Handler \ {h} : Owns(e, x)' = Owns(e, x)
    BY DEF TurnAt, Owns, Own
  <2>2. Owns(h, x)' => x = r /\ \A e \in Handler \ {h} : ~Owns(e, x)
    BY DEF Owns
  <2> QED BY <1>6, <2>1, <2>2 DEF ChatInv
<1> QED BY <1>3, <1>4, <1>5, <1>6 DEF ChatInv

\* A step that is only about the request, what the person is shown and the life
\* of the session.
LEMMA QuietStep ==
    ASSUME ChatInv, NEW h \in Handler, NEW m \in Utterance, TurnAt(h),
           UNCHANGED <<heard, barred, answers, asks, charged, daily, stage>>, life' \in Life,
           posts' \in 0 .. MaxPosts, asked' \in BOOLEAN, named' \in BOOLEAN, asked => asked',
           turn'[h].pc \in Owner => turn[h].pc \in Owner /\ turn[h].msg = m /\ Own(h)' = Own(h),
           \/ shown' = shown
           \/ \E k \in Kinds : Show(m, k) /\ (k = "welcome" \/ Said(m, {k})),
           OwnerTrue(h)', StageTrue(h)', named' => named \/ AskedOk
    PROVE  ChatInv'
<1>1. ChatTypes
  BY DEF ChatInv
<1>2. \A x \in Utterance : \A K : Said(x, K)' = Said(x, K)
  BY DEF Said, Answered
<1>3. SaidStays
  BY <1>2 DEF SaidStays
<1>4. /\ shown' \in [Utterance -> SUBSET Kinds] /\ \A x \in Utterance \ {m} : shown'[x] = shown[x]
      /\ \A k \in shown'[m] : k \in shown[m] \/ k = "welcome" \/ Said(m, {k})'
  <2>1. CASE shown' = shown
    BY <1>1, <2>1 DEF ChatTypes
  <2>2. CASE \E k \in Kinds : Show(m, k) /\ (k = "welcome" \/ Said(m, {k}))
    <3>1. PICK k \in Kinds : Show(m, k) /\ (k = "welcome" \/ Said(m, {k}))
      BY <2>2
    <3> QED BY <1>1, <1>2, <3>1 DEF Show, ChatTypes
  <2> QED BY <2>1, <2>2
<1>5. ChatTypes'
  BY <1>1, <1>4 DEF ChatTypes, TurnAt
<1>6. AskedOk => AskedOk'
  BY <1>3, AskedStays
<1>7. MessageTrue(m)'
  BY <1>3, <1>4, MessageStays
<1>8. (stage # "pending" \/ named => AskedOk)'
  BY <1>6 DEF ChatInv
<1>9. PICK l \in Life : turn'[h].pc \in Owner => Own(h)' = <<m, l>> /\ Own(h) = <<m, l>>
  <2>1. turn[h] \in TurnRow
    BY <1>1 DEF ChatTypes
  <2>2. turn[h].life \in Life
    BY <2>1 DEF TurnRow
  <2> QED BY <2>2 DEF Own
<1>10. turn'[h].pc \in Owner => Own(h)' = <<m, l>> /\ \A g \in Handler \ {h} : ~Owns(g, <<m, l>>)
  BY <1>9 DEF ChatInv, Owns, Row
<1>11. RowIsTrue(<<m, l>>)'
  BY DEF ChatInv, RowIsTrue, Row
<1> QED BY <1>3, <1>4, <1>5, <1>7, <1>8, <1>10, <1>11, HandlerStep

\* The request ends, and the person may be shown what the history holds.
LEMMA EndKeeps ==
    ASSUME ChatInv, NEW h \in Handler, Leave(h), turn[h].pc # "idle",
           UNCHANGED <<posts, life, heard, barred, answers, asks, charged, daily, stage, asked, named>>,
           \/ shown' = shown
           \/ \E k \in Kinds : Show(Mine(h), k) /\ Said(Mine(h), {k})
    PROVE  ChatInv'
<1>1. ChatTypes /\ StageTrue(h)
  BY DEF ChatInv
<1> PICK m \in Utterance : m = Mine(h)
  BY <1>1 DEF StageTrue, Mine
<1>2. TurnAt(h) /\ turn'[h].pc = "idle" /\ turn'[h].stage = "none" /\ ~turn'[h].waiting
  BY <1>1, LeaveMoves
<1>3. OwnerTrue(h)' /\ StageTrue(h)' /\ turn'[h].pc \notin Owner
  BY <1>2 DEF OwnerTrue, StageTrue, Owner, Early
<1>4. posts' \in 0 .. MaxPosts /\ life' \in Life /\ asked' \in BOOLEAN /\ named' \in BOOLEAN
  BY <1>1 DEF ChatTypes
<1> QED BY <1>2, <1>3, <1>4, QuietStep

LEMMA PostKeeps ==
    ASSUME ChatInv, NEW h \in Handler, NEW m \in Utterance, Post(h, m)
    PROVE  ChatInv'
<1>1. ChatTypes /\ turn[h].pc = "idle" /\ posts < MaxPosts /\ posts' = posts + 1
      /\ UNCHANGED <<life, heard, barred, answers, asks, charged, daily, stage, asked, named, shown>>
  BY DEF ChatInv, Post
<1>2. turn' = [turn EXCEPT ![h] = [AtRest EXCEPT !.pc = "enter", !.msg = m, !.waiting = TRUE]]
  BY DEF Post
<1>3. PICK r \in TurnRow : /\ r = [AtRest EXCEPT !.pc = "enter", !.msg = m, !.waiting = TRUE]
                           /\ r.pc = "enter" /\ r.msg = m /\ r.round = 0 /\ r.kind = "none" /\ r.stage = "none"
  <2>1. [AtRest EXCEPT !.pc = "enter", !.msg = m, !.waiting = TRUE] \in TurnRow
    BY LifeBegins DEF AtRest, TurnRow, Early
  <2>2. PICK r \in TurnRow : r = [AtRest EXCEPT !.pc = "enter", !.msg = m, !.waiting = TRUE]
    BY <2>1
  <2>3. r.pc = "enter" /\ r.msg = m /\ r.round = 0 /\ r.kind = "none" /\ r.stage = "none"
    BY <2>2 DEF AtRest, TurnRow
  <2> QED BY <2>2, <2>3
<1>4. TurnAt(h) /\ turn'[h] = r
  BY <1>1, <1>2, <1>3 DEF TurnAt, ChatTypes
<1>5. posts' \in 0 .. MaxPosts /\ life' \in Life /\ asked' \in BOOLEAN /\ named' \in BOOLEAN
  BY <1>1, ChatBounds DEF ChatTypes
<1>6. OwnerTrue(h)' /\ StageTrue(h)' /\ turn'[h].pc \notin Owner
  BY <1>3, <1>4 DEF OwnerTrue, StageTrue, Owner, Early
<1> QED BY <1>1, <1>4, <1>5, <1>6, QuietStep

LEMMA BridgeTimeoutKeeps ==
    ASSUME ChatInv, NEW h \in Handler, BridgeTimeout(h)
    PROVE  ChatInv'
<1>1. ChatTypes /\ UNCHANGED <<posts, life, heard, barred, answers, asks, charged, daily, stage, asked, named, shown>>
  BY DEF ChatInv, BridgeTimeout
<1> PICK r \in TurnRow : r = turn[h]
  BY <1>1 DEF ChatTypes
<1>2. PICK q \in TurnRow : /\ turn' = [turn EXCEPT ![h] = q] /\ q.pc = r.pc /\ q.msg = r.msg /\ q.life = r.life
                           /\ q.stage = r.stage /\ q.kind = r.kind /\ q.round = r.round /\ ~q.waiting
  <2>1. turn' = [turn EXCEPT ![h] = [r EXCEPT !.waiting = FALSE]]
    BY <1>1 DEF BridgeTimeout, ChatTypes
  <2>2. [r EXCEPT !.waiting = FALSE] \in TurnRow
    BY DEF TurnRow
  <2> QED BY <2>1, <2>2 DEF TurnRow
<1>3. TurnAt(h) /\ turn'[h] = q
  BY <1>1, <1>2 DEF TurnAt, ChatTypes
<1>4. \A x \in Utterance : \A K : Said(x, K)' = Said(x, K)
  BY <1>1 DEF Said, Answered
<1>5. OwnerTrue(h)'
  <2>1. Own(h)' = Own(h) /\ Mine(h)' = Mine(h) /\ (Normal(h)' <=> Normal(h)) /\ turn'[h].kind = turn[h].kind
        /\ turn'[h].pc = turn[h].pc /\ turn'[h].round = turn[h].round
    BY <1>2, <1>3 DEF Own, Mine, Normal
  <2>2. Said(Mine(h), {turn[h].kind})' <=> Said(Mine(h), {turn[h].kind})
    BY <1>1, <2>1 DEF Said, Answered
  <2> QED BY <1>1, <2>1, <2>2 DEF ChatInv, OwnerTrue
<1>6. StageTrue(h)'
  BY <1>1, <1>2, <1>3, <1>4 DEF ChatInv, StageTrue, Normal, AskedOk
<1>7. posts' \in 0 .. MaxPosts /\ life' \in Life /\ asked' \in BOOLEAN /\ named' \in BOOLEAN
  BY <1>1 DEF ChatTypes
<1>8. PICK m \in Utterance : m = r.msg
  BY DEF ChatInv, StageTrue, BridgeTimeout
<1>9. turn'[h].pc \in Owner => turn[h].pc \in Owner /\ turn[h].msg = m /\ Own(h)' = Own(h)
  BY <1>2, <1>3, <1>8 DEF Own
<1> QED BY <1>1, <1>3, <1>5, <1>6, <1>7, <1>9, QuietStep

(* Requests that do not own a message. *)

\* A step of a request before it stores its message.
LEMMA EarlyGoesOn ==
    ASSUME ChatInv, NEW h \in Handler, turn[h].pc \in Early, TurnAt(h),
           turn'[h].pc \in Early, turn'[h].msg = turn[h].msg, turn'[h].kind = turn[h].kind,
           turn'[h].round = turn[h].round,
           UNCHANGED <<posts, life, heard, barred, answers, asks, charged, daily, stage, named>>,
           asked' \in BOOLEAN, asked => asked',
           shown' = shown \/ Show(turn[h].msg, "welcome"),
           turn'[h].pc # "enter" => turn'[h].stage \in Stages,
           turn'[h].stage \in {"step1", "step2", "complete"} => AskedOk,
           turn'[h].pc = "start" => asked'
    PROVE  ChatInv'
<1>1. ChatTypes /\ StageTrue(h)
  BY DEF ChatInv
<1> PICK m \in Utterance : m = turn[h].msg
  BY <1>1 DEF StageTrue, Early
<1>2. turn'[h].pc \notin Owner /\ turn'[h].pc # "idle"
      /\ turn'[h].pc \notin {"screen", "mark", "ask", "charge", "settle", "advance"}
  BY DEF Owner, Early
<1>3. AskedOk => AskedOk'
  BY DEF AskedOk, Said, Answered
<1>4. OwnerTrue(h)'
  BY <1>2 DEF OwnerTrue
<1>5. StageTrue(h)'
  <2>1. turn'[h].round = 0 /\ turn'[h].kind = "none" /\ turn'[h].msg \in Utterance
    BY <1>1 DEF StageTrue
  <2> QED BY <1>2, <1>3, <2>1 DEF StageTrue
<1>6. shown' = shown \/ \E k \in Kinds : Show(m, k) /\ (k = "welcome" \/ Said(m, {k}))
  BY DEF Kinds
<1>7. posts' \in 0 .. MaxPosts /\ life' \in Life /\ named' \in BOOLEAN
  BY <1>1 DEF ChatTypes
<1> QED BY <1>2, <1>4, <1>5, <1>6, <1>7, QuietStep

LEMMA EnterKeeps ==
    ASSUME ChatInv, NEW h \in Handler, Enter(h)
    PROVE  ChatInv'
<1>1. /\ ChatTypes /\ turn[h].pc = "enter" /\ "enter" \in Early
      /\ UNCHANGED <<posts, life, heard, barred, answers, asks, charged, daily, stage, asked, named, shown>>
  BY DEF ChatInv, Enter, Early
<1> PICK r \in TurnRow : r = turn[h]
  BY <1>1 DEF ChatTypes
<1>2. PICK pc \in {"welcome", "gate"} : pc = IF stage = "pending" THEN "welcome" ELSE "gate"
  OBVIOUS
<1>3. PICK s \in Stages : s = stage
  BY <1>1 DEF ChatTypes
<1>4. turn' = [turn EXCEPT ![h] = [r EXCEPT !.stage = s, !.pc = pc]]
  BY <1>1, <1>2, <1>3 DEF Enter, ChatTypes
<1>5. [r EXCEPT !.stage = s, !.pc = pc] \in TurnRow
  BY DEF TurnRow, Early
<1>6. PICK q \in TurnRow : q = [r EXCEPT !.stage = s, !.pc = pc]
  BY <1>5
<1>7. q.pc = pc /\ q.msg = r.msg /\ q.kind = r.kind /\ q.round = r.round /\ q.stage = s
  BY <1>6 DEF TurnRow
<1>8. TurnAt(h) /\ turn'[h] = q
  BY <1>1, <1>4, <1>6 DEF TurnAt, ChatTypes
<1>9. s \in {"step1", "step2", "complete"} => AskedOk
  BY <1>3 DEF ChatInv
<1>10. turn'[h].pc \in Early /\ turn'[h].pc # "start"
  BY <1>7, <1>8 DEF Early
<1>11. asked' \in BOOLEAN /\ asked' = asked
  BY <1>1 DEF ChatTypes
<1> QED BY <1>1, <1>3, <1>7, <1>8, <1>9, <1>10, <1>11, EarlyGoesOn

\* A request that only moves its program counter, before it stores.
LEMMA EarlyMoves ==
    ASSUME ChatInv, NEW h \in Handler, turn[h].pc \in Early \ {"enter"}, NEW pc \in Early \ {"enter", "start"},
           Goto(h, pc),
           UNCHANGED <<posts, life, heard, barred, answers, asks, charged, daily, stage, named>>,
           asked' \in BOOLEAN, asked => asked', shown' = shown \/ Show(turn[h].msg, "welcome")
    PROVE  ChatInv'
<1>1. ChatTypes /\ StageTrue(h)
  BY DEF ChatInv
<1>2. TurnAt(h) /\ turn'[h].pc = pc /\ turn'[h].msg = turn[h].msg /\ turn'[h].stage = turn[h].stage
      /\ turn'[h].kind = turn[h].kind /\ turn'[h].round = turn[h].round
  BY <1>1, GotoMoves
<1>3. turn[h].stage \in Stages /\ (turn[h].stage \in {"step1", "step2", "complete"} => AskedOk)
  BY <1>1 DEF StageTrue, Early
<1> QED BY <1>2, <1>3, EarlyGoesOn

LEMMA SendWelcomeKeeps ==
    ASSUME ChatInv, NEW h \in Handler, SendWelcome(h)
    PROVE  ChatInv'
<1>1. /\ ChatTypes /\ StageTrue(h) /\ turn[h].pc = "welcome" /\ turn[h].pc \in Early \ {"enter"}
      /\ UNCHANGED <<posts, life, heard, barred, answers, asks, charged, daily, stage, named>>
  BY DEF ChatInv, SendWelcome, Early
<1>2. CASE Goto(h, "gate") /\ UNCHANGED <<asked, shown>>
  <2>1. "gate" \in Early \ {"enter", "start"} /\ asked' \in BOOLEAN
    BY <1>1, <1>2 DEF Early, ChatTypes
  <2> QED BY <1>1, <1>2, <2>1, EarlyMoves
<1>3. CASE asked' = TRUE /\ (IF asked THEN UNCHANGED shown ELSE Show(Mine(h), "welcome")) /\ Goto(h, "start")
  <2>1. TurnAt(h) /\ turn'[h].pc = "start" /\ turn'[h].msg = turn[h].msg /\ turn'[h].stage = turn[h].stage
        /\ turn'[h].kind = turn[h].kind /\ turn'[h].round = turn[h].round
    BY <1>1, <1>3, GotoMoves DEF Early
  <2>2. turn[h].stage \in Stages /\ (turn[h].stage \in {"step1", "step2", "complete"} => AskedOk)
    BY <1>1 DEF StageTrue
  <2>3. turn'[h].pc \in Early /\ turn[h].pc \in Early
    BY <1>1, <2>1 DEF Early
  <2>4. shown' = shown \/ Show(turn[h].msg, "welcome")
    BY <1>3 DEF Mine
  <2> QED BY <1>1, <1>3, <2>1, <2>2, <2>3, <2>4, EarlyGoesOn
<1> QED BY <1>2, <1>3 DEF SendWelcome

LEMMA StartOnboardingKeeps ==
    ASSUME ChatInv, NEW h \in Handler, StartOnboarding(h)
    PROVE  ChatInv'
<1>1. /\ ChatTypes /\ StageTrue(h) /\ turn[h].pc = "start" /\ turn[h].pc \in Early \ {"enter"}
      /\ UNCHANGED <<posts, life, heard, barred, answers, asks, charged, daily, asked, named, shown>>
  BY DEF ChatInv, StartOnboarding, Early
<1>2. CASE Goto(h, "gate") /\ UNCHANGED stage
  <2>1. "gate" \in Early \ {"enter", "start"} /\ asked' \in BOOLEAN
    BY <1>1, <1>2 DEF Early, ChatTypes
  <2> QED BY <1>1, <1>2, <2>1, EarlyMoves
<1>3. CASE stage' = "step1" /\ Goto(h, "log")
  <2>0. Mine(h) \in Utterance /\ Own(h) \in Row /\ turn[h].life \in Life
    BY <1>1, OwnRow
  <2> PICK m \in Utterance, l \in Life : Own(h) = <<m, l>> /\ m = turn[h].msg
    BY <2>0 DEF Mine, Own
  <2> DEFINE r == <<m, l>>
  <2>1. TurnAt(h) /\ turn'[h].pc = "log" /\ turn'[h].msg = turn[h].msg /\ turn'[h].stage = turn[h].stage
        /\ turn'[h].kind = turn[h].kind /\ turn'[h].round = turn[h].round
    BY <1>1, <1>3, GotoMoves DEF Early
  <2>2. asked /\ AskedOk
    BY <1>1 DEF StageTrue, AskedOk
  <2>3. AskedOk' /\ SaidStays
    BY <1>1, <2>2 DEF AskedOk, SaidStays, Said, Answered
  <2>4. ChatTypes'
    BY <1>1, <1>3, <2>1 DEF ChatTypes, TurnAt, Stages
  <2>5. OwnerTrue(h)' /\ turn'[h].pc \notin Owner
    BY <2>1 DEF OwnerTrue, Owner
  <2>6. StageTrue(h)'
    <3>1. turn[h].round = 0 /\ turn[h].kind = "none" /\ turn[h].stage \in Stages
      BY <1>1 DEF StageTrue, Early
    <3> QED BY <2>1, <2>3, <3>1 DEF StageTrue
  <2>7. MessageTrue(m)' /\ RowIsTrue(r)'
    <3>1. shown' \in [Utterance -> SUBSET Kinds]
      BY <1>1 DEF ChatTypes
    <3>2. MessageTrue(m)'
      BY <1>1, <2>3, <3>1, MessageStays
    <3> QED BY <1>1, <3>2 DEF ChatInv, RowIsTrue, Row
  <2> QED BY <1>1, <2>1, <2>3, <2>4, <2>5, <2>6, <2>7, HandlerStep
<1> QED BY <1>2, <1>3 DEF StartOnboarding

\* The row of the welcome may come to a message that another request owns.
LEMMA LogWelcomeKeeps ==
    ASSUME ChatInv, NEW h \in Handler, LogWelcome(h)
    PROVE  ChatInv'
<1>1. /\ ChatTypes /\ StageTrue(h) /\ turn[h].pc = "log" /\ Leave(h)
      /\ UNCHANGED <<posts, life, barred, asks, charged, daily, stage, asked, named, shown>>
  BY DEF ChatInv, LogWelcome
<1> PICK m \in Utterance : m = turn[h].msg
  BY <1>1 DEF StageTrue
<1> PICK l \in Life : l = life
  BY <1>1 DEF ChatTypes
<1> DEFINE r == <<m, l>>
<1>2. heard' = heard \cup {r} /\ answers' = [answers EXCEPT ![r] = Append(@, "welcome")] /\ r \in Row
  BY DEF LogWelcome, Now, Row
<1>3. TurnAt(h) /\ turn'[h].pc = "idle" /\ turn'[h].stage = "none" /\ ~turn'[h].waiting
  BY <1>1, LeaveMoves
<1>4. AnswersGrow(r)
  BY <1>2 DEF AnswersGrow, Kinds
<1>5. answers' \in [Row -> Seq(Kinds)] /\ SaidStays
  BY <1>1, <1>2, <1>4, AnswerAdded
<1>6. ChatTypes'
  BY <1>1, <1>2, <1>3, <1>5 DEF ChatTypes, TurnAt
<1>7. AskedOk => AskedOk'
  BY <1>1, <1>5, AskedStays
<1>8. OwnerTrue(h)' /\ StageTrue(h)' /\ turn'[h].pc \notin Owner
  BY <1>3 DEF OwnerTrue, StageTrue, Owner, Early
<1>9. MessageTrue(m)'
  <2>1. shown' \in [Utterance -> SUBSET Kinds]
    BY <1>1 DEF ChatTypes
  <2> QED BY <1>1, <1>5, <2>1, MessageStays
<1>10. RowIsTrue(r)'
  BY <1>1, <1>2 DEF ChatInv, RowIsTrue
<1>11. (stage # "pending" \/ named => AskedOk)'
  BY <1>1, <1>7 DEF ChatInv
<1>12. heard \subseteq heard' /\ (asked => asked') /\ UNCHANGED <<asks, charged, daily, barred, shown>>
  BY <1>1, <1>2
<1> HIDE DEF r
<1> QED BY <1>3, <1>5, <1>6, <1>8, <1>9, <1>10, <1>11, <1>12, HandlerStep DEF r

LEMMA PassKeeps ==
    ASSUME ChatInv, NEW h \in Handler, Pass(h)
    PROVE  ChatInv'
<1>1. "store" \in Early \ {"enter", "start"} /\ turn[h].pc \in Early \ {"enter"} /\ Goto(h, "store")
      /\ UNCHANGED <<posts, life, heard, barred, answers, asks, charged, daily, stage, asked, named, shown>>
  BY DEF Pass, Early
<1>2. asked' \in BOOLEAN
  BY <1>1 DEF ChatInv, ChatTypes
<1> QED BY <1>1, <1>2, EarlyMoves

\* What is answered again stands in the history.
LEMMA LastAnswer ==
    ASSUME ChatTypes, NEW m \in Utterance, NEW l \in Life, answers[<<m, l>>] # <<>>
    PROVE  Latest(<<m, l>>) \in Kinds /\ Said(m, {Latest(<<m, l>>)})
<1>1. <<m, l>> \in Row
  BY DEF Row
<1>2. PICK s \in Seq(Kinds) : s = answers[<<m, l>>]
  BY <1>1 DEF ChatTypes
<1>3. Len(s) \in 1 .. Len(s) /\ s[Len(s)] \in Kinds
  BY <1>2
<1> QED BY <1>2, <1>3 DEF Said, Answered, Latest

LEMMA RepeatedKeeps ==
    ASSUME ChatInv, NEW h \in Handler, Repeated(h) \/ AlreadyStored(h)
    PROVE  ChatInv'
<1>1. /\ turn[h].pc \in {"gate", "store"} /\ Leave(h) /\ Mine(h) \in Utterance /\ life \in Life
      /\ UNCHANGED <<posts, life, heard, barred, answers, asks, charged, daily, stage, asked, named>>
      /\ \/ shown' = shown
         \/ answers[Now(h)] # <<>> /\ Show(Mine(h), Latest(Now(h)))
  BY DEF ChatInv, ChatTypes, Repeated, AlreadyStored, Respond, StageTrue, Mine
<1>2. Now(h) = <<Mine(h), life>>
  BY DEF Now, Mine
<1>3. answers[Now(h)] # <<>> => \E k \in Kinds : k = Latest(Now(h)) /\ Said(Mine(h), {k})
  BY <1>1, <1>2, LastAnswer DEF ChatInv
<1> QED BY <1>1, <1>3, EndKeeps

(* The owner of a message. *)

LEMMA SaidKept ==
    ASSUME UNCHANGED answers
    PROVE  SaidStays /\ (\A x \in Utterance : \A K : Said(x, K)' = Said(x, K))
<1>1. \A x \in Utterance : \A K : Said(x, K)' = Said(x, K)
  BY DEF Said, Answered
<1> QED BY <1>1 DEF SaidStays

LEMMA StoreMessageKeeps ==
    ASSUME ChatInv, NEW h \in Handler, StoreMessage(h)
    PROVE  ChatInv'
<1>1. /\ ChatTypes /\ StageTrue(h) /\ turn[h].pc = "store"
      /\ UNCHANGED <<posts, life, barred, answers, asks, charged, stage, asked, named, shown>>
  BY DEF ChatInv, StoreMessage
<1> PICK m \in Utterance : m = turn[h].msg
  BY <1>1 DEF StageTrue
<1> PICK l \in Life : l = life
  BY <1>1 DEF ChatTypes
<1> PICK r \in Row : r = <<m, l>> /\ r = Now(h)
  BY DEF Row, Now
<1>2. r \notin heard /\ heard' = heard \cup {r}
  BY DEF StoreMessage, NewMessage
<1>3. asks[r] = 0 /\ daily[r] = "none" /\ r \notin barred
  BY <1>1, <1>2 DEF ChatInv, RowIsTrue, ChatTypes
<1>4. \A g \in Handler : ~Owns(g, r)
  BY <1>2 DEF ChatInv, OwnerTrue, Owns
<1>5. PICK d \in {"none", "held"}, pc \in {"idle", "screen"} :
          /\ daily' = [daily EXCEPT ![r] = d]
          /\ pc = "screen" => d = "held" /\ turn' = [turn EXCEPT ![h].pc = "screen", ![h].life = l]
          /\ pc = "idle" => Leave(h)
  <2>1. CASE daily' = [daily EXCEPT ![r] = "held"] /\ turn' = [turn EXCEPT ![h].pc = "screen", ![h].life = l]
    BY <2>1
  <2>2. CASE Leave(h) /\ UNCHANGED daily
    <3>1. daily' = [daily EXCEPT ![r] = "none"]
      BY <1>1, <1>3, <2>2 DEF ChatTypes
    <3> QED BY <2>2, <3>1
  <2> QED BY <2>1, <2>2 DEF StoreMessage
<1>6. /\ TurnAt(h) /\ turn'[h].pc = pc
      /\ pc = "screen" => /\ turn'[h].msg = m /\ turn'[h].life = l /\ turn'[h].stage = turn[h].stage
                          /\ turn'[h].kind = turn[h].kind /\ turn'[h].round = turn[h].round
      /\ pc = "idle" => turn'[h].stage = "none" /\ ~turn'[h].waiting
  <2>1. CASE pc = "screen"
    <3> PICK t \in TurnRow : t = turn[h]
      BY <1>1 DEF ChatTypes
    <3>1. turn' = [turn EXCEPT ![h] = [t EXCEPT !.pc = "screen", !.life = l]]
      BY <1>1, <1>5, <2>1 DEF ChatTypes
    <3>2. [t EXCEPT !.pc = "screen", !.life = l] \in TurnRow
      BY DEF TurnRow, Owner
    <3>3. PICK q \in TurnRow : q = [t EXCEPT !.pc = "screen", !.life = l]
      BY <3>2
    <3>4. q.pc = "screen" /\ q.msg = t.msg /\ q.life = l /\ q.stage = t.stage /\ q.kind = t.kind /\ q.round = t.round
      BY <3>3 DEF TurnRow
    <3>5. TurnAt(h) /\ turn'[h] = q
      BY <1>1, <3>1, <3>3 DEF TurnAt, ChatTypes
    <3> QED BY <2>1, <3>4, <3>5
  <2>2. CASE pc = "idle"
    BY <1>1, <1>5, <2>2, LeaveMoves
  <2> QED BY <2>1, <2>2
<1>7. ChatTypes'
  BY <1>1, <1>2, <1>5, <1>6 DEF ChatTypes, TurnAt
<1>8. daily'[r] = d /\ \A x \in Row \ {r} : daily'[x] = daily[x]
  BY <1>1, <1>5 DEF ChatTypes
<1>9. SaidStays /\ (AskedOk => AskedOk')
  BY <1>1, SaidKept, AskedStays
<1>10. MessageTrue(m)'
  <2>1. shown' \in [Utterance -> SUBSET Kinds]
    BY <1>7 DEF ChatTypes
  <2>2. ASSUME NEW i \in Life, daily'[<<m, i>>] = "counted"
        PROVE  daily[<<m, i>>] = "counted"
    <3>1. <<m, i>> \in Row /\ d # "counted"
      BY DEF Row
    <3> QED BY <1>8, <2>2, <3>1
  <2> QED BY <1>1, <1>9, <2>1, <2>2, MessageStays
<1>11. RowIsTrue(r)'
  BY <1>1, <1>2, <1>3, <1>8 DEF RowIsTrue
<1>12. turn[h].kind = "none" /\ turn[h].round = 0 /\ turn[h].stage \in Stages
  BY <1>1 DEF StageTrue, Early
<1>13. turn'[h].pc \in Owner => Own(h)' = r /\ \A g \in Handler \ {h} : ~Owns(g, r)
  BY <1>4, <1>6 DEF Owner, Own
<1>14. OwnerTrue(h)'
  BY <1>1, <1>2, <1>3, <1>5, <1>6, <1>8, <1>12, <1>13 DEF OwnerTrue, Owner, Normal
<1>15. StageTrue(h)'
  <2>1. turn[h].stage \in {"step1", "step2", "complete"} => AskedOk
    BY <1>1 DEF StageTrue
  <2> QED BY <1>6, <1>9, <1>12, <2>1 DEF StageTrue, Early
<1>16. (stage # "pending" \/ named => AskedOk)'
  BY <1>1, <1>9 DEF ChatInv
<1>17. heard \subseteq heard' /\ (asked => asked')
  BY <1>1, <1>2
<1>18. /\ \A x \in Row \ {r} : asks'[x] = asks[x] /\ daily'[x] = daily[x] /\ (x \in barred' <=> x \in barred)
       /\ \A y \in Utterance \ {m} : shown'[y] = shown[y] /\ (y \in charged' <=> y \in charged)
  BY <1>1, <1>8
<1> QED BY <1>4, <1>6, <1>7, <1>9, <1>10, <1>11, <1>13, <1>14, <1>15, <1>16, <1>17, <1>18, HandlerStep

\* What is known of a request that owns a row.
LEMMA Owned ==
    ASSUME ChatInv, NEW h \in Handler, turn[h].pc \in Owner
    PROVE  /\ ChatTypes /\ StageTrue(h) /\ OwnerTrue(h) /\ turn[h].pc # "idle"
           /\ \E m \in Utterance, l \in Life :
                  /\ turn[h].msg = m /\ turn[h].life = l /\ Own(h) = <<m, l>> /\ <<m, l>> \in Row
                  /\ RowIsTrue(<<m, l>>) /\ MessageTrue(m) /\ \A g \in Handler \ {h} : ~Owns(g, <<m, l>>)
<1>1. ChatTypes /\ StageTrue(h) /\ OwnerTrue(h) /\ turn[h].pc # "idle"
  BY DEF ChatInv, Owner
<1>2. Mine(h) \in Utterance /\ Own(h) \in Row /\ turn[h].life \in Life
  BY <1>1, OwnRow
<1> PICK m \in Utterance, l \in Life : turn[h].msg = m /\ turn[h].life = l /\ Own(h) = <<m, l>>
  BY <1>2 DEF Mine, Own
<1>3. <<m, l>> \in Row /\ \A g \in Handler \ {h} : ~Owns(g, <<m, l>>)
  BY <1>2 DEF ChatInv, Owns
<1>4. RowIsTrue(<<m, l>>) /\ MessageTrue(m)
  BY <1>3 DEF ChatInv
<1> QED BY <1>1, <1>3, <1>4

\* A step of the owner that changes what is kept of its row or its message.
LEMMA OwnerStep ==
    ASSUME ChatInv, NEW h \in Handler, NEW m \in Utterance, NEW l \in Life, NEW r, r = <<m, l>>,
           turn[h].pc \in Owner, Own(h) = r, TurnAt(h), Own(h)' = r,
           UNCHANGED <<heard, shown>>, ChatTypes', SaidStays, asked => asked',
           \A x \in Row \ {r} : asks'[x] = asks[x] /\ daily'[x] = daily[x] /\ (x \in barred' <=> x \in barred),
           \A y \in Utterance \ {m} : y \in charged' <=> y \in charged,
           RowIsTrue(r)', MessageTrue(m)', OwnerTrue(h)', StageTrue(h)', (stage # "pending" \/ named => AskedOk)'
    PROVE  ChatInv'
<1>1. r \in Row /\ \A g \in Handler \ {h} : ~Owns(g, r)
  BY DEF ChatInv, Owns, Row
<1>2. \A y \in Utterance \ {m} : shown'[y] = shown[y] /\ (y \in charged' <=> y \in charged)
  OBVIOUS
<1>3. heard \subseteq heard'
  OBVIOUS
<1>4. turn'[h].pc \in Owner => Own(h)' = r /\ \A g \in Handler \ {h} : ~Owns(g, r)
  BY <1>1
<1> QED BY <1>1, <1>2, <1>3, <1>4, HandlerStep

\* One that keeps them, and moves on.
LEMMA OwnerMoves ==
    ASSUME ChatInv, NEW h \in Handler, turn[h].pc \in Owner, TurnAt(h), Own(h)' = Own(h),
           UNCHANGED <<posts, heard, barred, answers, asks, charged, daily, stage, asked, shown>>,
           life' \in Life, named' \in BOOLEAN, named' => named \/ AskedOk, OwnerTrue(h)', StageTrue(h)'
    PROVE  ChatInv'
<1> PICK m \in Utterance : m = turn[h].msg
  BY Owned
<1>1. posts' \in 0 .. MaxPosts /\ asked' \in BOOLEAN
  BY DEF ChatInv, ChatTypes
<1> QED BY <1>1, QuietStep

\* How such a step leaves what is known of the owner and of the onboarding: it
\* has no reply to show yet.
LEMMA OwnerGoesOn ==
    ASSUME ChatInv, NEW h \in Handler, turn[h].pc \in {"screen", "ask", "guard"},
           TurnAt(h), Own(h)' = Own(h), turn'[h].msg = turn[h].msg, turn'[h].stage = turn[h].stage,
           UNCHANGED <<posts, heard, barred, answers, asks, charged, daily, stage, asked, shown>>,
           life' \in Life, named' \in BOOLEAN, named' => named \/ AskedOk,
           turn'[h].pc \in {"ask", "mark"} => turn[h].pc = "screen",
           turn'[h].pc = "model" => turn[h].pc = "ask" /\ turn'[h].kind = turn[h].kind,
           turn'[h].pc = "mark" => turn'[h].kind = "safe",
           turn'[h].pc = "keep" => turn'[h].kind # "none",
           turn'[h].pc \in {"ask", "mark", "model", "keep"},
           turn'[h].pc # "keep" => turn'[h].round = turn[h].round,
           Normal(h)' => turn[h].pc = "guard" \/ Normal(h)
    PROVE  ChatInv'
<1>1. ChatTypes /\ StageTrue(h) /\ OwnerTrue(h) /\ turn[h].pc \in Owner /\ turn'[h].pc \in Owner
  BY DEF ChatInv, Owner
<1>2. AskedOk' = AskedOk
  BY SaidKept DEF AskedOk
<1>3. Own(h) \in heard /\ daily[Own(h)] = "held"
      /\ (turn[h].pc \in {"screen", "ask"} => asks[Own(h)] = 0 /\ Own(h) \notin barred)
      /\ (turn[h].pc = "guard" \/ Normal(h) => asks[Own(h)] = 1 /\ Own(h) \notin barred)
      /\ (turn[h].pc \in {"screen", "ask"} => turn[h].round = 0)
  BY <1>1 DEF OwnerTrue, StageTrue
<1>4. ~Normal(h)' \/ turn[h].pc = "guard" \/ Normal(h)
  OBVIOUS
<1>5. turn'[h].pc # "guard" /\ turn'[h].pc \notin {"charge", "settle", "advance", "deliver"}
  OBVIOUS
<1>6. OwnerTrue(h)'
  BY <1>1, <1>3, <1>4, <1>5 DEF OwnerTrue
<1>7. StageTrue(h)'
  BY <1>1, <1>2, <1>3 DEF StageTrue, Early
<1> QED BY <1>1, <1>6, <1>7, OwnerMoves

LEMMA ScreenKeeps ==
    ASSUME ChatInv, NEW h \in Handler, Screen(h)
    PROVE  ChatInv'
<1>1. /\ ChatTypes /\ turn[h].pc = "screen"
      /\ UNCHANGED <<posts, life, heard, barred, answers, asks, charged, daily, stage, asked, named, shown>>
  BY DEF ChatInv, Screen
<1>2. "ask" \in Owner /\ "mark" \in Owner /\ "safe" \in Kinds
  BY DEF Owner, Kinds
<1>3. /\ TurnAt(h) /\ turn'[h].msg = turn[h].msg /\ turn'[h].stage = turn[h].stage
      /\ turn'[h].round = turn[h].round /\ Own(h)' = Own(h)
      /\ \/ turn'[h].pc = "ask" /\ turn'[h].kind = turn[h].kind
         \/ turn'[h].pc = "mark" /\ turn'[h].kind = "safe"
  BY <1>1, <1>2, GotoMoves, ReplyMoves DEF Screen
<1>4. named' \in BOOLEAN /\ life' \in Life
  BY <1>1 DEF ChatTypes
<1>5. Normal(h)' => Normal(h)
  BY <1>3 DEF Normal
<1>6. turn'[h].pc # "model" /\ turn'[h].pc # "keep"
  BY <1>3
<1> QED BY <1>1, <1>3, <1>4, <1>5, <1>6, OwnerGoesOn

LEMMA MarkBlockedKeeps ==
    ASSUME ChatInv, NEW h \in Handler, MarkBlocked(h)
    PROVE  ChatInv'
<1>1. /\ ChatTypes /\ StageTrue(h) /\ OwnerTrue(h) /\ turn[h].pc = "mark" /\ turn[h].pc \in Owner /\ Goto(h, "keep")
      /\ UNCHANGED <<posts, life, heard, answers, asks, charged, daily, stage, asked, named, shown>>
  BY DEF ChatInv, MarkBlocked, Owner
<1> PICK m \in Utterance, l \in Life : turn[h].msg = m /\ Own(h) = <<m, l>> /\ <<m, l>> \in Row
  BY <1>1, Owned
<1> PICK r \in Row : r = <<m, l>>
  OBVIOUS
<1>2. r \in heard /\ daily[r] = "held" /\ asks[r] = 0 /\ turn[h].kind = "safe"
  BY <1>1 DEF OwnerTrue
<1>3. barred \subseteq barred' /\ barred' \subseteq barred \cup {r}
  BY DEF MarkBlocked
<1>4. /\ TurnAt(h) /\ turn'[h].pc = "keep" /\ turn'[h].msg = m /\ turn'[h].stage = turn[h].stage
      /\ turn'[h].kind = "safe" /\ turn'[h].round = turn[h].round /\ Own(h)' = r
  BY <1>1, <1>2, GotoMoves DEF Owner
<1>5. ChatTypes'
  BY <1>1, <1>2, <1>3, <1>4 DEF ChatTypes, TurnAt
<1>6. SaidStays /\ (AskedOk => AskedOk')
  BY <1>1, SaidKept, AskedStays
<1>7. MessageTrue(m)'
  <2>1. shown' \in [Utterance -> SUBSET Kinds]
    BY <1>5 DEF ChatTypes
  <2>2. ASSUME NEW i \in Life, asks[<<m, i>>] = 1, <<m, i>> \notin barred
        PROVE  asks'[<<m, i>>] = 1 /\ <<m, i>> \notin barred'
    BY <1>1, <1>2, <1>3, <2>2
  <2> QED BY <1>1, <1>6, <2>1, <2>2, MessageStays
<1>8. RowIsTrue(r)'
  BY <1>1, <1>2 DEF RowIsTrue
<1>9. OwnerTrue(h)'
  BY <1>1, <1>2, <1>4 DEF OwnerTrue, Normal
<1>10. StageTrue(h)'
  BY <1>1, <1>4, <1>6 DEF StageTrue, Early
<1>11. (stage # "pending" \/ named => AskedOk)'
  BY <1>1, <1>6 DEF ChatInv
<1>12. /\ \A x \in Row \ {r} : asks'[x] = asks[x] /\ daily'[x] = daily[x] /\ (x \in barred' <=> x \in barred)
       /\ \A y \in Utterance \ {m} : y \in charged' <=> y \in charged
  BY <1>1, <1>3
<1> QED BY <1>1, <1>4, <1>5, <1>6, <1>7, <1>8, <1>9, <1>10, <1>11, <1>12, OwnerStep

LEMMA FixedReplyKeeps ==
    ASSUME ChatInv, NEW h \in Handler, ResetSession(h) \/ FixedReply(h)
    PROVE  ChatInv'
<1>1. /\ ChatTypes /\ turn[h].pc = "ask" /\ Reply(h, "fixed", "keep")
      /\ UNCHANGED <<posts, heard, barred, answers, asks, charged, daily, stage, asked, named, shown>>
  BY DEF ChatInv, ResetSession, FixedReply
<1>2. life' \in Life
  BY ChatBounds DEF ChatInv, ChatTypes, ResetSession, FixedReply, Life
<1>3. "keep" \in Owner /\ "fixed" \in Kinds
  BY DEF Owner, Kinds
<1>4. /\ TurnAt(h) /\ turn'[h].msg = turn[h].msg /\ turn'[h].stage = turn[h].stage
      /\ turn'[h].pc = "keep" /\ turn'[h].kind = "fixed" /\ Own(h)' = Own(h)
  BY <1>1, <1>3, ReplyMoves
<1>5. named' \in BOOLEAN
  BY <1>1 DEF ChatTypes
<1>6. ~Normal(h)'
  BY <1>4 DEF Normal
<1> QED BY <1>1, <1>2, <1>4, <1>5, <1>6, OwnerGoesOn

LEMMA ReadContextKeeps ==
    ASSUME ChatInv, NEW h \in Handler, ReadContext(h)
    PROVE  ChatInv'
<1>1. /\ ChatTypes /\ StageTrue(h) /\ turn[h].pc = "ask" /\ Goto(h, "model")
      /\ UNCHANGED <<posts, life, heard, barred, answers, asks, charged, daily, stage, asked, shown>>
  BY DEF ChatInv, ReadContext
<1>2. /\ TurnAt(h) /\ turn'[h].msg = turn[h].msg /\ turn'[h].stage = turn[h].stage
      /\ turn'[h].round = turn[h].round /\ turn'[h].pc = "model" /\ turn'[h].kind = turn[h].kind /\ Own(h)' = Own(h)
  BY <1>1, GotoMoves DEF Owner
<1>3. named' \in BOOLEAN /\ (named' => named \/ AskedOk)
  <2>1. CASE turn[h].stage \in {"step1", "step2"} /\ named' = TRUE
    <3>1. AskedOk
      BY <1>1, <2>1 DEF StageTrue
    <3> QED BY <2>1, <3>1
  <2>2. CASE UNCHANGED named
    BY <1>1, <2>2 DEF ChatTypes
  <2> QED BY <2>1, <2>2 DEF ReadContext
<1>4. life' \in Life
  BY <1>1 DEF ChatTypes
<1>5. Normal(h)' => Normal(h)
  BY <1>2 DEF Normal
<1> QED BY <1>1, <1>2, <1>3, <1>4, <1>5, OwnerGoesOn

LEMMA GuardReplyKeeps ==
    ASSUME ChatInv, NEW h \in Handler, GuardReply(h)
    PROVE  ChatInv'
<1>1. /\ ChatTypes /\ OwnerTrue(h) /\ turn[h].pc = "guard"
      /\ UNCHANGED <<posts, life, heard, barred, answers, asks, charged, daily, stage, asked, named, shown>>
  BY DEF ChatInv, GuardReply
<1>2. "keep" \in Owner /\ "withheld" \in Kinds /\ turn[h].kind # "none"
  BY <1>1 DEF Owner, Kinds, OwnerTrue
<1>3. /\ TurnAt(h) /\ turn'[h].msg = turn[h].msg /\ turn'[h].stage = turn[h].stage /\ turn'[h].pc = "keep"
      /\ Own(h)' = Own(h) /\ (turn'[h].kind = turn[h].kind \/ turn'[h].kind = "withheld")
  BY <1>1, <1>2, GotoMoves, ReplyMoves DEF GuardReply
<1>4. named' \in BOOLEAN /\ life' \in Life
  BY <1>1 DEF ChatTypes
<1> QED BY <1>1, <1>2, <1>3, <1>4, OwnerGoesOn

LEMMA AskModelKeeps ==
    ASSUME ChatInv, NEW h \in Handler, AskModel(h)
    PROVE  ChatInv'
<1>1. /\ ChatTypes /\ StageTrue(h) /\ OwnerTrue(h) /\ turn[h].pc = "model" /\ turn[h].pc \in Owner
      /\ UNCHANGED <<posts, life, heard, barred, answers, charged, daily, stage, asked, named, shown>>
  BY DEF ChatInv, AskModel, Owner
<1> PICK m \in Utterance, l \in Life : turn[h].msg = m /\ Own(h) = <<m, l>> /\ <<m, l>> \in Row
  BY <1>1, Owned
<1> PICK r \in Row : r = <<m, l>>
  OBVIOUS
<1> PICK t \in TurnRow : t = turn[h]
  BY <1>1 DEF ChatTypes
<1>2. r \in heard /\ daily[r] = "held" /\ r \notin barred
  BY <1>1 DEF OwnerTrue
<1>3. asks[r] = IF t.round = 0 THEN 0 ELSE 1
  BY <1>1 DEF OwnerTrue
<1>4. asks' = [asks EXCEPT ![r] = 1]
  <2>1. asks' = [asks EXCEPT ![r] = IF t.round = 0 THEN asks[r] + 1 ELSE asks[r]]
    BY <1>1 DEF AskModel
  <2>2. (IF t.round = 0 THEN asks[r] + 1 ELSE asks[r]) = 1
    BY <1>3
  <2> QED BY <2>1, <2>2
<1>5. asks'[r] = 1 /\ asks' \in [Row -> Nat] /\ \A x \in Row \ {r} : asks'[x] = asks[x]
  BY <1>1, <1>4 DEF ChatTypes
<1>6. /\ TurnAt(h) /\ turn'[h].msg = m /\ turn'[h].stage = t.stage /\ Own(h)' = r
      /\ \/ turn'[h].pc = "guard" /\ turn'[h].kind \in {"answer", "fallback"}
         \/ turn'[h].pc = "model" /\ turn'[h].kind = t.kind /\ turn'[h].round # 0
  <2>1. CASE \E k \in {"answer", "fallback"} : Reply(h, k, "guard")
    <3>1. "guard" \in Owner /\ {"answer", "fallback"} \subseteq Kinds
      BY DEF Owner, Kinds
    <3> QED BY <1>1, <2>1, <3>1, ReplyMoves
  <2>2. CASE turn' = [turn EXCEPT ![h].round = @ + 1, ![h].tools = TRUE]
    <3> PICK n \in Nat : n = t.round + 1
      BY DEF TurnRow
    <3>1. n # 0
      BY DEF TurnRow
    <3>2. turn' = [turn EXCEPT ![h] = [t EXCEPT !.round = n, !.tools = TRUE]]
      <4>1. [turn EXCEPT ![h].round = @ + 1, ![h].tools = TRUE]
              = [turn EXCEPT ![h] = [turn[h] EXCEPT !.round = turn[h].round + 1, !.tools = TRUE]]
        BY <1>1 DEF ChatTypes, TurnRow
      <4> QED BY <2>2, <4>1
    <3>3. [t EXCEPT !.round = n, !.tools = TRUE] \in TurnRow
      BY DEF TurnRow
    <3>4. PICK q \in TurnRow : q = [t EXCEPT !.round = n, !.tools = TRUE]
      BY <3>3
    <3>5. q.round = n /\ q.pc = t.pc /\ q.msg = t.msg /\ q.life = t.life /\ q.stage = t.stage /\ q.kind = t.kind
      BY <3>4 DEF TurnRow
    <3>6. turn'[h] = q /\ TurnAt(h)
      BY <1>1, <3>2, <3>4 DEF TurnAt, ChatTypes
    <3> QED BY <1>1, <3>1, <3>5, <3>6 DEF Own
  <2> QED BY <2>1, <2>2 DEF AskModel
<1>7. ChatTypes'
  BY <1>1, <1>5, <1>6 DEF ChatTypes, TurnAt
<1>8. SaidStays /\ (AskedOk => AskedOk')
  BY <1>1, SaidKept, AskedStays
<1>9. MessageTrue(m)'
  <2>1. shown' \in [Utterance -> SUBSET Kinds]
    BY <1>7 DEF ChatTypes
  <2>2. \A i \in Life : <<m, i>> \in Row
    BY DEF Row
  <2> QED BY <1>1, <1>5, <1>8, <2>1, <2>2, MessageStays
<1>10. RowIsTrue(r)'
  BY <1>1, <1>2, <1>5 DEF RowIsTrue
<1>11. OwnerTrue(h)'
  BY <1>1, <1>2, <1>5, <1>6 DEF OwnerTrue, Normal
<1>12. StageTrue(h)'
  BY <1>1, <1>6, <1>8 DEF StageTrue, Early
<1>13. (stage # "pending" \/ named => AskedOk)'
  BY <1>1, <1>8 DEF ChatInv
<1>14. /\ \A x \in Row \ {r} : asks'[x] = asks[x] /\ daily'[x] = daily[x] /\ (x \in barred' <=> x \in barred)
       /\ \A y \in Utterance \ {m} : y \in charged' <=> y \in charged
  BY <1>1, <1>5
<1> QED BY <1>1, <1>6, <1>7, <1>8, <1>9, <1>10, <1>11, <1>12, <1>13, <1>14, OwnerStep

LEMMA KeepReplyKeeps ==
    ASSUME ChatInv, NEW h \in Handler, KeepReply(h)
    PROVE  ChatInv'
<1>1. /\ ChatTypes /\ StageTrue(h) /\ OwnerTrue(h) /\ turn[h].pc = "keep" /\ turn[h].pc \in Owner
      /\ UNCHANGED <<posts, life, heard, barred, asks, charged, daily, stage, named, shown>>
      /\ asked' = (asked \/ Asks(h))
  BY DEF ChatInv, KeepReply, Owner
<1> PICK m \in Utterance, l \in Life : turn[h].msg = m /\ Own(h) = <<m, l>> /\ <<m, l>> \in Row
  BY <1>1, Owned
<1> PICK r \in Row : r = <<m, l>>
  OBVIOUS
<1> PICK n \in Life : Now(h) = <<m, n>> /\ <<m, n>> \in Row
  BY <1>1 DEF Now, ChatTypes, Row
<1> PICK k \in Kinds : k = turn[h].kind
  BY <1>1 DEF OwnerTrue, ChatTypes, TurnRow
<1>2. answers' = [answers EXCEPT ![<<m, n>>] = Append(@, k)]
  BY DEF KeepReply
<1>3. AnswersGrow(<<m, n>>) /\ Said(m, {k})'
  BY <1>1, <1>2, AnswerStands DEF AnswersGrow
<1>4. answers' \in [Row -> Seq(Kinds)] /\ SaidStays
  BY <1>1, <1>3, AnswerAdded
<1>5. /\ TurnAt(h) /\ turn'[h].msg = m /\ turn'[h].stage = turn[h].stage /\ turn'[h].kind = k
      /\ turn'[h].pc \in {"charge", "settle"} /\ (turn'[h].pc = "charge" => Normal(h)) /\ Own(h)' = r
  <2>1. PICK pc \in {"charge", "settle"} : pc = IF Normal(h) THEN "charge" ELSE "settle"
    <3>1. CASE Normal(h)
      BY <3>1
    <3>2. CASE ~Normal(h)
      BY <3>2
    <3> QED BY <3>1, <3>2
  <2>2. Goto(h, pc) /\ pc \in Owner
    BY <2>1 DEF KeepReply, Owner
  <2> QED BY <1>1, <2>1, <2>2, GotoMoves
<1>6. asked' \in BOOLEAN /\ (asked => asked')
  BY <1>1 DEF ChatTypes, Asks
<1>7. ChatTypes'
  BY <1>1, <1>4, <1>5, <1>6 DEF ChatTypes, TurnAt
<1>8. AskedOk => AskedOk'
  BY <1>4, <1>6, AskedStays
<1>9. MessageTrue(m)'
  <2>1. shown' \in [Utterance -> SUBSET Kinds]
    BY <1>7 DEF ChatTypes
  <2> QED BY <1>1, <1>4, <2>1, MessageStays
<1>10. RowIsTrue(r)'
  BY <1>1 DEF ChatInv, RowIsTrue
<1>11. Normal(h)' = Normal(h)
  BY <1>5 DEF Normal
<1>12. OwnerTrue(h)'
  <2>1. Said(Mine(h), {turn[h].kind})'
    BY <1>3, <1>5 DEF Mine
  <2> QED BY <1>1, <1>5, <1>11, <2>1 DEF OwnerTrue
<1>13. StageTrue(h)'
  <2>1. ASSUME Normal(h)
        PROVE  AskedOk'
    <3>1. CASE k = "withheld"
      BY <1>3, <3>1 DEF AskedOk
    <3>2. CASE k = "answer" /\ turn[h].stage = "pending"
      BY <1>1, <3>2 DEF AskedOk, Asks
    <3>3. CASE turn[h].stage # "pending"
      <4>1. turn[h].stage \in Stages
        BY <1>1 DEF StageTrue
      <4> QED BY <1>1, <1>8, <3>3, <4>1 DEF StageTrue, Stages
    <3> QED BY <2>1, <3>1, <3>2, <3>3 DEF Normal
  <2> QED BY <1>1, <1>5, <1>8, <1>11, <2>1 DEF StageTrue, Early
<1>14. (stage # "pending" \/ named => AskedOk)'
  BY <1>1, <1>8 DEF ChatInv
<1>15. /\ \A x \in Row \ {r} : asks'[x] = asks[x] /\ daily'[x] = daily[x] /\ (x \in barred' <=> x \in barred)
       /\ \A y \in Utterance \ {m} : y \in charged' <=> y \in charged
  BY <1>1
<1> QED BY <1>1, <1>4, <1>5, <1>6, <1>7, <1>9, <1>10, <1>12, <1>13, <1>14, <1>15, OwnerStep

\* An owner that has stored its reply, and settles what it was given for it.
LEMMA OwnerSettles ==
    ASSUME ChatInv, NEW h \in Handler, turn[h].pc \in {"charge", "settle", "advance"},
           NEW pc \in {"settle", "advance", "deliver"}, Goto(h, pc),
           NEW m \in Utterance, NEW l \in Life, turn[h].msg = m, Own(h) = <<m, l>>,
           UNCHANGED <<posts, life, heard, barred, answers, asks, asked, named, shown>>,
           charged' = charged \/ (Normal(h) /\ charged' = charged \cup {m}),
           daily' = daily \/ \E d \in {"counted", "free"} :
                                 /\ daily' = [daily EXCEPT ![<<m, l>>] = d]
                                 /\ d = "counted" => Normal(h)
                                 /\ pc # "settle",
           pc = "settle" => turn[h].pc = "charge", pc = "advance" => Normal(h) /\ turn[h].stage # "complete",
           stage' \in Stages, stage' # stage => turn[h].pc = "advance"
    PROVE  ChatInv'
<1>1. /\ ChatTypes /\ StageTrue(h) /\ OwnerTrue(h) /\ turn[h].pc \in Owner /\ <<m, l>> \in Row
      /\ RowIsTrue(<<m, l>>) /\ MessageTrue(m)
  BY Owned DEF Owner
<1> PICK r \in Row : r = <<m, l>>
  BY <1>1
<1> PICK k \in Kinds : k = turn[h].kind /\ Said(m, {k})
  BY <1>1 DEF OwnerTrue, ChatTypes, TurnRow, Mine
<1>2. r \in heard /\ (Normal(h) => asks[r] = 1 /\ r \notin barred) /\ (turn[h].pc # "advance" => daily[r] = "held")
  BY <1>1 DEF OwnerTrue
<1>3. Normal(h) => Said(m, {"answer", "withheld"})
  BY DEF Said, Answered, Normal
<1>4. /\ daily' \in [Row -> {"none", "held", "counted", "free"}]
      /\ (daily'[r] = "counted" => Normal(h) \/ daily[r] = "counted") /\ (pc = "settle" => daily'[r] = "held")
      /\ \A x \in Row \ {r} : daily'[x] = daily[x]
  <2>1. CASE daily' = daily
    BY <1>1, <1>2, <2>1 DEF ChatTypes
  <2>2. CASE \E d \in {"counted", "free"} : /\ daily' = [daily EXCEPT ![<<m, l>>] = d]
                                            /\ d = "counted" => Normal(h)
                                            /\ pc # "settle"
    BY <1>1, <2>2 DEF ChatTypes
  <2> QED BY <2>1, <2>2
<1>5. /\ TurnAt(h) /\ turn'[h].msg = m /\ turn'[h].stage = turn[h].stage /\ turn'[h].kind = k
      /\ turn'[h].pc = pc /\ Own(h)' = r
  <2>1. pc \in Owner
    BY DEF Owner
  <2> QED BY <1>1, <2>1, GotoMoves
<1>6. ChatTypes'
  BY <1>1, <1>4, <1>5 DEF ChatTypes, TurnAt
<1>7. SaidStays /\ (AskedOk => AskedOk') /\ \A x \in Utterance : \A K : Said(x, K)' = Said(x, K)
  BY SaidKept, AskedStays
<1>8. MessageTrue(m)'
  <2>1. (m \in charged => \E i \in Life : asks[<<m, i>>] = 1 /\ <<m, i>> \notin barred)'
    BY <1>1, <1>2 DEF MessageTrue
  <2>2. ASSUME Settled(m)'
        PROVE  Said(m, {"answer", "withheld"})
    <3>1. CASE m \in charged'
      BY <1>1, <1>3, <3>1 DEF MessageTrue, Settled
    <3>2. CASE \E i \in Life : daily'[<<m, i>>] = "counted"
      <4>1. PICK i \in Life : daily'[<<m, i>>] = "counted"
        BY <3>2
      <4>2. <<m, i>> \in Row
        BY DEF Row
      <4>3. Normal(h) \/ Settled(m)
        BY <1>4, <4>1, <4>2 DEF Settled
      <4> QED BY <1>1, <1>3, <4>3 DEF MessageTrue
    <3> QED BY <2>2, <3>1, <3>2 DEF Settled
  <2>3. (Settled(m) => Said(m, {"answer", "withheld"}))'
    BY <1>7, <2>2
  <2>4. \A x \in shown'[m] \ {"welcome"} : Said(m, {x})'
    BY <1>1, <1>7 DEF MessageTrue
  <2> QED BY <2>1, <2>3, <2>4 DEF MessageTrue
<1>9. RowIsTrue(r)'
  BY <1>1, <1>2, <1>4 DEF RowIsTrue
<1>10. Normal(h)' = Normal(h)
  BY <1>5 DEF Normal
<1>11. OwnerTrue(h)'
  <2>1. Said(Mine(h), {turn[h].kind})'
    BY <1>5, <1>7 DEF Mine
  <2> QED BY <1>1, <1>2, <1>4, <1>5, <1>10, <2>1 DEF OwnerTrue
<1>12. AskedOk \/ (stage' = stage /\ pc # "advance" /\ (pc = "settle" => ~Normal(h)))
  BY <1>1 DEF StageTrue
<1>13. StageTrue(h)'
  BY <1>1, <1>5, <1>7, <1>10, <1>12 DEF StageTrue, Early
<1>14. (stage # "pending" \/ named => AskedOk)'
  BY <1>7, <1>12 DEF ChatInv
<1>15. /\ \A x \in Row \ {r} : asks'[x] = asks[x] /\ daily'[x] = daily[x] /\ (x \in barred' <=> x \in barred)
       /\ \A y \in Utterance \ {m} : y \in charged' <=> y \in charged
  BY <1>4
<1> QED BY <1>1, <1>5, <1>6, <1>7, <1>8, <1>9, <1>11, <1>13, <1>14, <1>15, OwnerStep

LEMMA SettlesKeep ==
    ASSUME ChatInv, NEW h \in Handler, Charge(h) \/ SettleDaily(h) \/ AdvanceOnboarding(h)
    PROVE  ChatInv'
<1>1. turn[h].pc \in {"charge", "settle", "advance"} /\ turn[h].pc \in Owner
  BY DEF Charge, SettleDaily, AdvanceOnboarding, Owner
<1> PICK m \in Utterance, l \in Life : turn[h].msg = m /\ Own(h) = <<m, l>> /\ Mine(h) = m
  BY <1>1, Owned DEF Mine
<1>2. ChatTypes /\ OwnerTrue(h) /\ StageTrue(h)
  BY DEF ChatInv
<1>3. CASE Charge(h)
  <2>1. /\ turn[h].pc = "charge" /\ Goto(h, "settle") /\ charged' \in {charged, charged \cup {m}}
        /\ UNCHANGED <<posts, life, heard, barred, answers, asks, daily, stage, asked, named, shown>>
    BY <1>3 DEF Charge
  <2>2. Normal(h) /\ stage' \in Stages
    BY <1>1, <1>2, <2>1 DEF OwnerTrue, ChatTypes
  <2> QED BY <2>1, <2>2, OwnerSettles
<1>4. CASE SettleDaily(h)
  <2>1. /\ turn[h].pc = "settle"
        /\ UNCHANGED <<posts, life, heard, barred, answers, asks, charged, stage, asked, named, shown>>
    BY <1>4 DEF SettleDaily
  <2>2. PICK pc \in {"advance", "deliver"} :
            Goto(h, pc) /\ (pc = "advance" => Normal(h) /\ turn[h].stage # "complete")
    <3>1. CASE Normal(h) /\ turn[h].stage # "complete"
      BY <1>4, <3>1 DEF SettleDaily
    <3>2. CASE ~(Normal(h) /\ turn[h].stage # "complete")
      BY <1>4, <3>2 DEF SettleDaily
    <3> QED BY <3>1, <3>2
  <2>3. daily' = daily \/ \E d \in {"counted", "free"} :
                             /\ daily' = [daily EXCEPT ![<<m, l>>] = d]
                             /\ d = "counted" => Normal(h)
                             /\ pc # "settle"
    <3>1. CASE Normal(h)
      BY <1>4, <3>1 DEF SettleDaily
    <3>2. CASE ~Normal(h)
      BY <1>4, <3>2 DEF SettleDaily
    <3> QED BY <3>1, <3>2
  <2>4. stage' \in Stages
    BY <1>2, <2>1 DEF ChatTypes
  <2> QED BY <2>1, <2>2, <2>3, <2>4, OwnerSettles
<1>5. CASE AdvanceOnboarding(h)
  <2>1. /\ turn[h].pc = "advance" /\ Goto(h, "deliver") /\ stage' \in NextStages(turn[h].stage)
        /\ UNCHANGED <<posts, life, heard, barred, answers, asks, charged, daily, asked, named, shown>>
    BY <1>5 DEF AdvanceOnboarding
  <2>2. turn[h].stage \in {"pending", "step1", "step2"}
    BY <1>2, <2>1 DEF StageTrue, Stages
  <2>3. NextStages(turn[h].stage) \subseteq Stages
    BY <2>2 DEF NextStages, Stages
  <2>4. stage' \in Stages
    BY <2>1, <2>3
  <2> QED BY <2>1, <2>4, OwnerSettles
<1> QED BY <1>3, <1>4, <1>5

LEMMA DeliverKeeps ==
    ASSUME ChatInv, NEW h \in Handler, SendToolReply(h) \/ ReturnReply(h)
    PROVE  ChatInv'
<1>1. /\ turn[h].pc = "deliver" /\ Leave(h) /\ turn[h].pc # "idle"
      /\ UNCHANGED <<posts, life, heard, barred, answers, asks, charged, daily, stage, asked, named>>
      /\ shown' = shown \/ Show(Mine(h), turn[h].kind)
  BY DEF SendToolReply, ReturnReply, Respond
<1>2. turn[h].kind # "none" /\ Said(Mine(h), {turn[h].kind})
  BY <1>1 DEF ChatInv, OwnerTrue, Owner
<1>3. turn[h].kind \in Kinds
  BY <1>2 DEF ChatInv, ChatTypes, TurnRow
<1> QED BY <1>1, <1>2, <1>3, EndKeeps

LEMMA ChatStutters ==
    ASSUME ChatInv, UNCHANGED chatVars
    PROVE  ChatInv'
<1>1. UNCHANGED <<posts, life, heard, barred, answers, asks, charged, daily, stage, asked, named, shown, turn>>
  BY DEF chatVars
<1>2. ChatTypes'
  BY <1>1 DEF ChatInv, ChatTypes
<1>3. AskedOk' = AskedOk /\ \A x \in Utterance : \A K : Said(x, K)' = Said(x, K)
  BY <1>1, SaidKept DEF AskedOk
<1>4. \A m \in Utterance : MessageTrue(m)'
  BY <1>1, <1>3 DEF ChatInv, MessageTrue, Settled
<1>5. ASSUME NEW h \in Handler
      PROVE  OwnerTrue(h)' /\ StageTrue(h)'
  <2>1. OwnerTrue(h) /\ StageTrue(h)
    BY DEF ChatInv
  <2>2. Said(Mine(h), {turn[h].kind})' <=> Said(Mine(h), {turn[h].kind})
    BY <1>1 DEF Said, Answered, Mine
  <2>3. OwnerTrue(h)'
    BY <1>1, <2>1, <2>2 DEF OwnerTrue, Mine, Own, Normal
  <2>4. StageTrue(h)'
    BY <1>1, <1>3, <2>1 DEF StageTrue, Normal
  <2> QED BY <2>3, <2>4
<1>6. \A r \in Row : RowIsTrue(r)' /\ \A g, h \in Handler : Owns(g, r)' /\ Owns(h, r)' => g = h
  BY <1>1 DEF ChatInv, Owns, Own, RowIsTrue
<1>7. (stage # "pending" \/ named => AskedOk)'
  BY <1>1, <1>3 DEF ChatInv
<1> QED BY <1>2, <1>4, <1>5, <1>6, <1>7 DEF ChatInv

LEMMA ChatStarts ==
    ASSUME ChatInit
    PROVE  ChatInv
<1>1. \A h \in Handler : turn[h] = AtRest /\ turn[h].pc = "idle" /\ turn[h].stage = "none" /\ ~turn[h].waiting
  BY RestRow DEF ChatInit
<1>2. ChatTypes
  <2>1. <<>> \in Seq(Kinds) /\ 0 \in 0 .. MaxPosts
    BY ChatBounds
  <2> QED BY <2>1, RestRow, LifeBegins DEF ChatInit, ChatTypes, Stages
<1>3. /\ \A r \in Row : RowIsTrue(r)
      /\ \A m \in Utterance : MessageTrue(m)
  <2>1. \A r \in Row : asks[r] = 0 /\ daily[r] = "none"
    BY DEF ChatInit
  <2>2. \A m \in Utterance : \A l \in Life : daily[<<m, l>>] = "none"
    BY <2>1 DEF Row
  <2>3. \A m \in Utterance : m \notin charged /\ shown[m] = {}
    BY DEF ChatInit
  <2>4. \A r \in Row : RowIsTrue(r)
    BY <2>1 DEF RowIsTrue
  <2>5. \A m \in Utterance : MessageTrue(m)
    <3> SUFFICES ASSUME NEW m \in Utterance PROVE MessageTrue(m)
      OBVIOUS
    <3>1. ~Settled(m)
      BY <2>2, <2>3 DEF Settled
    <3> QED BY <2>3, <3>1 DEF MessageTrue
  <2> QED BY <2>4, <2>5
<1>4. \A h \in Handler : OwnerTrue(h) /\ StageTrue(h)
  BY <1>1 DEF OwnerTrue, StageTrue, Owner, Early
<1>5. \A r \in Row : \A g, h \in Handler : Owns(g, r) /\ Owns(h, r) => g = h
  BY <1>1 DEF Owns, Owner
<1>6. stage # "pending" \/ named => AskedOk
  BY DEF ChatInit, AskedOk
<1> QED BY <1>2, <1>3, <1>4, <1>5, <1>6 DEF ChatInv

LEMMA ChatInvHolds ==
    ASSUME ChatInv
    PROVE  TurnsAreSound
<1>1. ChatTypeOK
  BY DEF ChatInv, ChatTypes, ChatTypeOK, Stages
<1>2. PaidOnce
  <2>1. \A r \in Row : asks[r] <= 1 /\ (daily[r] = "counted" => asks[r] = 1 /\ r \notin barred)
    BY DEF ChatInv, RowIsTrue
  <2>2. charged \subseteq Utterance /\ \A m \in Utterance : MessageTrue(m)
    BY DEF ChatInv, ChatTypes
  <2>3. \A m \in charged : \E l \in Life : asks[<<m, l>>] = 1 /\ <<m, l>> \notin barred
    BY <2>2 DEF MessageTrue
  <2> QED BY <2>1, <2>2, <2>3 DEF MessageTrue, Settled, PaidOnce
<1>3. ToldIsRemembered
  BY DEF ChatInv, MessageTrue, ToldIsRemembered
<1>4. AskedFirst
  BY DEF ChatInv, AskedOk, AskedFirst
<1> QED BY <1>1, <1>2, <1>3, <1>4 DEF TurnsAreSound

\* However often a message is posted, by however many requests at a time, and
\* wherever they break off: between two resets of the session the model is
\* asked for its answer once, it is charged and counted for a reply that was
\* stored, what the person was told was stored before, and the onboarding asks
\* before it takes a name.
THEOREM TurnsStaySound == ChatSpec => []TurnsAreSound
<1>1. ChatInit => ChatInv
  BY ChatStarts
<1>2. ChatInv /\ [ChatNext]_chatVars => ChatInv'
  <2> SUFFICES ASSUME ChatInv, [ChatNext]_chatVars PROVE ChatInv'
    OBVIOUS
  <2>1. ASSUME NEW h \in Handler, (\E m \in Utterance : Post(h, m)) \/ BridgeTimeout(h)
        PROVE  ChatInv'
    BY <2>1, PostKeeps, BridgeTimeoutKeeps
  <2>2. ASSUME NEW h \in Handler, TurnBreaks(h) \/ Turned(h) \/ Limited(h)
        PROVE  ChatInv'
    BY <2>2, EndKeeps DEF TurnBreaks, Turned, Limited
  <2>3. ASSUME NEW h \in Handler, Enter(h) \/ SendWelcome(h) \/ StartOnboarding(h) \/ LogWelcome(h)
        PROVE  ChatInv'
    BY <2>3, EnterKeeps, SendWelcomeKeeps, StartOnboardingKeeps, LogWelcomeKeeps
  <2>4. ASSUME NEW h \in Handler,
               Repeated(h) \/ Pass(h) \/ StoreMessage(h) \/ AlreadyStored(h) \/ Screen(h) \/ MarkBlocked(h)
        PROVE  ChatInv'
    BY <2>4, RepeatedKeeps, PassKeeps, StoreMessageKeeps, ScreenKeeps, MarkBlockedKeeps
  <2>5. ASSUME NEW h \in Handler,
               ResetSession(h) \/ FixedReply(h) \/ ReadContext(h) \/ AskModel(h) \/ GuardReply(h) \/ KeepReply(h)
        PROVE  ChatInv'
    BY <2>5, FixedReplyKeeps, ReadContextKeeps, AskModelKeeps, GuardReplyKeeps, KeepReplyKeeps
  <2>6. ASSUME NEW h \in Handler,
               Charge(h) \/ SettleDaily(h) \/ AdvanceOnboarding(h) \/ SendToolReply(h) \/ ReturnReply(h)
        PROVE  ChatInv'
    BY <2>6, SettlesKeep, DeliverKeeps
  <2>7. CASE UNCHANGED chatVars
    BY <2>7, ChatStutters
  <2> QED BY <2>1, <2>2, <2>3, <2>4, <2>5, <2>6, <2>7 DEF ChatNext
<1>3. ChatInv => TurnsAreSound
  BY ChatInvHolds
<1> QED BY <1>1, <1>2, <1>3, PTL DEF ChatSpec

-----------------------------------------------------------------------------
(***************************************************************************)
(* Nudges: Reactivation.  A candidate may come back after it was sent or   *)
(* cleared, so what keeps the person from a second text is the look at the *)
(* rows, which holds until the one scheduler process sends.                *)
(***************************************************************************)
Day == 1 .. MaxDays
Candidate == [id : Nat, kind : {"none", "talk", "invite"}, day : Nat, slot : Nat, said : Nat, new : BOOLEAN]
Outcome == {"sent", "pending", "failed"}
NudgerRow == [pc : {"idle", "recall", "generate", "patch", "window", "check", "claim", "send", "edit"} \cup Outcome,
              kind : {"none", "talk", "invite"}, cand : Candidate, patch : Candidate, day : Nat,
              then : {"idle", "window", "recall"}]

NudgeTypes ==
    /\ stored \in Candidate
    /\ invitation \in [Plan -> {"none", "candidate", "sending", "invited", "ended"}]
    /\ nudge \in [Plan -> [Day -> {"none"} \cup Outcome]]
    /\ clock \in [day : Day, slot : Nat] /\ said \in Nat
    /\ plans \in Seq(BOOLEAN) /\ Len(plans) <= MaxPlans
    /\ nudger \in [Actor -> NudgerRow]

\* A candidate is one that was made, and has not forgotten what it is.
Made(c) == c.id <= Len(plans) /\ (c.id # 0 => plans[c.id] = c.new)

WasSent(i) == \E d \in Day : nudge[i][d] = "sent"
NeverLive(i) == \A d \in Day : nudge[i][d] \notin Live
QuietDay(d) == \A i \in Plan : nudge[i][d] \notin Live

RowsOnce ==
    /\ \A i \in Plan : \A d, e \in Day : nudge[i][d] \in Live /\ nudge[i][e] \in Live => d = e
    /\ \A d \in Day : \A i, j \in 1 .. Len(plans) :
           ~plans[i] /\ ~plans[j] /\ nudge[i][d] \in Live /\ nudge[j][d] \in Live => i = j
    /\ \A i \in Plan : i > Len(plans) => \A d \in Day : nudge[i][d] = "none"
    /\ \A i \in Plan : invitation[i] \in {"invited", "ended"} => WasSent(i)

\* What a process carries.
Carries(a) ==
    /\ Made(nudger[a].patch)
    /\ nudger[a].pc \in {"check", "claim", "send", "edit"} \/ (nudger[a].pc \in Outcome /\ a \notin Request)
           => Made(nudger[a].cand)
    /\ nudger[a].pc \in {"check", "claim", "send"} \cup Outcome => nudger[a].cand.id \in Plan
    /\ nudger[a].pc \in {"check", "claim", "send"} => nudger[a].day \in Day
    /\ nudger[a].pc = "sent" => WasSent(nudger[a].cand.id)

\* What the scheduler has looked up and relies on until it sends.
MaySend(a) ==
    a \in Planner /\ nudger[a].pc \in {"claim", "send"} =>
        NeverLive(nudger[a].cand.id) /\ (nudger[a].cand.new \/ QuietDay(nudger[a].day))

NudgeInv == NudgeTypes /\ Made(stored) /\ RowsOnce /\ \A a \in Actor : Carries(a) /\ MaySend(a)

NudgerAt(a) ==
    /\ nudger' \in [Actor -> NudgerRow] /\ \A x \in Actor \ {a} : nudger'[x] = nudger[x]

LEMMA PlanNumbers == Plan \subseteq Nat \ {0} /\ \A i \in Plan : i <= MaxPlans
  BY ReactivationBounds DEF Plan

LEMMA NothingMade ==
    /\ NoCandidate \in Candidate /\ NoCandidate.id = 0
    /\ Resting \in NudgerRow /\ Resting.pc = "idle" /\ Resting.patch = NoCandidate /\ Resting.cand = NoCandidate
<1>1. NoCandidate \in Candidate /\ NoCandidate.id = 0
  BY DEF NoCandidate, Candidate
<1> QED BY <1>1 DEF Resting, NudgerRow

LEMMA NoneIsMade ==
    ASSUME NudgeTypes
    PROVE  Made(NoCandidate)
  BY NothingMade DEF NudgeTypes, Made

LEMMA FinishMoves ==
    ASSUME NudgeTypes, NEW a \in Actor, Finish(a)
    PROVE  NudgerAt(a) /\ nudger'[a].pc = "idle" /\ nudger'[a].patch = NoCandidate
  BY NothingMade DEF Finish, NudgerAt, NudgeTypes

LEMMA TurnMoves ==
    ASSUME NudgeTypes, NEW a \in Actor, NEW pc, Turn(a, pc),
           pc \in {"idle", "recall", "generate", "patch", "window", "check", "claim", "send", "edit"} \cup Outcome
    PROVE  /\ NudgerAt(a) /\ nudger'[a].pc = pc /\ nudger'[a].cand = nudger[a].cand
           /\ nudger'[a].patch = nudger[a].patch /\ nudger'[a].day = nudger[a].day
<1>1. PICK r \in NudgerRow : r = nudger[a]
  BY DEF NudgeTypes
<1>2. nudger' = [nudger EXCEPT ![a] = [r EXCEPT !.pc = pc]]
  BY <1>1 DEF Turn, NudgeTypes
<1>3. [r EXCEPT !.pc = pc] \in NudgerRow
  BY DEF NudgerRow
<1>4. PICK q \in NudgerRow : q = [r EXCEPT !.pc = pc]
  BY <1>3
<1>5. q.pc = pc /\ q.cand = r.cand /\ q.patch = r.patch /\ q.day = r.day
  BY <1>4 DEF NudgerRow
<1>6. nudger'[a] = q /\ NudgerAt(a)
  BY <1>2, <1>4 DEF NudgerAt, NudgeTypes
<1> QED BY <1>1, <1>5, <1>6

LEMMA PatchMoves ==
    ASSUME NudgeTypes, NEW a \in Actor, NEW p \in Candidate, NEW pc \in {"idle", "window", "recall"},
           Patch(a, p, pc)
    PROVE  NudgerAt(a) /\ nudger'[a].pc = "patch" /\ nudger'[a].patch = p
<1>1. nudger' = [nudger EXCEPT ![a] = [Resting EXCEPT !.pc = "patch", !.patch = p, !.then = pc]]
  BY DEF Patch
<1>2. [Resting EXCEPT !.pc = "patch", !.patch = p, !.then = pc] \in NudgerRow
  BY NothingMade DEF Resting, NudgerRow
<1>3. PICK q \in NudgerRow : q = [Resting EXCEPT !.pc = "patch", !.patch = p, !.then = pc]
  BY <1>2
<1>4. q.pc = "patch" /\ q.patch = p
  BY <1>3 DEF Resting
<1>5. nudger'[a] = q /\ NudgerAt(a)
  BY <1>1, <1>3 DEF NudgerAt, NudgeTypes
<1> QED BY <1>4, <1>5

\* A step of one process that leaves the rows of messages alone.
LEMMA NudgerStep ==
    ASSUME NudgeInv, NEW a \in Actor, NudgerAt(a), UNCHANGED <<nudge, clock, said, plans>>,
           stored' \in Candidate, Made(stored'),
           invitation' \in [Plan -> {"none", "candidate", "sending", "invited", "ended"}],
           \A i \in Plan : invitation'[i] \in {"invited", "ended"} => WasSent(i),
           Carries(a)', MaySend(a)'
    PROVE  NudgeInv'
<1>1. NudgeTypes'
  BY DEF NudgeInv, NudgeTypes, NudgerAt
<1>2. \A c : Made(c)' = Made(c')
  BY DEF Made
<1>3. \A i : WasSent(i)' = WasSent(i') /\ NeverLive(i)' = NeverLive(i')
  BY DEF WasSent, NeverLive
<1>4. RowsOnce'
  BY DEF NudgeInv, RowsOnce, WasSent
<1>5. ASSUME NEW x \in Actor, x # a
      PROVE  Carries(x)' /\ MaySend(x)'
  <2>1. nudger'[x] = nudger[x] /\ Carries(x) /\ MaySend(x)
    BY <1>5 DEF NudgerAt, NudgeInv
  <2>2. Carries(x)'
    BY <2>1 DEF Carries, Made, WasSent
  <2>3. MaySend(x)'
    BY <2>1 DEF MaySend, NeverLive, QuietDay
  <2> QED BY <2>2, <2>3
<1>6. Made(stored)'
  BY DEF Made
<1> QED BY <1>1, <1>4, <1>5, <1>6 DEF NudgeInv

LEMMA FinishKeeps ==
    ASSUME NudgeInv, NEW a \in Actor, Finish(a), UNCHANGED <<nudge, clock, said, plans>>,
           stored' \in Candidate, Made(stored'),
           invitation' \in [Plan -> {"none", "candidate", "sending", "invited", "ended"}],
           \A i \in Plan : invitation'[i] \in {"invited", "ended"} => WasSent(i)
    PROVE  NudgeInv'
<1>1. NudgerAt(a) /\ nudger'[a].pc = "idle" /\ nudger'[a].patch = NoCandidate
  BY FinishMoves DEF NudgeInv
<1>2. Made(NoCandidate)
  BY NoneIsMade DEF NudgeInv
<1>3. Carries(a)' /\ MaySend(a)'
  BY <1>1, <1>2 DEF Carries, MaySend, Made, Outcome
<1> QED BY <1>1, <1>3, NudgerStep

LEMMA PatchKeeps ==
    ASSUME NudgeInv, NEW a \in Actor, NEW p \in Candidate, Made(p), NEW pc \in {"idle", "window", "recall"},
           Patch(a, p, pc), UNCHANGED <<stored, nudge, clock, said, plans>>,
           invitation' \in [Plan -> {"none", "candidate", "sending", "invited", "ended"}],
           \A i \in Plan : invitation'[i] \in {"invited", "ended"} => WasSent(i)
    PROVE  NudgeInv'
<1>1. NudgerAt(a) /\ nudger'[a].pc = "patch" /\ nudger'[a].patch = p
  BY PatchMoves DEF NudgeInv
<1>2. Carries(a)' /\ MaySend(a)'
  BY <1>1 DEF Carries, MaySend, Made, Outcome
<1>3. stored' \in Candidate /\ Made(stored')
  BY DEF NudgeInv, NudgeTypes
<1> QED BY <1>1, <1>2, <1>3, NudgerStep

LEMMA ClearKeeps ==
    ASSUME NudgeInv, NEW a \in Actor, Clear(a), UNCHANGED <<stored, nudge, clock, said, plans>>,
           invitation' \in [Plan -> {"none", "candidate", "sending", "invited", "ended"}],
           \A i \in Plan : invitation'[i] \in {"invited", "ended"} => WasSent(i)
    PROVE  NudgeInv'
<1>1. Made(NoCandidate)
  BY NoneIsMade DEF NudgeInv
<1> QED BY <1>1, NothingMade, PatchKeeps DEF Clear

\* A candidate that is moved to another slot is the same candidate.
LEMMA MoveOrClearKeeps ==
    ASSUME NudgeInv, NEW a \in Actor, MoveOrClear(a), Made(nudger[a].cand),
           UNCHANGED <<stored, nudge, clock, said, plans>>,
           invitation' \in [Plan -> {"none", "candidate", "sending", "invited", "ended"}],
           \A i \in Plan : invitation'[i] \in {"invited", "ended"} => WasSent(i)
    PROVE  NudgeInv'
<1>1. PICK c \in Candidate : c = nudger[a].cand
  BY DEF NudgeInv, NudgeTypes, NudgerRow
<1>2. CASE c.slot = LastSlot
  BY <1>1, <1>2, ClearKeeps DEF MoveOrClear
<1>3. CASE c.slot # LastSlot
  <2>1. Patch(a, Moved(c), "idle")
    BY <1>1, <1>3 DEF MoveOrClear
  <2>2. PICK d \in Nat, t \in Nat : d = LaterSlot(c).day /\ t = LaterSlot(c).slot
    <3>1. clock.day \in Nat /\ c.slot \in Nat
      BY DEF NudgeInv, NudgeTypes, Day, Candidate
    <3>2. CASE c.slot + 1 > clock.slot
      BY <3>1, <3>2 DEF LaterSlot
    <3>3. CASE ~(c.slot + 1 > clock.slot)
      BY <3>1, <3>3 DEF LaterSlot
    <3> QED BY <3>2, <3>3
  <2>3. [c EXCEPT !.day = d, !.slot = t] \in Candidate
    BY DEF Candidate
  <2>4. PICK q \in Candidate : q = [c EXCEPT !.day = d, !.slot = t]
    BY <2>3
  <2>5. q = Moved(c) /\ q.id = c.id /\ q.new = c.new
    BY <2>2, <2>4 DEF Moved, Candidate
  <2>6. Made(q)
    BY <1>1, <2>5 DEF Made
  <2> QED BY <2>1, <2>5, <2>6, PatchKeeps
<1> QED BY <1>2, <1>3

\* What the invitations say stays true while they stay what they are.
LEMMA InvitationsStand ==
    ASSUME NudgeInv, UNCHANGED invitation
    PROVE  /\ invitation' \in [Plan -> {"none", "candidate", "sending", "invited", "ended"}]
           /\ \A i \in Plan : invitation'[i] \in {"invited", "ended"} => WasSent(i)
  BY DEF NudgeInv, NudgeTypes, RowsOnce

\* A process goes on that looks at the account and carries nothing yet.
LEMMA LooksOn ==
    ASSUME NudgeInv, NEW a \in Actor, NudgerAt(a), nudger'[a].pc \in {"recall", "generate"},
           nudger'[a].patch = nudger[a].patch, UNCHANGED <<stored, invitation, nudge, clock, said, plans>>
    PROVE  NudgeInv'
<1>1. Made(nudger[a].patch) /\ stored' \in Candidate /\ Made(stored')
  BY DEF NudgeInv, Carries, NudgeTypes
<1>2. Carries(a)' /\ MaySend(a)'
  BY <1>1 DEF Carries, MaySend, Made, Outcome
<1> QED BY <1>1, <1>2, InvitationsStand, NudgerStep

LEMMA WritePatchKeeps ==
    ASSUME NudgeInv, NEW a \in Actor, WritePatch(a)
    PROVE  NudgeInv'
<1>1. NudgeTypes /\ UNCHANGED <<invitation, nudge, clock, said, plans>> /\ stored' = nudger[a].patch
  BY DEF NudgeInv, WritePatch
<1> PICK r \in NudgerRow : r = nudger[a]
  BY <1>1 DEF NudgeTypes
<1> PICK pc \in {"idle", "window", "recall"} : pc = r.then
  BY DEF NudgerRow
<1>2. nudger' = [nudger EXCEPT ![a] = [Resting EXCEPT !.pc = pc]]
  BY DEF WritePatch
<1>3. [Resting EXCEPT !.pc = pc] \in NudgerRow
  BY NothingMade DEF Resting, NudgerRow
<1>4. PICK q \in NudgerRow : q = [Resting EXCEPT !.pc = pc]
  BY <1>3
<1>5. q.pc = pc /\ q.patch = NoCandidate
  BY <1>4 DEF Resting
<1>6. nudger'[a] = q /\ NudgerAt(a)
  BY <1>1, <1>2, <1>4 DEF NudgerAt, NudgeTypes
<1>7. stored' \in Candidate /\ Made(stored')
  BY <1>1 DEF NudgerRow, NudgeInv, Carries
<1>8. Made(NoCandidate)
  BY <1>1, NoneIsMade
<1>9. Carries(a)' /\ MaySend(a)'
  BY <1>1, <1>5, <1>6, <1>8 DEF Carries, MaySend, Made, Outcome
<1> QED BY <1>1, <1>6, <1>7, <1>9, InvitationsStand, NudgerStep

\* A process takes the candidate that is stored.
LEMMA TakesStored ==
    ASSUME NudgeInv, NEW a \in Actor, NudgerAt(a), nudger'[a].pc \in {"check", "edit"},
           nudger'[a].cand = stored, nudger'[a].patch = nudger[a].patch,
           nudger'[a].pc = "check" => stored.id # 0 /\ nudger'[a].day = clock.day,
           UNCHANGED <<stored, invitation, nudge, clock, said, plans>>
    PROVE  NudgeInv'
<1>1. Made(nudger[a].patch) /\ stored' \in Candidate /\ Made(stored') /\ NudgeTypes /\ Made(stored)
  BY DEF NudgeInv, Carries, NudgeTypes
<1>2. stored.id # 0 => stored.id \in Plan
  <2>1. stored.id \in Nat /\ stored.id <= Len(plans) /\ Len(plans) <= MaxPlans /\ Len(plans) \in Nat
    BY <1>1 DEF NudgeTypes, Candidate, Made
  <2> QED BY <2>1, ReactivationBounds DEF Plan
<1>3. clock.day \in Day
  BY <1>1 DEF NudgeTypes
<1>4. Carries(a)' /\ MaySend(a)'
  BY <1>1, <1>2, <1>3 DEF Carries, MaySend, Made, Outcome
<1> QED BY <1>1, <1>4, InvitationsStand, NudgerStep

LEMMA ReadForEditKeeps ==
    ASSUME NudgeInv, NEW o \in Request, ReadForEdit(o)
    PROVE  NudgeInv'
<1>1. NudgeTypes /\ o \in Actor /\ UNCHANGED <<stored, invitation, nudge, clock, said, plans>>
  BY DEF NudgeInv, ReadForEdit, Actor
<1> PICK r \in NudgerRow : r = nudger[o]
  BY <1>1 DEF NudgeTypes
<1> PICK c \in Candidate : c = stored
  BY <1>1 DEF NudgeTypes
<1>2. nudger' = [nudger EXCEPT ![o] = [r EXCEPT !.pc = "edit", !.cand = c]]
  BY <1>1 DEF ReadForEdit, NudgeTypes
<1>3. [r EXCEPT !.pc = "edit", !.cand = c] \in NudgerRow
  BY DEF NudgerRow
<1>4. PICK q \in NudgerRow : q = [r EXCEPT !.pc = "edit", !.cand = c]
  BY <1>3
<1>5. q.pc = "edit" /\ q.cand = c /\ q.patch = r.patch
  BY <1>4 DEF NudgerRow
<1>6. nudger'[o] = q /\ NudgerAt(o)
  BY <1>1, <1>2, <1>4 DEF NudgerAt, NudgeTypes
<1> QED BY <1>1, <1>5, <1>6, TakesStored

LEMMA EditStateKeeps ==
    ASSUME NudgeInv, NEW o \in Request, EditState(o)
    PROVE  NudgeInv'
<1>1. NudgeTypes /\ o \in Actor /\ UNCHANGED <<invitation, nudge, clock, said, plans>> /\ Finish(o)
      /\ nudger[o].pc = "edit" /\ stored' = nudger[o].cand
  BY DEF NudgeInv, EditState, Actor
<1>2. Made(nudger[o].cand) /\ nudger[o].cand \in Candidate
  BY <1>1 DEF NudgeInv, Carries, NudgeTypes, NudgerRow
<1> QED BY <1>1, <1>2, InvitationsStand, FinishKeeps

\* TakeDue, and RunOnce where it finds a candidate that is due.
LEMMA DueTaken ==
    ASSUME NudgeInv, NEW a \in Actor, Due(stored), UNCHANGED <<stored, invitation, nudge, clock, said, plans>>,
           nudger' = [nudger EXCEPT ![a].pc = "check", ![a].cand = stored, ![a].day = clock.day]
    PROVE  NudgeInv'
<1>1. NudgeTypes /\ stored.id # 0
  BY DEF NudgeInv, Due
<1> PICK r \in NudgerRow : r = nudger[a]
  BY <1>1 DEF NudgeTypes
<1> PICK c \in Candidate : c = stored
  BY <1>1 DEF NudgeTypes
<1> PICK d \in Day : d = clock.day
  BY <1>1 DEF NudgeTypes
<1>d. d \in Nat
  BY DEF Day
<1>2. nudger' = [nudger EXCEPT ![a] = [r EXCEPT !.pc = "check", !.cand = c, !.day = d]]
  BY <1>1 DEF NudgeTypes
<1>3. [r EXCEPT !.pc = "check", !.cand = c, !.day = d] \in NudgerRow
  BY <1>d DEF NudgerRow
<1>4. PICK q \in NudgerRow : q = [r EXCEPT !.pc = "check", !.cand = c, !.day = d]
  BY <1>3
<1>5. q.pc = "check" /\ q.cand = c /\ q.patch = r.patch /\ q.day = d
  BY <1>4 DEF NudgerRow
<1>6. nudger'[a] = q /\ NudgerAt(a)
  BY <1>1, <1>2, <1>4 DEF NudgerAt, NudgeTypes
<1> QED BY <1>1, <1>5, <1>6, TakesStored

LEMMA RecallKeeps ==
    ASSUME NudgeInv, NEW a \in Actor, Turn(a, "recall"), UNCHANGED <<stored, invitation, nudge, clock, said, plans>>
    PROVE  NudgeInv'
<1>1. NudgerAt(a) /\ nudger'[a].pc = "recall" /\ nudger'[a].patch = nudger[a].patch
  BY TurnMoves DEF NudgeInv
<1> QED BY <1>1, LooksOn

LEMMA AskKeeps ==
    ASSUME NudgeInv, NEW a \in Actor, NEW kind \in {"talk", "invite"}, Ask(a, kind)
    PROVE  NudgeInv'
<1>1. NudgeTypes /\ UNCHANGED <<stored, invitation, nudge, clock, said, plans>>
  BY DEF NudgeInv, Ask
<1> PICK r \in NudgerRow : r = nudger[a]
  BY <1>1 DEF NudgeTypes
<1>2. nudger' = [nudger EXCEPT ![a] = [r EXCEPT !.pc = "generate", !.kind = kind]]
  BY <1>1 DEF Ask, NudgeTypes
<1>3. [r EXCEPT !.pc = "generate", !.kind = kind] \in NudgerRow
  BY DEF NudgerRow
<1>4. PICK q \in NudgerRow : q = [r EXCEPT !.pc = "generate", !.kind = kind]
  BY <1>3
<1>5. q.pc = "generate" /\ q.patch = r.patch
  BY <1>4 DEF NudgerRow
<1>6. nudger'[a] = q /\ NudgerAt(a)
  BY <1>1, <1>2, <1>4 DEF NudgerAt, NudgeTypes
<1> QED BY <1>1, <1>5, <1>6, LooksOn

LEMMA StopsKeeps ==
    ASSUME NudgeInv, NEW a \in Actor, NothingToSay(a) \/ Breaks(a)
    PROVE  NudgeInv'
<1>1. Finish(a) /\ UNCHANGED <<stored, invitation, nudge, clock, said, plans>>
  BY DEF NothingToSay, Breaks
<1>2. stored' \in Candidate /\ Made(stored')
  BY <1>1 DEF NudgeInv, NudgeTypes
<1> QED BY <1>1, <1>2, InvitationsStand, FinishKeeps


\* The plans that are made stay as they are, and one more has its row to itself.
LEMMA OneMorePlan ==
    ASSUME NudgeTypes, Len(plans) < MaxPlans, NEW b \in BOOLEAN, plans' = Append(plans, b)
    PROVE  /\ plans' \in Seq(BOOLEAN) /\ Len(plans') = Len(plans) + 1 /\ Len(plans') <= MaxPlans
           /\ Len(plans') \in Plan /\ plans'[Len(plans')] = b
           /\ \A i \in 1 .. Len(plans) : plans'[i] = plans[i]
           /\ \A c \in Candidate : Made(c) => Made(c)'
<1>1. plans \in Seq(BOOLEAN) /\ Len(plans) \in Nat
  BY DEF NudgeTypes
<1>2. plans' \in Seq(BOOLEAN) /\ Len(plans') = Len(plans) + 1 /\ plans'[Len(plans) + 1] = b
      /\ \A i \in 1 .. Len(plans) : plans'[i] = plans[i]
  BY <1>1, AppendProperties
<1>3. Len(plans') <= MaxPlans /\ Len(plans') \in Plan
  BY <1>1, <1>2, ReactivationBounds DEF Plan
<1>4. ASSUME NEW c \in Candidate, Made(c)
      PROVE  Made(c)'
  <2>1. c.id \in Nat
    BY DEF Candidate
  <2>2. c.id <= Len(plans')
    BY <1>1, <1>2, <1>4, <2>1 DEF Made
  <2>3. c.id # 0 => plans'[c.id] = c.new
    BY <1>1, <1>2, <1>4, <2>1 DEF Made
  <2> QED BY <2>2, <2>3 DEF Made
<1> QED BY <1>2, <1>3, <1>4

LEMMA FirstSlotTyped ==
    ASSUME NudgeTypes
    PROVE  FirstSlot.day \in Nat /\ FirstSlot.slot \in Nat
<1>1. clock.day \in Nat /\ clock.slot \in Nat
  BY DEF NudgeTypes, Day
<1>2. CASE clock.slot < LastSlot
  BY <1>1, <1>2 DEF FirstSlot
<1>3. CASE ~(clock.slot < LastSlot)
  BY <1>1, <1>3 DEF FirstSlot
<1> QED BY <1>2, <1>3

LEMMA GenerateKeeps ==
    ASSUME NudgeInv, NEW a \in Actor, Generate(a)
    PROVE  NudgeInv'
<1>1. NudgeTypes /\ Len(plans) < MaxPlans /\ UNCHANGED <<stored, nudge, clock, said>>
  BY DEF NudgeInv, Generate
<1>b. NewUserPlan(a) \in BOOLEAN
  BY DEF NewUserPlan
<1> PICK b \in BOOLEAN : b = NewUserPlan(a)
  BY <1>b
<1> PICK kind \in {"none", "talk", "invite"} : kind = nudger[a].kind
  BY <1>1 DEF NudgeTypes, NudgerRow
<1> DEFINE i == Len(plans) + 1
           c == [id |-> i, kind |-> kind, day |-> FirstSlot.day, slot |-> FirstSlot.slot,
                 said |-> said, new |-> b]
<1>2. plans' = Append(plans, b)
  BY DEF Generate
<1>3. plans' \in Seq(BOOLEAN) /\ Len(plans') = i /\ i <= MaxPlans /\ i \in Plan /\ plans'[i] = b
      /\ (\A j \in 1 .. Len(plans) : plans'[j] = plans[j]) /\ \A m \in Candidate : Made(m) => Made(m)'
  BY <1>1, <1>2, OneMorePlan
<1>4. invitation' = WithInvitation(kind, i) /\ Patch(a, c, IF c.new /\ c.day > 1 THEN "window" ELSE "idle")
  BY <1>3 DEF Generate
<1>5. c \in Candidate
  <2>1. i \in Nat /\ said \in Nat
    BY <1>1 DEF NudgeTypes
  <2> QED BY <1>1, <2>1, FirstSlotTyped DEF Candidate
<1> PICK q \in Candidate : q = c /\ q.id = i /\ q.new = b
  BY <1>5
<1>6. NudgerAt(a) /\ nudger'[a].pc = "patch" /\ nudger'[a].patch = q
  <2> PICK pc \in {"idle", "window"} : pc = IF c.new /\ c.day > 1 THEN "window" ELSE "idle"
    <3>1. CASE c.new /\ c.day > 1
      BY <3>1
    <3>2. CASE ~(c.new /\ c.day > 1)
      BY <3>2
    <3> QED BY <3>1, <3>2
  <2>1. Patch(a, c, pc)
    BY <1>4
  <2> HIDE DEF c
  <2> QED BY <1>1, <1>5, <2>1, PatchMoves
<1>7. invitation' \in [Plan -> {"none", "candidate", "sending", "invited", "ended"}]
      /\ \A j \in Plan : invitation'[j] \in {"invited", "ended"} => invitation[j] \in {"invited", "ended"}
  BY <1>1, <1>3, <1>4 DEF WithInvitation, NudgeTypes
<1>8. NudgeTypes'
  BY <1>1, <1>3, <1>6, <1>7 DEF NudgeTypes, NudgerAt
<1>9. Made(stored)'
  <2>1. stored \in Candidate /\ Made(stored)
    BY <1>1 DEF NudgeInv, NudgeTypes
  <2> QED BY <1>1, <1>3, <2>1 DEF Made
<1>10. RowsOnce'
  <2>1. RowsOnce /\ Len(plans) \in Nat
    BY <1>1 DEF NudgeInv, NudgeTypes
  <2>2. \A d \in Day : nudge[i][d] = "none"
    BY <1>3, <2>1 DEF RowsOnce
  <2>3. (\A j \in Plan : \A d, e \in Day : nudge[j][d] \in Live /\ nudge[j][e] \in Live => d = e)'
    BY <1>1, <2>1 DEF RowsOnce
  <2>4. ASSUME NEW d \in Day, NEW j \in 1 .. i, NEW k \in 1 .. i, ~plans'[j], ~plans'[k],
               nudge[j][d] \in Live, nudge[k][d] \in Live
        PROVE  j = k
    <3>1. j # i /\ k # i
      BY <2>2, <2>4 DEF Live
    <3>2. j \in 1 .. Len(plans) /\ k \in 1 .. Len(plans)
      BY <2>1, <3>1
    <3>3. ~plans[j] /\ ~plans[k]
      BY <1>3, <2>4, <3>2
    <3> QED BY <2>1, <2>4, <3>2, <3>3 DEF RowsOnce
  <2>5. (\A j \in Plan : j > Len(plans) => \A d \in Day : nudge[j][d] = "none")'
    <3>1. ASSUME NEW j \in Plan, j > i
          PROVE  j > Len(plans)
      BY <2>1, <3>1, PlanNumbers
    <3> QED BY <1>1, <1>3, <2>1, <3>1 DEF RowsOnce
  <2>6. (\A j \in Plan : invitation[j] \in {"invited", "ended"} => WasSent(j))'
    BY <1>1, <1>7, <2>1 DEF RowsOnce, WasSent
  <2> QED BY <1>1, <1>3, <2>3, <2>4, <2>5, <2>6 DEF RowsOnce
<1>11. ASSUME NEW x \in Actor
       PROVE  Carries(x)' /\ MaySend(x)'
  <2>1. CASE x = a
    <3>1. q.id <= Len(plans') /\ plans'[q.id] = q.new
      BY <1>1, <1>3 DEF NudgeTypes
    <3>2. Made(q)'
      BY <3>1 DEF Made
    <3> HIDE DEF c
    <3> QED BY <1>6, <2>1, <3>2 DEF Carries, MaySend, Made, Outcome
  <2>2. CASE x # a
    <3>1. nudger'[x] = nudger[x] /\ Carries(x) /\ MaySend(x)
      BY <1>6, <2>2 DEF NudgerAt, NudgeInv
    <3>2. nudger[x].patch \in Candidate /\ nudger[x].cand \in Candidate
      BY <1>1 DEF NudgeTypes, NudgerRow
    <3>3. (Made(nudger[x].patch) => Made(nudger[x].patch)') /\ (Made(nudger[x].cand) => Made(nudger[x].cand)')
      BY <1>3, <3>1, <3>2 DEF Made
    <3>4. Carries(x)'
      BY <1>1, <3>1, <3>3 DEF Carries, WasSent
    <3>5. MaySend(x)'
      BY <1>1, <3>1 DEF MaySend, NeverLive, QuietDay
    <3> QED BY <3>4, <3>5
  <2> QED BY <2>1, <2>2
<1> HIDE DEF c
<1> QED BY <1>8, <1>9, <1>10, <1>11 DEF NudgeInv

LEMMA OutsideWindowKeeps ==
    ASSUME NudgeInv, NEW a \in Actor, OutsideWindow(a)
    PROVE  NudgeInv'
<1>1. Clear(a) /\ UNCHANGED <<stored, invitation, nudge, clock, said, plans>>
  BY DEF OutsideWindow
<1> QED BY <1>1, InvitationsStand, ClearKeeps

\* A process that goes on with its candidate.
LEMMA GoesOnWith ==
    ASSUME NudgeInv, NEW a \in Actor, NEW pc \in {"claim", "send"}, Turn(a, pc),
           nudger[a].pc \in {"check", "claim"},
           a \in Planner => NeverLive(nudger[a].cand.id) /\ (nudger[a].cand.new \/ QuietDay(nudger[a].day)),
           UNCHANGED <<stored, nudge, clock, said, plans>>,
           invitation' \in [Plan -> {"none", "candidate", "sending", "invited", "ended"}],
           \A i \in Plan : invitation'[i] \in {"invited", "ended"} => WasSent(i)
    PROVE  NudgeInv'
<1>1. /\ NudgerAt(a) /\ nudger'[a].pc = pc /\ nudger'[a].cand = nudger[a].cand
      /\ nudger'[a].patch = nudger[a].patch /\ nudger'[a].day = nudger[a].day
  BY TurnMoves DEF NudgeInv
<1>2. Carries(a) /\ stored' \in Candidate /\ Made(stored')
  BY DEF NudgeInv, NudgeTypes
<1>3. Carries(a)'
  BY <1>1, <1>2 DEF Carries, Made, Outcome
<1>4. MaySend(a)'
  BY <1>1 DEF MaySend, NeverLive, QuietDay
<1> QED BY <1>1, <1>2, <1>3, <1>4, NudgerStep

LEMMA RecheckKeeps ==
    ASSUME NudgeInv, NEW a \in Actor, Recheck(a)
    PROVE  NudgeInv'
<1>1. nudger[a].pc = "check" /\ UNCHANGED <<stored, invitation, nudge, clock, said, plans>>
      /\ Carries(a) /\ NudgeTypes
  BY DEF NudgeInv, Recheck
<1>2. Made(nudger[a].cand) /\ nudger[a].cand.id \in Plan /\ nudger[a].day \in Day
  BY <1>1 DEF Carries
<1>3. CASE Clear(a)
  BY <1>1, <1>3, InvitationsStand, ClearKeeps
<1>4. CASE MoveOrClear(a)
  BY <1>1, <1>2, <1>4, InvitationsStand, MoveOrClearKeeps
<1>5. ASSUME ~SentToday(a), ~Repeats(nudger[a].cand),
             Turn(a, IF nudger[a].cand.kind = "invite" THEN "claim" ELSE "send")
      PROVE  NudgeInv'
  <2>1. PICK pc \in {"claim", "send"} : pc = IF nudger[a].cand.kind = "invite" THEN "claim" ELSE "send"
    OBVIOUS
  <2>2. NeverLive(nudger[a].cand.id)
    BY <1>5 DEF Repeats, NeverLive, Day
  <2>3. nudger[a].cand.new \/ QuietDay(nudger[a].day)
    BY <1>5 DEF SentToday, QuietDay
  <2>4. Turn(a, pc)
    BY <1>5, <2>1
  <2> QED BY <1>1, <2>2, <2>3, <2>4, InvitationsStand, GoesOnWith
<1> QED BY <1>3, <1>4, <1>5 DEF Recheck

LEMMA UnreachableKeeps ==
    ASSUME NudgeInv, NEW a \in Actor, Unreachable(a)
    PROVE  NudgeInv'
<1>1. UNCHANGED <<stored, invitation, nudge, clock, said, plans>>
  BY DEF Unreachable
<1>2. CASE Finish(a)
  <2>1. stored' \in Candidate /\ Made(stored')
    BY <1>1 DEF NudgeInv, NudgeTypes
  <2> QED BY <1>1, <1>2, <2>1, InvitationsStand, FinishKeeps
<1>3. ASSUME Patch(a, NoCandidate, IF a \in Request THEN "recall" ELSE "idle")
      PROVE  NudgeInv'
  <2>1. PICK pc \in {"idle", "window", "recall"} : pc = IF a \in Request THEN "recall" ELSE "idle"
    OBVIOUS
  <2>2. Patch(a, NoCandidate, pc) /\ Made(NoCandidate) /\ NoCandidate \in Candidate
    BY <1>3, <2>1, NoneIsMade, NothingMade DEF NudgeInv
  <2> QED BY <1>1, <2>2, InvitationsStand, PatchKeeps
<1> QED BY <1>2, <1>3 DEF Unreachable

LEMMA ClaimInvitationKeeps ==
    ASSUME NudgeInv, NEW a \in Actor, ClaimInvitation(a)
    PROVE  NudgeInv'
<1>1. nudger[a].pc = "claim" /\ a \in Planner /\ UNCHANGED <<stored, nudge, clock, said, plans>>
      /\ NudgeTypes /\ RowsOnce /\ Carries(a) /\ MaySend(a)
  BY DEF NudgeInv, ClaimInvitation
<1> PICK i \in Plan : i = nudger[a].cand.id
  BY <1>1 DEF Carries
<1>2. ASSUME invitation' = [invitation EXCEPT ![i] = "sending"], Turn(a, "send")
      PROVE  NudgeInv'
  <2>1. invitation' \in [Plan -> {"none", "candidate", "sending", "invited", "ended"}]
        /\ \A j \in Plan : invitation'[j] \in {"invited", "ended"} => WasSent(j)
    BY <1>1, <1>2 DEF NudgeTypes, RowsOnce
  <2>2. NeverLive(nudger[a].cand.id) /\ (nudger[a].cand.new \/ QuietDay(nudger[a].day))
    BY <1>1 DEF MaySend
  <2> QED BY <1>1, <1>2, <2>1, <2>2, GoesOnWith
<1>3. ASSUME Clear(a), UNCHANGED invitation
      PROVE  NudgeInv'
  BY <1>1, <1>3, InvitationsStand, ClearKeeps
<1> QED BY <1>2, <1>3 DEF ClaimInvitation

RowIs(i, d, outcome) == nudge' = [nudge EXCEPT ![i][d] = outcome]

LEMMA OneRowMoves ==
    ASSUME NudgeTypes, NEW i \in Plan, NEW d \in Day, NEW outcome \in Outcome, RowIs(i, d, outcome)
    PROVE  /\ nudge' \in [Plan -> [Day -> {"none"} \cup Outcome]] /\ nudge'[i][d] = outcome
           /\ \A j \in Plan, e \in Day : j # i \/ e # d => nudge'[j][e] = nudge[j][e]
<1>1. PICK f \in [Day -> {"none"} \cup Outcome] : f = nudge[i]
  BY DEF NudgeTypes
<1>2. nudge' = [nudge EXCEPT ![i] = [f EXCEPT ![d] = outcome]]
  BY <1>1 DEF NudgeTypes, RowIs
<1>3. PICK g \in [Day -> {"none"} \cup Outcome] : g = [f EXCEPT ![d] = outcome]
  OBVIOUS
<1>4. nudge' \in [Plan -> [Day -> {"none"} \cup Outcome]] /\ nudge'[i] = g
      /\ \A j \in Plan : j # i => nudge'[j] = nudge[j]
  BY <1>2, <1>3 DEF NudgeTypes
<1>5. g[d] = outcome /\ \A e \in Day : e # d => g[e] = f[e]
  BY <1>3
<1> QED BY <1>1, <1>4, <1>5

LEMMA SendKeeps ==
    ASSUME NudgeInv, NEW a \in Actor, Send(a)
    PROVE  NudgeInv'
<1>1. /\ nudger[a].pc = "send" /\ a \in Planner /\ UNCHANGED <<stored, invitation, clock, said, plans>>
      /\ NudgeTypes /\ RowsOnce /\ Carries(a) /\ MaySend(a)
  BY DEF NudgeInv, Send
<1>2. Made(nudger[a].cand) /\ nudger[a].cand.id \in Plan /\ nudger[a].day \in Day
  BY <1>1 DEF Carries
<1>c. PICK c \in Candidate : c = nudger[a].cand
  BY <1>1 DEF NudgeTypes, NudgerRow
<1>i. PICK i \in Plan : i = c.id
  BY <1>2, <1>c
<1>d. PICK d \in Day : d = nudger[a].day
  BY <1>2
<1>3. NeverLive(i) /\ (c.new \/ QuietDay(d))
  BY <1>1, <1>c, <1>i, <1>d DEF MaySend
<1>4. PICK outcome \in Outcome : /\ RowIs(i, d, outcome) /\ Turn(a, outcome)
                                 /\ nudge[i][d] \in {"none", outcome}
  <2>1. nudge[i][d] \in {"none"} \cup Outcome
    BY <1>1 DEF NudgeTypes
  <2>2. PICK outcome \in IF nudge[i][d] = "none" THEN Outcome ELSE {nudge[i][d]} :
            RowIs(i, d, outcome) /\ Turn(a, outcome)
    BY <1>c, <1>i, <1>d DEF Send, Outcome, RowIs, Turn
  <2>3. CASE nudge[i][d] = "none"
    BY <2>2, <2>3
  <2>4. CASE nudge[i][d] # "none"
    BY <2>1, <2>2, <2>4
  <2> QED BY <2>3, <2>4
<1>5. /\ nudge' \in [Plan -> [Day -> {"none"} \cup Outcome]] /\ nudge'[i][d] = outcome
      /\ \A j \in Plan, e \in Day : j # i \/ e # d => nudge'[j][e] = nudge[j][e]
  BY <1>1, <1>4, OneRowMoves
<1> USE <1>c, <1>i, <1>d
<1>6. /\ NudgerAt(a) /\ nudger'[a].pc = outcome /\ nudger'[a].cand = c /\ nudger'[a].patch = nudger[a].patch
  BY <1>1, <1>4, TurnMoves
<1>7. NudgeTypes'
  BY <1>1, <1>5, <1>6 DEF NudgeTypes, NudgerAt
<1>8. \A j \in Plan : WasSent(j) => WasSent(j)'
  <2> SUFFICES ASSUME NEW j \in Plan, NEW e \in Day, nudge[j][e] = "sent"
               PROVE  nudge'[j][e] = "sent"
    BY DEF WasSent
  <2> QED BY <1>4, <1>5
<1>9. RowsOnce'
  <2>1. ASSUME NEW j \in Plan, NEW e \in Day, NEW k \in Day, nudge'[j][e] \in Live, nudge'[j][k] \in Live
        PROVE  e = k
    <3>1. CASE j = i
      BY <1>3, <1>5, <2>1, <3>1 DEF NeverLive
    <3>2. CASE j # i
      BY <1>1, <1>5, <2>1, <3>2 DEF RowsOnce
    <3> QED BY <3>1, <3>2
  <2>2. ASSUME NEW e \in Day, NEW j \in 1 .. Len(plans), NEW k \in 1 .. Len(plans), ~plans[j], ~plans[k],
               nudge'[j][e] \in Live, nudge'[k][e] \in Live
        PROVE  j = k
    <3>1. j \in Plan /\ k \in Plan
      <4>1. Len(plans) \in Nat /\ Len(plans) <= MaxPlans
        BY <1>1 DEF NudgeTypes
      <4> QED BY <4>1, ReactivationBounds DEF Plan
    <3>2. ASSUME e = d, j = i \/ k = i
          PROVE  QuietDay(d)
      <4>1. i # 0 /\ plans[i] = c.new
        BY <1>2, PlanNumbers DEF Made
      <4> QED BY <1>3, <2>2, <3>2, <4>1
    <3>3. CASE e = d /\ (j = i \/ k = i)
      BY <1>5, <2>2, <3>1, <3>2, <3>3 DEF QuietDay
    <3>4. CASE ~(e = d /\ (j = i \/ k = i))
      BY <1>1, <1>5, <2>2, <3>1, <3>4 DEF RowsOnce
    <3> QED BY <3>3, <3>4
  <2>3. ASSUME NEW j \in Plan, j > Len(plans), NEW e \in Day
        PROVE  nudge'[j][e] = "none"
    <3>1. i <= Len(plans) /\ Len(plans) \in Nat
      BY <1>1, <1>2 DEF Made, NudgeTypes
    <3>2. j # i
      BY <2>3, <3>1, PlanNumbers
    <3> QED BY <1>1, <1>5, <2>3, <3>2 DEF RowsOnce
  <2>4. \A j \in Plan : invitation[j] \in {"invited", "ended"} => WasSent(j)'
    BY <1>1, <1>8 DEF RowsOnce
  <2>5. (\A j \in Plan : invitation[j] \in {"invited", "ended"} => WasSent(j))'
    BY <1>1, <2>4
  <2> QED BY <1>1, <2>1, <2>2, <2>3, <2>5 DEF RowsOnce
<1>10. ASSUME NEW x \in Actor
       PROVE  Carries(x)' /\ MaySend(x)'
  <2>0. Carries(x) /\ MaySend(x)
    BY DEF NudgeInv
  <2>1. CASE x = a
    <3>1. outcome = "sent" => WasSent(i)'
      BY <1>5 DEF WasSent
    <3> PICK p \in Candidate : p = nudger[a].patch
      BY <1>1 DEF NudgeTypes, NudgerRow
    <3>2. Made(c)' /\ Made(p)'
      BY <1>1, <1>2, <2>0, <2>1 DEF Carries, Made
    <3>3. Carries(a)'
      BY <1>6, <3>1, <3>2 DEF Carries, Made, Outcome, WasSent
    <3>4. MaySend(a)'
      BY <1>6 DEF MaySend, Outcome
    <3> QED BY <2>1, <3>3, <3>4
  <2>2. CASE x # a
    <3>1. nudger'[x] = nudger[x] /\ x \notin Planner
      BY <1>1, <1>6, <2>2, OneScheduler DEF NudgerAt
    <3> PICK r \in NudgerRow : r = nudger[x]
      BY <1>1 DEF NudgeTypes
    <3>2. r.pc = "sent" => WasSent(r.cand.id)'
      BY <1>8, <2>0 DEF Carries, Outcome
    <3>3. Carries(x)'
      BY <1>1, <2>0, <3>1, <3>2 DEF Carries, Made, WasSent
    <3>4. MaySend(x)'
      BY <3>1 DEF MaySend
    <3> QED BY <3>3, <3>4
  <2> QED BY <2>1, <2>2
<1>11. Made(stored)'
  BY <1>1 DEF NudgeInv, Made
<1> QED BY <1>7, <1>9, <1>10, <1>11 DEF NudgeInv

LEMMA SettleKeeps ==
    ASSUME NudgeInv, NEW a \in Actor, Settle(a)
    PROVE  NudgeInv'
<1>1. /\ nudger[a].pc \in Outcome /\ UNCHANGED <<stored, nudge, clock, said, plans>>
      /\ invitation' = InvitationAfter(a) /\ NudgeTypes /\ RowsOnce /\ Carries(a)
  BY DEF NudgeInv, Settle, Outcome
<1> PICK i \in Plan : i = nudger[a].cand.id
  BY <1>1 DEF Carries
<1>2. nudger[a].pc = "sent" => WasSent(i)
  BY <1>1 DEF Carries
<1>3. invitation' \in [Plan -> {"none", "candidate", "sending", "invited", "ended"}]
      /\ \A j \in Plan : invitation'[j] \in {"invited", "ended"} => WasSent(j)
  <2>1. invitation \in [Plan -> {"none", "candidate", "sending", "invited", "ended"}]
        /\ \A j \in Plan : invitation[j] \in {"invited", "ended"} => WasSent(j)
    BY <1>1 DEF NudgeTypes, RowsOnce
  <2>2. \/ invitation' = invitation
        \/ Invited(a) /\ invitation' = [invitation EXCEPT ![i] = "invited"]
        \/ invitation' = [invitation EXCEPT ![i] = "candidate"]
    BY <1>1 DEF InvitationAfter
  <2>3. CASE invitation' = invitation
    BY <2>1, <2>3
  <2>4. CASE Invited(a) /\ invitation' = [invitation EXCEPT ![i] = "invited"]
    BY <1>2, <2>1, <2>4 DEF Invited
  <2>5. CASE invitation' = [invitation EXCEPT ![i] = "candidate"]
    BY <2>1, <2>5
  <2> QED BY <2>2, <2>3, <2>4, <2>5
<1>4. CASE Clear(a)
  BY <1>1, <1>3, <1>4, ClearKeeps
<1>5. CASE Finish(a)
  <2>1. stored' \in Candidate /\ Made(stored')
    BY <1>1 DEF NudgeInv, NudgeTypes
  <2> QED BY <1>1, <1>3, <1>5, <2>1, FinishKeeps
<1>6. ASSUME a \notin Request, MoveOrClear(a)
      PROVE  NudgeInv'
  <2>1. Made(nudger[a].cand)
    BY <1>1, <1>6 DEF Carries
  <2> QED BY <1>1, <1>3, <1>6, <2>1, MoveOrClearKeeps
<1>7. Clear(a) \/ Finish(a) \/ (a \notin Request /\ MoveOrClear(a))
  <2>1. CASE nudger[a].pc = "sent"
    BY <2>1 DEF Settle
  <2>2. CASE nudger[a].pc = "pending"
    BY <2>2 DEF Settle
  <2>3. CASE nudger[a].pc = "failed"
    BY <2>3 DEF Settle
  <2> QED BY <1>1, <2>1, <2>2, <2>3 DEF Outcome
<1> QED BY <1>4, <1>5, <1>6, <1>7

\* What Report does with the process of the node.
LEMMA ReportMoves ==
    ASSUME NudgeTypes, NEW n \in Actor, NEW i \in Plan, NEW outcome \in Outcome,
           nudger' = [nudger EXCEPT ![n].pc = outcome, ![n].cand.id = i]
    PROVE  NudgerAt(n) /\ nudger'[n].pc = outcome /\ nudger'[n].cand.id = i /\ nudger'[n].patch = nudger[n].patch
<1>1. PICK r \in NudgerRow : r = nudger[n]
  BY DEF NudgeTypes
<1>2. PICK c \in Candidate : c = r.cand
  BY DEF NudgerRow
<1>i. i \in Nat
  BY PlanNumbers
<1>3. [c EXCEPT !.id = i] \in Candidate
  BY <1>i DEF Candidate
<1>4. PICK m \in Candidate : m = [c EXCEPT !.id = i]
  BY <1>3
<1>5. m.id = i
  BY <1>4 DEF Candidate
<1>6. [r EXCEPT !.pc = outcome, !.cand = m] \in NudgerRow
  BY DEF NudgerRow
<1>7. PICK q \in NudgerRow : q = [r EXCEPT !.pc = outcome, !.cand = m]
  BY <1>6
<1>8. q.pc = outcome /\ q.cand = m /\ q.patch = r.patch
  BY <1>7 DEF NudgerRow
<1>9. [r EXCEPT !.pc = outcome, !.cand.id = i] = q
  BY <1>2, <1>4, <1>7 DEF NudgerRow
<1>10. nudger' = [nudger EXCEPT ![n] = q]
  BY <1>1, <1>9 DEF NudgeTypes
<1>11. nudger'[n] = q /\ NudgerAt(n)
  <2>1. nudger \in [Actor -> NudgerRow]
    BY DEF NudgeTypes
  <2>2. nudger' \in [Actor -> NudgerRow] /\ nudger'[n] = q /\ \A x \in Actor \ {n} : nudger'[x] = nudger[x]
    BY <1>10, <2>1
  <2> QED BY <2>2 DEF NudgerAt
<1> QED BY <1>1, <1>5, <1>8, <1>11

LEMMA ReportKeeps ==
    ASSUME NudgeInv, NEW n \in Request, Report(n)
    PROVE  NudgeInv'
<1>1. /\ nudger[n].pc = "idle" /\ n \in Actor /\ UNCHANGED <<stored, invitation, clock, said, plans>>
      /\ NudgeTypes /\ RowsOnce
  BY DEF NudgeInv, Report, Actor
<1>2. PICK i \in Plan, d \in Day, outcome \in {"sent", "failed"} :
           /\ nudge[i][d] = "pending"
           /\ RowIs(i, d, outcome)
           /\ IF invitation[i] = "none" THEN UNCHANGED nudger
              ELSE nudger' = [nudger EXCEPT ![n].pc = outcome, ![n].cand.id = i]
  BY DEF Report, Day, RowIs
<1>o. outcome \in Outcome
  BY DEF Outcome
<1>3. /\ nudge' \in [Plan -> [Day -> {"none"} \cup Outcome]] /\ nudge'[i][d] = outcome
      /\ \A j \in Plan, e \in Day : j # i \/ e # d => nudge'[j][e] = nudge[j][e]
  BY <1>1, <1>2, <1>o, OneRowMoves
<1>4. \A j \in Plan, e \in Day : (nudge'[j][e] \in Live => nudge[j][e] \in Live)
                                 /\ (nudge[j][e] = "sent" => nudge'[j][e] = "sent")
                                 /\ (nudge[j][e] = "none" => nudge'[j][e] = "none")
  BY <1>2, <1>3 DEF Live
<1>5. nudger' \in [Actor -> NudgerRow] /\ \A x \in Actor : x # n => nudger'[x] = nudger[x]
  BY <1>1, <1>2, <1>o, ReportMoves DEF NudgeTypes, NudgerAt
<1>6. NudgeTypes'
  BY <1>1, <1>3, <1>5 DEF NudgeTypes
<1>7. \A j \in Plan : WasSent(j) => WasSent(j)'
  BY <1>4 DEF WasSent
<1>8. \A j \in Plan : NeverLive(j) => NeverLive(j)'
  BY <1>4 DEF NeverLive
<1>9. \A e \in Day : QuietDay(e) => QuietDay(e)'
  BY <1>4 DEF QuietDay
<1>10. RowsOnce'
  <2>1. \A j \in 1 .. Len(plans) : j \in Plan
    <3>1. Len(plans) \in Nat /\ Len(plans) <= MaxPlans
      BY <1>1 DEF NudgeTypes
    <3> QED BY <3>1, ReactivationBounds DEF Plan
  <2>2. \A j \in Plan : \A e, k \in Day : nudge'[j][e] \in Live /\ nudge'[j][k] \in Live => e = k
    BY <1>1, <1>4 DEF RowsOnce
  <2>3. \A e \in Day : \A j, k \in 1 .. Len(plans) :
            ~plans[j] /\ ~plans[k] /\ nudge'[j][e] \in Live /\ nudge'[k][e] \in Live => j = k
    BY <1>1, <1>4, <2>1 DEF RowsOnce
  <2>4. \A j \in Plan : j > Len(plans) => \A e \in Day : nudge'[j][e] = "none"
    BY <1>1, <1>4 DEF RowsOnce
  <2>5. \A j \in Plan : invitation[j] \in {"invited", "ended"} => WasSent(j)'
    BY <1>1, <1>7 DEF RowsOnce
  <2>6. (\A j \in Plan : invitation[j] \in {"invited", "ended"} => WasSent(j))'
    BY <1>1, <2>5
  <2> QED BY <1>1, <2>2, <2>3, <2>4, <2>6 DEF RowsOnce
<1>11. ASSUME NEW x \in Actor, nudger'[x] = nudger[x]
       PROVE  Carries(x)' /\ MaySend(x)'
  <2>0. Carries(x) /\ MaySend(x)
    BY DEF NudgeInv
  <2> PICK r \in NudgerRow : r = nudger[x]
    BY <1>1 DEF NudgeTypes
  <2>2. r.pc = "sent" => WasSent(r.cand.id)'
    BY <1>7, <2>0 DEF Carries, Outcome
  <2>3. Carries(x)'
    BY <1>1, <1>11, <2>0, <2>2 DEF Carries, Made, WasSent
  <2>4. x \in Planner /\ r.pc \in {"claim", "send"} =>
            NeverLive(r.cand.id)' /\ (r.cand.new \/ QuietDay(r.day)')
    BY <1>8, <1>9, <2>0 DEF MaySend, Carries
  <2>5. MaySend(x)'
    BY <1>11, <2>4 DEF MaySend, NeverLive, QuietDay
  <2> QED BY <2>3, <2>5
<1>12. Carries(n)' /\ MaySend(n)'
  <2>1. CASE invitation[i] = "none"
    BY <1>1, <1>2, <1>11, <2>1
  <2>2. CASE invitation[i] # "none"
    <3>1. nudger'[n].pc = outcome /\ nudger'[n].cand.id = i /\ nudger'[n].patch = nudger[n].patch
      BY <1>1, <1>2, <1>o, <2>2, ReportMoves
    <3>2. Made(nudger[n].patch)
      BY <1>1 DEF NudgeInv, Carries
    <3>3. outcome = "sent" => WasSent(i)'
      BY <1>3 DEF WasSent
    <3>4. Carries(n)'
      BY <1>1, <3>1, <3>2, <3>3 DEF Carries, Made, WasSent, Outcome
    <3>5. MaySend(n)'
      BY <3>1 DEF MaySend
    <3> QED BY <3>4, <3>5
  <2> QED BY <2>1, <2>2
<1>13. Made(stored)'
  BY <1>1 DEF NudgeInv, Made
<1>14. ASSUME NEW x \in Actor
       PROVE  Carries(x)' /\ MaySend(x)'
  <2>1. CASE x = n
    BY <1>12, <2>1
  <2>2. CASE x # n
    BY <1>5, <1>11, <2>2
  <2> QED BY <2>1, <2>2
<1> QED BY <1>6, <1>10, <1>13, <1>14 DEF NudgeInv

\* The steps of the person and of the clock.
LEMMA OutsideKeeps ==
    ASSUME NudgeInv, Speak \/ EndInvitation \/ TimePasses
    PROVE  NudgeInv'
<1>1. NudgeTypes /\ RowsOnce /\ Made(stored) /\ UNCHANGED <<stored, nudge, plans, nudger>>
  BY DEF NudgeInv, Speak, EndInvitation, TimePasses
<1>2. clock' \in [day : Day, slot : Nat] /\ said' \in Nat
  <2>1. clock \in [day : Day, slot : Nat] /\ said \in Nat /\ clock.day \in Day /\ clock.slot \in Nat
    BY <1>1 DEF NudgeTypes
  <2>2. CASE Speak \/ EndInvitation
    BY <2>1, <2>2 DEF Speak, EndInvitation
  <2>3. CASE clock.slot < LastSlot /\ clock' = [clock EXCEPT !.slot = @ + 1] /\ said' = said
    BY <2>1, <2>3
  <2>4. CASE clock.day < MaxDays /\ clock' = [day |-> clock.day + 1, slot |-> 0] /\ said' = said
    <3>1. clock.day + 1 \in Day
      BY <2>1, <2>4, ReactivationBounds DEF Day
    <3> QED BY <2>1, <2>4, <3>1
  <2>5. TimePasses =>
            \/ clock.slot < LastSlot /\ clock' = [clock EXCEPT !.slot = @ + 1] /\ said' = said
            \/ clock.day < MaxDays /\ clock' = [day |-> clock.day + 1, slot |-> 0] /\ said' = said
    BY DEF TimePasses
  <2> QED BY <2>2, <2>3, <2>4, <2>5
<1>3. invitation' \in [Plan -> {"none", "candidate", "sending", "invited", "ended"}]
      /\ \A i \in Plan : invitation'[i] \in {"invited", "ended"} => invitation[i] \in {"invited", "ended"}
  BY <1>1 DEF NudgeTypes, Speak, EndInvitation, TimePasses
<1>4. NudgeTypes'
  BY <1>1, <1>2, <1>3 DEF NudgeTypes
<1>5. RowsOnce'
  BY <1>1, <1>3 DEF RowsOnce, WasSent
<1>6. Made(stored)'
  BY <1>1 DEF Made
<1>7. ASSUME NEW x \in Actor
      PROVE  Carries(x)' /\ MaySend(x)'
  <2>1. Carries(x) /\ MaySend(x)
    BY DEF NudgeInv
  <2>2. Carries(x)'
    BY <1>1, <2>1 DEF Carries, Made, WasSent
  <2>3. MaySend(x)'
    BY <1>1, <2>1 DEF MaySend, NeverLive, QuietDay
  <2> QED BY <2>2, <2>3
<1> QED BY <1>4, <1>5, <1>6, <1>7 DEF NudgeInv

LEMMA ReactivationNextKeeps ==
    ASSUME NudgeInv, ReactivationNext
    PROVE  NudgeInv'
<1>1. ASSUME NEW a \in Actor, WritePatch(a)
      PROVE  NudgeInv'
  BY <1>1, WritePatchKeeps
<1>2. ASSUME NEW a \in Actor, AskForTopic(a) \/ AskForInvitation(a) \/ AskForHotTopic(a)
      PROVE  NudgeInv'
  <2>1. Ask(a, "talk") \/ Ask(a, "invite")
    BY <1>2 DEF AskForTopic, AskForInvitation, AskForHotTopic
  <2> QED BY <2>1, AskKeeps
<1>3. ASSUME NEW a \in Actor, NothingToSay(a) \/ Breaks(a)
      PROVE  NudgeInv'
  BY <1>3, StopsKeeps
<1>4. ASSUME NEW a \in Actor, Generate(a)
      PROVE  NudgeInv'
  BY <1>4, GenerateKeeps
<1>5. ASSUME NEW a \in Actor, OutsideWindow(a)
      PROVE  NudgeInv'
  BY <1>5, OutsideWindowKeeps
<1>6. ASSUME NEW a \in Actor, Recheck(a)
      PROVE  NudgeInv'
  BY <1>6, RecheckKeeps
<1>7. ASSUME NEW a \in Actor, Unreachable(a)
      PROVE  NudgeInv'
  BY <1>7, UnreachableKeeps
<1>8. ASSUME NEW a \in Actor, ClaimInvitation(a)
      PROVE  NudgeInv'
  BY <1>8, ClaimInvitationKeeps
<1>9. ASSUME NEW a \in Actor, Send(a)
      PROVE  NudgeInv'
  BY <1>9, SendKeeps
<1>10. ASSUME NEW a \in Actor, Settle(a)
       PROVE  NudgeInv'
  BY <1>10, SettleKeeps
<1>11. ASSUME NEW a \in Planner, StartPlanning(a) \/ TakeDue(a)
       PROVE  NudgeInv'
  <2>1. a \in Actor
    BY DEF Actor
  <2> QED BY <1>11, <2>1, RecallKeeps, DueTaken DEF StartPlanning, TakeDue
<1>12. ASSUME NEW o \in Request, RunOnce(o)
       PROVE  NudgeInv'
  <2>1. o \in Actor
    BY DEF Actor
  <2> QED BY <1>12, <2>1, RecallKeeps, DueTaken DEF RunOnce
<1>13. ASSUME NEW o \in Request, ReadForEdit(o) \/ EditState(o) \/ Report(o)
       PROVE  NudgeInv'
  BY <1>13, ReadForEditKeeps, EditStateKeeps, ReportKeeps
<1>14. ASSUME Speak \/ AnswerInvitation \/ ExpireInvitation \/ TimePasses
       PROVE  NudgeInv'
  BY <1>14, OutsideKeeps DEF AnswerInvitation, ExpireInvitation
<1> QED BY <1>1, <1>2, <1>3, <1>4, <1>5, <1>6, <1>7, <1>8, <1>9, <1>10, <1>11, <1>12, <1>13, <1>14
        DEF ReactivationNext

LEMMA NudgesBegin ==
    ASSUME ReactivationInit
    PROVE  NudgeInv
<1>1. stored = NoCandidate /\ invitation = [i \in Plan |-> "none"]
      /\ nudge = [i \in Plan |-> [d \in Day |-> "none"]] /\ clock = [day |-> 1, slot |-> 1]
      /\ said = 0 /\ plans = <<>> /\ nudger = [a \in Actor |-> Resting]
  BY DEF ReactivationInit, Day
<1>2. plans \in Seq(BOOLEAN) /\ Len(plans) = 0
  BY <1>1
<1>3. NudgeTypes
  <2>1. 1 \in Day
    BY ReactivationBounds DEF Day
  <2>2. Len(plans) <= MaxPlans
    BY <1>2, ReactivationBounds
  <2>3. nudge \in [Plan -> [Day -> {"none"} \cup Outcome]]
    BY <1>1
  <2> QED BY <1>1, <1>2, <2>1, <2>2, <2>3, NothingMade DEF NudgeTypes
<1>4. Made(NoCandidate)
  BY <1>3, NoneIsMade
<1>5. RowsOnce
  BY <1>1 DEF RowsOnce, Live
<1>6. ASSUME NEW a \in Actor
      PROVE  Carries(a) /\ MaySend(a)
  <2>1. nudger[a].pc = "idle" /\ nudger[a].patch = NoCandidate
    BY <1>1, NothingMade
  <2> QED BY <1>4, <2>1 DEF Carries, MaySend, Outcome
<1> QED BY <1>1, <1>3, <1>4, <1>5, <1>6 DEF NudgeInv

LEMMA AtMostOne ==
    ASSUME NEW S, \A x, y \in S : x = y
    PROVE  Cardinality(S) <= 1
<1>1. CASE S = {}
  BY <1>1, FS_EmptySet
<1>2. CASE S # {}
  <2>1. PICK x \in S : S = {x}
    BY <1>2
  <2>2. Cardinality({x}) = 1
    BY FS_Singleton
  <2> QED BY <2>1, <2>2
<1> QED BY <1>1, <1>2

LEMMA NudgeInvIsEnough ==
    ASSUME NudgeInv
    PROVE  NudgesAreSound
<1>1. NudgeTypes /\ RowsOnce /\ Made(stored)
  BY DEF NudgeInv
<1>2. Len(plans) \in Nat /\ Len(plans) <= MaxPlans
  BY <1>1 DEF NudgeTypes
<1>3. ReactivationTypeOK
  <2>1. stored.id \in Nat /\ stored.id <= Len(plans)
    BY <1>1 DEF NudgeTypes, Candidate, Made
  <2>2. stored.id \in 0 .. MaxPlans
    BY <1>2, <2>1, ReactivationBounds
  <2>3. ASSUME NEW i \in Plan
        PROVE  invitation[i] \in {"none", "candidate", "sending", "invited", "ended"}
    BY <1>1 DEF NudgeTypes
  <2>4. ASSUME NEW i \in Plan, NEW d \in Day
        PROVE  nudge[i][d] \in {"none", "pending", "sent", "failed"}
    <3>1. nudge[i][d] \in {"none"} \cup Outcome
      BY <1>1 DEF NudgeTypes
    <3> QED BY <3>1 DEF Outcome
  <2> QED BY <2>2, <2>3, <2>4 DEF ReactivationTypeOK, Day
<1>4. NudgedOnce
  <2>1. ASSUME NEW i \in Plan
        PROVE  Cardinality({d \in 1 .. MaxDays : nudge[i][d] \in Live}) <= 1
    <3>1. \A d, e \in {d \in 1 .. MaxDays : nudge[i][d] \in Live} : d = e
      BY <1>1 DEF RowsOnce, Day
    <3> QED BY <3>1, AtMostOne
  <2>2. ASSUME NEW d \in 1 .. MaxDays
        PROVE  Cardinality({i \in 1 .. Len(plans) : ~plans[i] /\ nudge[i][d] \in Live}) <= 1
    <3>1. \A i, j \in {i \in 1 .. Len(plans) : ~plans[i] /\ nudge[i][d] \in Live} : i = j
      BY <1>1 DEF RowsOnce, Day
    <3> QED BY <3>1, AtMostOne
  <2> QED BY <2>1, <2>2 DEF NudgedOnce
<1>5. InvitedIsSent
  BY <1>1 DEF RowsOnce, WasSent, Day, InvitedIsSent
<1> QED BY <1>3, <1>4, <1>5 DEF NudgesAreSound

\* A text goes out once and a person gets one ordinary nudge a day at most,
\* whatever candidate an operator's edit or a late write puts back into the
\* row of the account, and an invitation that can be answered has reached the
\* person (planning.py, dispatch.py, store.py).
THEOREM NudgesStaySound == ReactivationSpec => []NudgesAreSound
<1>1. ReactivationInit => NudgeInv
  BY NudgesBegin
<1>2. NudgeInv /\ [ReactivationNext]_reactivationVars => NudgeInv'
  <2>1. CASE ReactivationNext
    BY <2>1, ReactivationNextKeeps
  <2>2. ASSUME NudgeInv, UNCHANGED reactivationVars
        PROVE  NudgeInv'
    <3>1. UNCHANGED <<stored, invitation, nudge, clock, said, plans, nudger>>
      BY <2>2 DEF reactivationVars
    <3>2. NudgeTypes' /\ Made(stored)'
      BY <2>2, <3>1 DEF NudgeInv, NudgeTypes, Made
    <3>3. RowsOnce'
      BY <2>2, <3>1 DEF NudgeInv, RowsOnce, WasSent
    <3>4. ASSUME NEW a \in Actor
          PROVE  Carries(a)' /\ MaySend(a)'
      <4>1. Carries(a) /\ MaySend(a)
        BY <2>2 DEF NudgeInv
      <4>2. Carries(a)'
        BY <3>1, <4>1 DEF Carries, Made, WasSent
      <4>3. MaySend(a)'
        BY <3>1, <4>1 DEF MaySend, NeverLive, QuietDay
      <4> QED BY <4>2, <4>3
    <3> QED BY <3>2, <3>3, <3>4 DEF NudgeInv
  <2> QED BY <2>1, <2>2
<1>3. NudgeInv => NudgesAreSound
  BY NudgeInvIsEnough
<1> QED BY <1>1, <1>2, <1>3, PTL DEF ReactivationSpec

-----------------------------------------------------------------------------
(***************************************************************************)
(* The rooms of Plum: PlumRooms.  Each part says what the requests in the  *)
(* middle of it rely on.                                                   *)
(***************************************************************************)
HomeGoods == {"person", "entry", "coins"}
InTurn == {"prepare", "answering", "ok", "duplicate", "limited", "raised"}
VisitRow == [pc : {"away", "entry", "coins", "login", "liked", "unliked", "create", "restart", "reserve"} \cup InTurn,
             what : {0} \cup Fan \cup Word, at : Nat]

AtHome(v) ==
    /\ visitor[v].pc \in {"entry", "coins", "login"} => "person" \in house
    /\ visitor[v].pc \in {"coins", "login"} => "entry" \in house
    /\ visitor[v].pc = "login" => "coins" \in house
HomeInv ==
    /\ house \subseteq HomeGoods /\ login \in BOOLEAN /\ LoggedInIsHome
    /\ \A v \in Visitor : AtHome(v)

\* Whoever touched a row holds it, and still knows truly whether it changed.
Reacts(v) ==
    visitor[v].pc \in {"liked", "unliked"} =>
        /\ visitor[v].what \in Fan /\ liking[visitor[v].what] = v
        /\ visitor[v].at = IF (visitor[v].what \in likes) # (visitor[v].pc = "liked") THEN 1 ELSE 0
LikeInv ==
    /\ likes \subseteq Fan /\ count \in Nat /\ LikesAreCounted
    /\ liking \in [Fan -> Visitor \cup {Nobody}]
    /\ \A v \in Visitor : Reacts(v)

\* The last conversation is the active one.
RoomInv ==
    /\ room \in Seq({"active", "archived"}) /\ Len(room) <= MaxRooms
    /\ \A i \in 1 .. Len(room) : room[i] = "active" <=> i = Len(room)

Turns(v) ==
    /\ visitor[v].pc \in InTurn \cup {"reserve"} => visitor[v].at \in Room /\ visitor[v].what \in Word
    /\ visitor[v].pc = "answering" => visitor[v].what \in posted
TurnInv ==
    /\ price \in [Room \X Word -> {"none", "reserved", "released"}]
    /\ replied \subseteq posted /\ posted \subseteq Word /\ KeptMeansShown
    /\ \A v \in Visitor : Turns(v)

RoomsInv == visitor \in [Visitor -> VisitRow] /\ HomeInv /\ LikeInv /\ RoomInv /\ TurnInv

VisitAt(v) ==
    /\ visitor' \in [Visitor -> VisitRow] /\ \A x \in Visitor \ {v} : visitor'[x] = visitor[x]

LEMMA AwayRow == Away \in VisitRow /\ Away.pc = "away"
  BY DEF Away, VisitRow

LEMMA RoomNumbers == \A c \in Room : c \in Nat /\ c >= 1 /\ c <= MaxRooms
  BY RoomBounds DEF Room

LEMMA ComesMoves ==
    ASSUME RoomsInv, NEW v \in Visitor, NEW pc, NEW what \in {0} \cup Fan \cup Word, NEW at \in Nat,
           pc \in {"away", "entry", "coins", "login", "liked", "unliked", "create", "restart", "reserve"} \cup InTurn,
           Comes(v, pc, what, at)
    PROVE  /\ VisitAt(v) /\ visitor[v].pc = "away"
           /\ visitor'[v].pc = pc /\ visitor'[v].what = what /\ visitor'[v].at = at
<1>1. visitor[v] = Away /\ visitor' = [visitor EXCEPT ![v] = [pc |-> pc, what |-> what, at |-> at]]
  BY DEF Comes
<1>2. [pc |-> pc, what |-> what, at |-> at] \in VisitRow
  BY DEF VisitRow
<1> QED BY <1>1, <1>2, AwayRow DEF VisitAt, RoomsInv

LEMMA GoesOnMoves ==
    ASSUME RoomsInv, NEW v \in Visitor, NEW pc,
           pc \in {"away", "entry", "coins", "login", "liked", "unliked", "create", "restart", "reserve"} \cup InTurn,
           GoesOn(v, pc)
    PROVE  /\ VisitAt(v) /\ visitor'[v].pc = pc
           /\ visitor'[v].what = visitor[v].what /\ visitor'[v].at = visitor[v].at
<1>1. PICK r \in VisitRow : r = visitor[v]
  BY DEF RoomsInv
<1>2. visitor' = [visitor EXCEPT ![v] = [r EXCEPT !.pc = pc]]
  BY <1>1 DEF GoesOn, RoomsInv
<1>3. [r EXCEPT !.pc = pc] \in VisitRow /\ [r EXCEPT !.pc = pc].pc = pc
      /\ [r EXCEPT !.pc = pc].what = r.what /\ [r EXCEPT !.pc = pc].at = r.at
  BY DEF VisitRow
<1>4. visitor'[v] = [r EXCEPT !.pc = pc] /\ VisitAt(v)
  BY <1>2, <1>3 DEF VisitAt, RoomsInv
<1> QED BY <1>1, <1>3, <1>4

LEMMA IsAnsweredMoves ==
    ASSUME RoomsInv, NEW v \in Visitor, IsAnswered(v)
    PROVE  VisitAt(v) /\ visitor'[v].pc = "away"
  BY AwayRow DEF IsAnswered, VisitAt, RoomsInv

(* A part that a request leaves alone. *)

LEMMA HomeStays ==
    ASSUME RoomsInv, NEW v \in Visitor, VisitAt(v), UNCHANGED codeVars,
           visitor'[v].pc \notin {"entry", "coins", "login"}
    PROVE  HomeInv'
<1>1. house' = house /\ login' = login
  BY DEF codeVars
<1>2. ASSUME NEW x \in Visitor
      PROVE  AtHome(x)'
  BY <1>1 DEF RoomsInv, HomeInv, AtHome, VisitAt
<1> QED BY <1>1, <1>2 DEF RoomsInv, HomeInv, LoggedInIsHome

LEMMA LikeStays ==
    ASSUME RoomsInv, NEW v \in Visitor, VisitAt(v), UNCHANGED likeVars,
           visitor'[v].pc \notin {"liked", "unliked"}
    PROVE  LikeInv'
<1>1. likes' = likes /\ count' = count /\ liking' = liking
  BY DEF likeVars
<1>2. ASSUME NEW x \in Visitor
      PROVE  Reacts(x)'
  <2>1. CASE x = v
    BY <2>1 DEF Reacts
  <2>2. CASE x # v
    <3>1. visitor'[x] = visitor[x] /\ Reacts(x)
      BY <2>2 DEF VisitAt, RoomsInv, LikeInv
    <3> QED BY <1>1, <3>1 DEF Reacts
  <2> QED BY <2>1, <2>2
<1> QED BY <1>1, <1>2 DEF RoomsInv, LikeInv, LikesAreCounted

LEMMA RoomStays ==
    ASSUME RoomsInv, UNCHANGED room
    PROVE  RoomInv'
  BY DEF RoomsInv, RoomInv

LEMMA TurnStays ==
    ASSUME RoomsInv, NEW v \in Visitor, VisitAt(v), UNCHANGED turnVars,
           visitor[v].pc \notin InTurn, visitor'[v].pc \notin InTurn,
           visitor'[v].pc = "reserve" => visitor'[v].at \in Room /\ visitor'[v].what \in Word
    PROVE  TurnInv'
<1>1. UNCHANGED <<price, posted, replied, displayed, broken>>
  BY DEF turnVars
<1>2. ASSUME NEW x \in Visitor
      PROVE  Turns(x)'
  <2>1. CASE x = v
    BY <2>1 DEF Turns, InTurn
  <2>2. CASE x # v
    <3>1. visitor'[x] = visitor[x] /\ Turns(x)
      BY <2>2 DEF VisitAt, RoomsInv, TurnInv
    <3> QED BY <1>1, <3>1 DEF Turns
  <2> QED BY <2>1, <2>2
<1>3. ASSUME NEW b \in Room \X Word, Underway(b)
      PROVE  Underway(b)'
  <2>1. PICK x \in Visitor : Bill(x) = b /\ visitor[x].pc \in InTurn
    BY <1>3 DEF Underway, InTurn
  <2>2. visitor'[x] = visitor[x]
    BY <2>1 DEF VisitAt
  <2> QED BY <2>1, <2>2 DEF Underway, Bill, InTurn
<1>4. KeptMeansShown'
  BY <1>1, <1>3 DEF RoomsInv, TurnInv, KeptMeansShown
<1> QED BY <1>1, <1>2, <1>4 DEF RoomsInv, TurnInv

\* Whoever is not in a turn, before or after, does not disturb the turns.
LEMMA OutOfTurn ==
    ASSUME RoomsInv, NEW v \in Visitor, VisitAt(v), UNCHANGED <<room, turnVars>>,
           visitor[v].pc \notin InTurn, HomeInv', LikeInv',
           visitor'[v].pc \notin InTurn \cup {"reserve"}
    PROVE  RoomsInv'
  BY RoomStays, TurnStays DEF RoomsInv, VisitAt

(* Access codes. *)

LEMMA HouseGrows ==
    ASSUME RoomsInv, NEW v \in Visitor, VisitAt(v), house \subseteq house', house' \subseteq HomeGoods,
           login' = login, AtHome(v)'
    PROVE  HomeInv'
<1>1. ASSUME NEW x \in Visitor
      PROVE  AtHome(x)'
  <2>1. CASE x = v
    BY <2>1
  <2>2. CASE x # v
    <3>1. visitor'[x] = visitor[x] /\ AtHome(x)
      BY <2>2 DEF VisitAt, RoomsInv, HomeInv
    <3> QED BY <3>1 DEF AtHome
  <2> QED BY <2>1, <2>2
<1>2. LoggedInIsHome'
  BY DEF RoomsInv, HomeInv, LoggedInIsHome, HomeGoods
<1> QED BY <1>1, <1>2 DEF RoomsInv, HomeInv

LEMMA RedeemCodeKeeps ==
    ASSUME RoomsInv, NEW v \in Visitor, RedeemCode(v)
    PROVE  RoomsInv'
<1>1. VisitAt(v) /\ visitor[v].pc = "away" /\ visitor'[v].pc = "entry"
  BY ComesMoves DEF RedeemCode
<1>2. house' = house \cup {"person"} /\ login' = login /\ UNCHANGED <<likeVars, room, turnVars>>
  BY DEF RedeemCode
<1>3. HomeInv'
  <2>1. AtHome(v)' /\ house' \subseteq HomeGoods
    BY <1>1, <1>2 DEF AtHome, HomeGoods, RoomsInv, HomeInv
  <2> QED BY <1>1, <1>2, <2>1, HouseGrows
<1>4. LikeInv'
  BY <1>1, <1>2, LikeStays
<1> QED BY <1>1, <1>2, <1>3, <1>4, OutOfTurn DEF InTurn

LEMMA EnsureEntryKeeps ==
    ASSUME RoomsInv, NEW v \in Visitor, EnsureEntry(v)
    PROVE  RoomsInv'
<1>1. VisitAt(v) /\ visitor[v].pc = "entry" /\ visitor'[v].pc = "coins"
  BY GoesOnMoves DEF EnsureEntry
<1>2. house' = house \cup {"entry"} /\ login' = login /\ UNCHANGED <<likeVars, room, turnVars>>
  BY DEF EnsureEntry
<1>3. HomeInv'
  <2>1. AtHome(v)' /\ house' \subseteq HomeGoods
    BY <1>1, <1>2 DEF AtHome, HomeGoods, RoomsInv, HomeInv
  <2> QED BY <1>1, <1>2, <2>1, HouseGrows
<1>4. LikeInv'
  BY <1>1, <1>2, LikeStays
<1> QED BY <1>1, <1>2, <1>3, <1>4, OutOfTurn DEF InTurn

LEMMA GrantCoinsKeeps ==
    ASSUME RoomsInv, NEW v \in Visitor, GrantCoins(v)
    PROVE  RoomsInv'
<1>1. VisitAt(v) /\ visitor[v].pc = "coins" /\ visitor'[v].pc = "login"
  BY GoesOnMoves DEF GrantCoins
<1>2. house' = house \cup {"coins"} /\ login' = login /\ UNCHANGED <<likeVars, room, turnVars>>
  BY DEF GrantCoins
<1>3. HomeInv'
  <2>1. AtHome(v)' /\ house' \subseteq HomeGoods
    BY <1>1, <1>2 DEF AtHome, HomeGoods, RoomsInv, HomeInv
  <2> QED BY <1>1, <1>2, <2>1, HouseGrows
<1>4. LikeInv'
  BY <1>1, <1>2, LikeStays
<1> QED BY <1>1, <1>2, <1>3, <1>4, OutOfTurn DEF InTurn

LEMMA LogInKeeps ==
    ASSUME RoomsInv, NEW v \in Visitor, LogIn(v)
    PROVE  RoomsInv'
<1>1. VisitAt(v) /\ visitor[v].pc = "login" /\ visitor'[v].pc = "away"
  BY IsAnsweredMoves DEF LogIn, MayLogIn
<1>2. house' = house /\ login' = TRUE /\ UNCHANGED <<likeVars, room, turnVars>>
  BY DEF LogIn
<1>3. HomeInv'
  <2>1. AtHome(v) /\ house = HomeGoods
    BY <1>1 DEF AtHome, HomeGoods, RoomsInv, HomeInv
  <2>2. \A x \in Visitor : AtHome(x)'
    BY <1>2, <2>1 DEF AtHome, HomeGoods
  <2> QED BY <1>2, <2>1, <2>2 DEF HomeInv, HomeGoods, LoggedInIsHome
<1>4. LikeInv'
  BY <1>1, <1>2, LikeStays
<1> QED BY <1>1, <1>2, <1>3, <1>4, OutOfTurn DEF InTurn

LEMMA LogOutKeeps ==
    ASSUME RoomsInv, NEW v \in Visitor, LogOut(v)
    PROVE  RoomsInv'
<1>1. VisitAt(v) /\ visitor[v].pc = "away" /\ visitor'[v].pc = "away"
  BY ComesMoves DEF LogOut
<1>2. house' = house /\ login' = FALSE /\ UNCHANGED <<likeVars, room, turnVars>>
  BY DEF LogOut
<1>3. HomeInv'
  <2>1. ASSUME NEW x \in Visitor
        PROVE  AtHome(x)'
    BY <1>1, <1>2 DEF AtHome, VisitAt, RoomsInv, HomeInv
  <2> QED BY <1>2, <2>1 DEF RoomsInv, HomeInv, LoggedInIsHome
<1>4. LikeInv'
  BY <1>1, <1>2, LikeStays
<1> QED BY <1>1, <1>2, <1>3, <1>4, OutOfTurn DEF InTurn

(* Reactions. *)

LEMMA TouchKeeps ==
    ASSUME RoomsInv, NEW v \in Visitor, NEW f \in Fan, NEW on \in BOOLEAN, Touch(v, f, on)
    PROVE  RoomsInv'
<1>1. PICK pc \in {"liked", "unliked"} : pc = IF on THEN "liked" ELSE "unliked"
  OBVIOUS
<1>2. PICK at \in {0, 1} : at = IF (f \in likes) # on THEN 1 ELSE 0
  <2>1. CASE (f \in likes) # on
    BY <2>1
  <2>2. CASE ~((f \in likes) # on)
    BY <2>2
  <2> QED BY <2>1, <2>2
<1>3. Comes(v, pc, f, at) /\ liking[f] = Nobody /\ liking' = [liking EXCEPT ![f] = v]
      /\ likes' = likes /\ count' = count /\ UNCHANGED <<codeVars, room, turnVars>>
  BY <1>1, <1>2 DEF Touch
<1>4. VisitAt(v) /\ visitor[v].pc = "away" /\ visitor'[v].pc = pc /\ visitor'[v].what = f /\ visitor'[v].at = at
  <2>1. at \in Nat /\ f \in {0} \cup Fan \cup Word
    BY <1>2
  <2>2. pc \in {"away", "entry", "coins", "login", "liked", "unliked", "create", "restart", "reserve"} \cup InTurn
    BY <1>1
  <2>3. Comes(v, pc, f, at)
    BY <1>3
  <2> QED BY <2>1, <2>2, <2>3, ComesMoves
<1>5. HomeInv'
  BY <1>3, <1>4, HomeStays
<1>6. liking \in [Fan -> Visitor \cup {Nobody}]
  BY DEF RoomsInv, LikeInv
<1>7. ASSUME NEW x \in Visitor
      PROVE  Reacts(x)'
  <2>1. CASE x = v
    <3>1. at = IF (f \in likes) # (pc = "liked") THEN 1 ELSE 0
      BY <1>1, <1>2
    <3>2. liking'[f] = v
      BY <1>3, <1>6
    <3> QED BY <1>3, <1>4, <2>1, <3>1, <3>2 DEF Reacts
  <2>2. CASE x # v
    <3>1. visitor'[x] = visitor[x] /\ Reacts(x)
      BY <1>4, <2>2 DEF VisitAt, RoomsInv, LikeInv
    <3>2. visitor[x].pc \in {"liked", "unliked"} => visitor[x].what # f
      BY <1>3, <3>1, RoomBounds DEF Reacts
    <3> QED BY <1>3, <1>6, <3>1, <3>2 DEF Reacts
  <2> QED BY <2>1, <2>2
<1>8. LikeInv'
  BY <1>3, <1>6, <1>7 DEF RoomsInv, LikeInv, LikesAreCounted
<1> QED BY <1>1, <1>3, <1>4, <1>5, <1>8, OutOfTurn DEF InTurn

LEMMA CountReactionKeeps ==
    ASSUME RoomsInv, NEW v \in Visitor, CountReaction(v)
    PROVE  RoomsInv'
<1> PICK r \in VisitRow : r = visitor[v]
  BY DEF RoomsInv
<1>1. r.pc \in {"liked", "unliked"} /\ IsAnswered(v) /\ UNCHANGED <<codeVars, room, turnVars>>
      /\ liking' = [liking EXCEPT ![r.what] = Nobody]
  BY DEF CountReaction
<1> PICK f \in Fan : f = r.what
  BY <1>1 DEF RoomsInv, LikeInv, Reacts
<1>2. VisitAt(v) /\ visitor'[v].pc = "away"
  BY <1>1, IsAnsweredMoves
<1>3. HomeInv'
  BY <1>1, <1>2, HomeStays
<1>4. liking[f] = v /\ r.at = IF (f \in likes) # (r.pc = "liked") THEN 1 ELSE 0
  BY <1>1 DEF RoomsInv, LikeInv, Reacts
<1>5. likes \subseteq Fan /\ count \in Nat /\ count = Cardinality(likes) /\ IsFiniteSet(likes)
  <2>1. likes \subseteq Fan /\ count \in Nat /\ count = Cardinality(likes)
    BY DEF RoomsInv, LikeInv, LikesAreCounted
  <2> QED BY <2>1, RoomBounds, FS_Subset
<1>6. /\ likes' \subseteq Fan /\ count' \in Nat /\ count' = Cardinality(likes')
      /\ \A g \in Fan \ {f} : g \in likes' <=> g \in likes
  <2>1. CASE r.pc = "liked"
    <3>1. likes' = likes \cup {f} /\ count' = count + r.at
      BY <2>1 DEF CountReaction, Counts
    <3>2. CASE f \in likes
      <4>1. r.at = 0 /\ likes' = likes
        BY <1>4, <2>1, <3>1, <3>2
      <4> QED BY <1>5, <3>1, <4>1
    <3>3. CASE f \notin likes
      <4>1. r.at = 1
        BY <1>4, <2>1, <3>3
      <4>2. Cardinality(likes \cup {f}) = Cardinality(likes) + 1
        BY <1>5, <3>3, FS_AddElement
      <4> QED BY <1>5, <3>1, <4>1, <4>2
    <3> QED BY <3>2, <3>3
  <2>2. CASE r.pc = "unliked"
    <3>1. likes' = likes \ {f} /\ count' = IF count > 0 THEN count - r.at ELSE 0
      BY <2>2 DEF CountReaction, Counts
    <3>2. CASE f \notin likes
      <4>1. r.at = 0 /\ likes' = likes
        BY <1>4, <2>2, <3>1, <3>2
      <4> QED BY <1>5, <3>1, <4>1
    <3>3. CASE f \in likes
      <4>1. r.at = 1
        BY <1>4, <2>2, <3>3
      <4>2. Cardinality(likes \ {f}) = Cardinality(likes) - 1
        BY <1>5, <3>3, FS_RemoveElement
      <4>3. likes # {} /\ count # 0
        BY <1>5, <3>3, FS_EmptySet
      <4>4. count' = count - 1
        BY <1>5, <3>1, <4>1, <4>3
      <4> QED BY <1>5, <3>1, <4>2, <4>3, <4>4
    <3> QED BY <3>2, <3>3
  <2> QED BY <1>1, <2>1, <2>2
<1>7. liking \in [Fan -> Visitor \cup {Nobody}]
  BY DEF RoomsInv, LikeInv
<1>8. ASSUME NEW x \in Visitor
      PROVE  Reacts(x)'
  <2>1. CASE x = v
    BY <1>2, <2>1 DEF Reacts
  <2>2. CASE x # v
    <3>1. visitor'[x] = visitor[x] /\ Reacts(x)
      BY <1>2, <2>2 DEF VisitAt, RoomsInv, LikeInv
    <3>2. visitor[x].pc \in {"liked", "unliked"} => visitor[x].what \in Fan \ {f}
      BY <1>4, <2>2, <3>1 DEF Reacts
    <3> QED BY <1>1, <1>6, <1>7, <3>1, <3>2 DEF Reacts
  <2> QED BY <2>1, <2>2
<1>9. LikeInv'
  BY <1>1, <1>6, <1>7, <1>8 DEF LikeInv, LikesAreCounted
<1> QED BY <1>1, <1>2, <1>3, <1>9, OutOfTurn DEF InTurn

(* Conversations. *)

LEMMA LastIsActive ==
    ASSUME RoomInv
    PROVE  /\ Len(room) \in Nat
           /\ \A c \in Room : Current(c) <=> c = Len(room)
           /\ room # <<>> => Len(room) \in Room /\ Current(Len(room))
<1>1. Len(room) \in Nat /\ Len(room) <= MaxRooms
  BY DEF RoomInv
<1>2. \A c \in Room : Current(c) <=> c = Len(room)
  BY <1>1 DEF RoomInv, Current, Room
<1>3. room # <<>> => Len(room) >= 1
  BY DEF RoomInv
<1> QED BY <1>1, <1>2, <1>3, RoomBounds DEF Room

LEMMA OpenRoomKeeps ==
    ASSUME RoomsInv, NEW v \in Visitor, OpenRoom(v)
    PROVE  RoomsInv'
<1>1. UNCHANGED <<codeVars, likeVars, room, turnVars>>
      /\ (Comes(v, "away", 0, 0) \/ Comes(v, "create", 0, 0))
  BY DEF OpenRoom
<1>2. VisitAt(v) /\ visitor[v].pc = "away" /\ visitor'[v].pc \in {"away", "create"}
  BY <1>1, ComesMoves
<1>3. HomeInv' /\ LikeInv'
  BY <1>1, <1>2, HomeStays, LikeStays
<1> QED BY <1>1, <1>2, <1>3, OutOfTurn DEF InTurn

LEMMA StartRestartKeeps ==
    ASSUME RoomsInv, NEW v \in Visitor, StartRestart(v)
    PROVE  RoomsInv'
<1>1. UNCHANGED <<codeVars, likeVars, room, turnVars>> /\ \E c \in Room : Comes(v, "restart", 0, c)
  BY DEF StartRestart
<1>2. VisitAt(v) /\ visitor[v].pc = "away" /\ visitor'[v].pc = "restart"
  BY <1>1, ComesMoves, RoomNumbers
<1>3. HomeInv' /\ LikeInv'
  BY <1>1, <1>2, HomeStays, LikeStays
<1> QED BY <1>1, <1>2, <1>3, OutOfTurn DEF InTurn

\* A room is written, by whoever found the slot free or the old room current.
LEMMA RoomWritten ==
    ASSUME RoomsInv, NEW v \in Visitor, visitor[v].pc \in {"create", "restart"}, IsAnswered(v),
           UNCHANGED <<codeVars, likeVars, turnVars>>, RoomInv'
    PROVE  RoomsInv'
<1>1. VisitAt(v) /\ visitor'[v].pc = "away"
  BY IsAnsweredMoves
<1>2. HomeInv' /\ LikeInv'
  BY <1>1, HomeStays, LikeStays
<1>3. TurnInv'
  BY <1>1, TurnStays DEF InTurn
<1> QED BY <1>1, <1>2, <1>3 DEF RoomsInv, VisitAt

LEMMA CreateRoomKeeps ==
    ASSUME RoomsInv, NEW v \in Visitor, CreateRoom(v)
    PROVE  RoomsInv'
<1>1. visitor[v].pc = "create" /\ IsAnswered(v) /\ UNCHANGED <<codeVars, likeVars, turnVars>>
      /\ room' = IF SlotIsFree /\ Len(room) < MaxRooms THEN Append(room, "active") ELSE room
  BY DEF CreateRoom
<1>2. RoomInv
  BY DEF RoomsInv
<1>3. RoomInv'
  <2>1. CASE SlotIsFree /\ Len(room) < MaxRooms
    <3>1. room = <<>>
      BY <1>2, <2>1, LastIsActive DEF SlotIsFree
    <3>2. room' = <<"active">> /\ MaxRooms >= 1
      BY <1>1, <2>1, <3>1, RoomBounds
    <3>3. Len(room') = 1 /\ room'[1] = "active" /\ room' \in Seq({"active", "archived"})
      BY <3>2
    <3> QED BY <3>2, <3>3, RoomBounds DEF RoomInv
  <2>2. CASE ~(SlotIsFree /\ Len(room) < MaxRooms)
    BY <1>1, <1>2, <2>2 DEF RoomInv
  <2> QED BY <2>1, <2>2
<1> QED BY <1>1, <1>3, RoomWritten

LEMMA RestartKeeps ==
    ASSUME RoomsInv, NEW v \in Visitor, Restart(v)
    PROVE  RoomsInv'
<1>1. visitor[v].pc = "restart" /\ IsAnswered(v) /\ UNCHANGED <<codeVars, likeVars, turnVars>>
  BY DEF Restart
<1>2. RoomInv
  BY DEF RoomsInv
<1>3. PICK c : c = visitor[v].at
  OBVIOUS
<1>4. RoomInv'
  <2>1. CASE Len(room) = MaxRooms \/ ~Current(c)
    <3>1. room' = room
      BY <1>3, <2>1 DEF Restart
    <3> QED BY <1>2, <3>1 DEF RoomInv
  <2>2. CASE ~(Len(room) = MaxRooms \/ ~Current(c))
    <3>1. room' = Append([room EXCEPT ![c] = "archived"], "active")
      BY <1>3, <2>2 DEF Restart
    <3>2. room \in Seq({"active", "archived"}) /\ Len(room) \in Nat /\ c = Len(room) /\ Len(room) < MaxRooms
          /\ c \in 1 .. Len(room)
      BY <1>2, <2>2, RoomBounds DEF RoomInv, Current
    <3> PICK n \in Nat : n = Len(room)
      BY <3>2
    <3>3. PICK s \in Seq({"active", "archived"}) :
              /\ s = [room EXCEPT ![c] = "archived"] /\ Len(s) = n
              /\ \A i \in 1 .. n : s[i] = IF i = n THEN "archived" ELSE room[i]
      <4>1. /\ [room EXCEPT ![c] = "archived"] \in Seq({"active", "archived"})
            /\ Len([room EXCEPT ![c] = "archived"]) = Len(room)
            /\ \A i \in 1 .. Len(room) : [room EXCEPT ![c] = "archived"][i] = IF i = c THEN "archived" ELSE room[i]
        BY <3>2, ExceptSeq
      <4> QED BY <3>2, <4>1
    <3>4. Len(s) = n /\ \A i \in 1 .. n : s[i] = IF i = n THEN "archived" ELSE room[i]
      BY <3>3
    <3>5. \A i \in 1 .. n : s[i] # "active"
      BY <1>2, <3>4 DEF RoomInv
    <3>6. room' = Append(s, "active")
      BY <3>1, <3>3
    <3>7. room' \in Seq({"active", "archived"}) /\ Len(room') = n + 1 /\ room'[n + 1] = "active"
          /\ \A i \in 1 .. n : room'[i] = s[i]
      BY <3>4, <3>6
    <3>8. n + 1 <= MaxRooms
      BY <3>2, RoomBounds
    <3>9. ASSUME NEW i \in 1 .. Len(room')
          PROVE  room'[i] = "active" <=> i = Len(room')
      <4>1. i \in 1 .. n \/ i = n + 1
        BY <3>7
      <4> QED BY <3>5, <3>7, <4>1
    <3> QED BY <3>7, <3>8, <3>9 DEF RoomInv
  <2> QED BY <2>1, <2>2
<1> QED BY <1>1, <1>4, RoomWritten

(* The turn that is answered at once. *)

LEMMA PostWordKeeps ==
    ASSUME RoomsInv, NEW v \in Visitor, NEW w \in Word, PostWord(v, w)
    PROVE  RoomsInv'
<1>1. UNCHANGED <<codeVars, likeVars, room, turnVars>> /\ \E c \in Room : Comes(v, "reserve", w, c)
  BY DEF PostWord
<1>2. /\ VisitAt(v) /\ visitor[v].pc = "away" /\ visitor'[v].pc = "reserve"
      /\ visitor'[v].at \in Room /\ visitor'[v].what = w
  <2>1. PICK c \in Room : Comes(v, "reserve", w, c)
    BY <1>1
  <2>2. c \in Nat
    BY RoomNumbers
  <2> QED BY <2>1, <2>2, ComesMoves
<1>3. HomeInv' /\ LikeInv' /\ RoomInv'
  BY <1>1, <1>2, HomeStays, LikeStays, RoomStays
<1>4. TurnInv'
  BY <1>1, <1>2, TurnStays DEF InTurn
<1> QED BY <1>2, <1>3, <1>4 DEF RoomsInv, VisitAt

\* A step of a turn whose price stays what it was, or is settled.
LEMMA TurnGoesOn ==
    ASSUME RoomsInv, NEW v \in Visitor, VisitAt(v), visitor[v].pc \in InTurn \cup {"reserve"},
           visitor'[v].pc \in InTurn \cup {"away"},
           visitor'[v].pc \in InTurn => visitor'[v].at = visitor[v].at /\ visitor'[v].what = visitor[v].what,
           UNCHANGED <<codeVars, room>>, LikeInv',
           price' \in [Room \X Word -> {"none", "reserved", "released"}],
           replied' \subseteq posted', posted \subseteq posted', posted' \subseteq Word,
           displayed \subseteq displayed', broken \subseteq broken',
           \A b \in Room \X Word : b # Bill(v) => price'[b] = price[b],
           price'[Bill(v)] = "reserved" =>
               Bill(v) \in displayed' \/ Bill(v) \in broken' \/ visitor'[v].pc \in InTurn \/ 
                   (visitor[v].pc = "reserve" /\ price[Bill(v)] = "reserved"),
           visitor'[v].pc = "answering" => visitor'[v].what \in posted'
    PROVE  RoomsInv'
<1> PICK d \in Room \X Word : d = Bill(v)
  BY DEF RoomsInv, TurnInv, Turns, Bill
<1>1. HomeInv'
  BY HomeStays DEF InTurn
<1>2. RoomInv'
  BY RoomStays
<1>3. ASSUME NEW x \in Visitor
      PROVE  Turns(x)'
  <2>1. CASE x = v
    BY <2>1 DEF Turns, RoomsInv, TurnInv, InTurn
  <2>2. CASE x # v
    <3>1. visitor'[x] = visitor[x] /\ Turns(x)
      BY <2>2 DEF VisitAt, RoomsInv, TurnInv
    <3> QED BY <3>1 DEF Turns
  <2> QED BY <2>1, <2>2
<1>4. ASSUME NEW b \in Room \X Word, NEW x \in Visitor \ {v}, Bill(x) = b, visitor[x].pc \in InTurn
      PROVE  Underway(b)'
  <2>1. visitor'[x] = visitor[x]
    BY DEF VisitAt
  <2> QED BY <1>4, <2>1 DEF Underway, Bill, InTurn
<1>5. ASSUME visitor'[v].pc \in InTurn
      PROVE  Underway(d)'
  BY <1>5 DEF Underway, Bill, InTurn
<1>6. ASSUME NEW b \in Room \X Word, price'[b] = "reserved"
      PROVE  b \in displayed' \/ b \in broken' \/ Underway(b)'
  <2>1. CASE price[b] = "reserved"
    <3>1. b \in displayed \/ b \in broken \/ Underway(b)
      BY <2>1 DEF RoomsInv, TurnInv, KeptMeansShown
    <3>2. ASSUME Underway(b)
          PROVE  b \in displayed' \/ b \in broken' \/ Underway(b)'
      <4>1. PICK x \in Visitor : Bill(x) = b /\ visitor[x].pc \in InTurn
        BY <3>2 DEF Underway, InTurn
      <4>2. CASE x # v
        BY <1>4, <4>1, <4>2
      <4>3. CASE x = v
        <5>1. b = d /\ visitor[v].pc # "reserve"
          BY <4>1, <4>3 DEF InTurn
        <5> QED BY <1>5, <1>6, <5>1
      <4> QED BY <4>2, <4>3
    <3> QED BY <3>1, <3>2
  <2>2. CASE price[b] # "reserved"
    <3>1. b = d
      BY <1>6, <2>2
    <3> QED BY <1>5, <1>6, <2>2, <3>1
  <2> QED BY <2>1, <2>2
<1>7. KeptMeansShown'
  BY <1>6 DEF KeptMeansShown
<1> QED BY <1>1, <1>2, <1>3, <1>7 DEF RoomsInv, VisitAt, TurnInv

LEMMA ReservePriceKeeps ==
    ASSUME RoomsInv, NEW v \in Visitor, ReservePrice(v)
    PROVE  RoomsInv'
<1>1. visitor[v].pc = "reserve" /\ UNCHANGED <<codeVars, likeVars, room, posted, replied, displayed, broken>>
  BY DEF ReservePrice
<1> PICK d \in Room \X Word : d = Bill(v)
  BY <1>1 DEF RoomsInv, TurnInv, Turns, Bill
<1>2. price \in [Room \X Word -> {"none", "reserved", "released"}] /\ posted \subseteq Word /\ replied \subseteq posted
  BY DEF RoomsInv, TurnInv
<1>3. CASE price' = [price EXCEPT ![d] = "reserved"] /\ GoesOn(v, "prepare")
  <2>1. VisitAt(v) /\ visitor'[v].pc = "prepare"
        /\ visitor'[v].what = visitor[v].what /\ visitor'[v].at = visitor[v].at
    BY <1>3, GoesOnMoves DEF InTurn
  <2>2. LikeInv'
    BY <1>1, <2>1, LikeStays
  <2>3. price' \in [Room \X Word -> {"none", "reserved", "released"}]
        /\ \A b \in Room \X Word : b # d => price'[b] = price[b]
    BY <1>2, <1>3
  <2>4. replied' \subseteq posted' /\ posted \subseteq posted' /\ posted' \subseteq Word
        /\ displayed \subseteq displayed' /\ broken \subseteq broken'
    BY <1>1, <1>2
  <2>5. visitor'[v].pc \in InTurn /\ visitor'[v].pc # "answering" /\ visitor[v].pc \in InTurn \cup {"reserve"}
    BY <1>1, <2>1 DEF InTurn
  <2> QED BY <1>1, <2>1, <2>2, <2>3, <2>4, <2>5, TurnGoesOn
<1>4. CASE price[d] # "reserved" /\ IsAnswered(v) /\ UNCHANGED price
  <2>1. VisitAt(v) /\ visitor'[v].pc = "away"
    BY <1>4, IsAnsweredMoves
  <2>2. HomeInv' /\ LikeInv'
    BY <1>1, <2>1, HomeStays, LikeStays
  <2> QED BY <1>1, <1>4, <2>1, <2>2, OutOfTurn DEF InTurn, turnVars
<1> QED BY <1>3, <1>4 DEF ReservePrice

\* The steps of a turn between the reservation and the settlement.
LEMMA TurnInside ==
    ASSUME RoomsInv, NEW v \in Visitor, visitor[v].pc \in InTurn, NEW pc \in InTurn, GoesOn(v, pc),
           UNCHANGED <<codeVars, likeVars, room, price, displayed, broken>>,
           posted \subseteq posted', posted' \subseteq posted \cup {visitor[v].what},
           replied' \subseteq posted', pc = "answering" => visitor[v].what \in posted'
    PROVE  RoomsInv'
<1>1. VisitAt(v) /\ visitor'[v].pc = pc
      /\ visitor'[v].what = visitor[v].what /\ visitor'[v].at = visitor[v].at
  BY GoesOnMoves
<1>2. LikeInv'
  BY <1>1, LikeStays DEF InTurn
<1>3. price' \in [Room \X Word -> {"none", "reserved", "released"}]
      /\ \A b \in Room \X Word : b # Bill(v) => price'[b] = price[b]
  BY DEF RoomsInv, TurnInv
<1>4. posted' \subseteq Word /\ displayed \subseteq displayed' /\ broken \subseteq broken'
  BY DEF RoomsInv, TurnInv, Turns
<1> QED BY <1>1, <1>2, <1>3, <1>4, TurnGoesOn

LEMMA PrepareKeeps ==
    ASSUME RoomsInv, NEW v \in Visitor, Prepare(v)
    PROVE  RoomsInv'
<1>1. visitor[v].pc = "prepare" /\ UNCHANGED <<codeVars, likeVars, room, price, replied, displayed, broken>>
      /\ replied \subseteq posted
  BY DEF Prepare, RoomsInv, TurnInv
<1>2. PICK pc \in {"limited", "duplicate", "answering"} :
          /\ GoesOn(v, pc)
          /\ posted' = posted \/ posted' = posted \cup {visitor[v].what}
          /\ pc = "answering" => visitor[v].what \in posted'
  BY DEF Prepare
<1>3. pc \in InTurn /\ visitor[v].pc \in InTurn
  BY <1>1 DEF InTurn
<1>4. posted \subseteq posted' /\ posted' \subseteq posted \cup {visitor[v].what} /\ replied' \subseteq posted'
  BY <1>1, <1>2
<1> QED BY <1>1, <1>2, <1>3, <1>4, TurnInside

LEMMA AnswerWordKeeps ==
    ASSUME RoomsInv, NEW v \in Visitor, AnswerWord(v)
    PROVE  RoomsInv'
<1>1. visitor[v].pc = "answering" /\ UNCHANGED <<codeVars, likeVars, room, price, posted, displayed, broken>>
      /\ replied' = replied \cup {visitor[v].what} /\ GoesOn(v, "ok")
  BY DEF AnswerWord
<1>2. visitor[v].what \in posted /\ replied \subseteq posted
  BY <1>1 DEF RoomsInv, TurnInv, Turns
<1>3. "ok" \in InTurn /\ visitor[v].pc \in InTurn
  BY <1>1 DEF InTurn
<1> QED BY <1>1, <1>2, <1>3, TurnInside

LEMMA TurnRaisesKeeps ==
    ASSUME RoomsInv, NEW v \in Visitor, TurnRaises(v)
    PROVE  RoomsInv'
<1>1. visitor[v].pc \in {"prepare", "answering"} /\ GoesOn(v, "raised")
      /\ UNCHANGED <<codeVars, likeVars, room, price, posted, replied, displayed, broken>>
  BY DEF TurnRaises, turnVars
<1>2. "raised" \in InTurn /\ visitor[v].pc \in InTurn
  BY <1>1 DEF InTurn
<1>3. replied' \subseteq posted'
  BY <1>1 DEF RoomsInv, TurnInv
<1> QED BY <1>1, <1>2, <1>3, TurnInside

LEMMA SettlePriceKeeps ==
    ASSUME RoomsInv, NEW v \in Visitor, SettlePrice(v)
    PROVE  RoomsInv'
<1>1. /\ visitor[v].pc \in {"ok", "duplicate", "limited", "raised"} /\ IsAnswered(v)
      /\ UNCHANGED <<codeVars, likeVars, room, posted, replied, broken>>
  BY DEF SettlePrice
<1> PICK d \in Room \X Word : d = Bill(v)
  BY <1>1 DEF RoomsInv, TurnInv, Turns, Bill, InTurn
<1>2. price \in [Room \X Word -> {"none", "reserved", "released"}] /\ posted \subseteq Word /\ replied \subseteq posted
  BY DEF RoomsInv, TurnInv
<1>3. VisitAt(v) /\ visitor'[v].pc = "away"
  BY <1>1, IsAnsweredMoves
<1>4. LikeInv'
  BY <1>1, <1>3, LikeStays
<1>5. /\ price' \in [Room \X Word -> {"none", "reserved", "released"}]
      /\ \A b \in Room \X Word : b # d => price'[b] = price[b]
      /\ displayed \subseteq displayed'
      /\ price'[d] = "reserved" => d \in displayed'
  <2>1. CASE visitor[v].pc \in {"ok", "duplicate"}
    <3>1. price' = price /\ displayed' = displayed \cup {d}
      BY <2>1 DEF SettlePrice, KeepsPrice
    <3> QED BY <1>2, <3>1
  <2>2. CASE visitor[v].pc \notin {"ok", "duplicate"}
    <3>1. price' = [price EXCEPT ![d] = "released"] /\ displayed' = displayed
      BY <2>2 DEF SettlePrice, KeepsPrice
    <3> QED BY <1>2, <3>1
  <2> QED BY <2>1, <2>2
<1>6. replied' \subseteq posted' /\ posted \subseteq posted' /\ posted' \subseteq Word /\ broken \subseteq broken'
  BY <1>1, <1>2
<1>7. visitor[v].pc \in InTurn \cup {"reserve"} /\ visitor'[v].pc \in InTurn \cup {"away"}
      /\ visitor'[v].pc \notin InTurn /\ visitor'[v].pc # "answering"
  BY <1>1, <1>3 DEF InTurn
<1> QED BY <1>1, <1>3, <1>4, <1>5, <1>6, <1>7, TurnGoesOn

\* A transaction that held the row of a fan gives it back with nothing done.
LEMMA VisitBreaksKeeps ==
    ASSUME RoomsInv, NEW v \in Visitor, VisitBreaks(v)
    PROVE  RoomsInv'
<1>1. /\ IsAnswered(v) /\ liking' = [f \in Fan |-> IF liking[f] = v THEN Nobody ELSE liking[f]]
      /\ UNCHANGED <<codeVars, likes, count, room, price, posted, replied, displayed>>
  BY DEF VisitBreaks
<1>2. VisitAt(v) /\ visitor'[v].pc = "away"
  BY <1>1, IsAnsweredMoves
<1>3. LikeInv'
  <2>1. liking' \in [Fan -> Visitor \cup {Nobody}]
    BY <1>1 DEF RoomsInv, LikeInv
  <2>2. ASSUME NEW x \in Visitor
        PROVE  Reacts(x)'
    <3>1. CASE x = v
      BY <1>2, <3>1 DEF Reacts
    <3>2. CASE x # v
      <4>1. visitor'[x] = visitor[x] /\ Reacts(x)
        BY <1>2, <3>2 DEF VisitAt, RoomsInv, LikeInv
      <4> QED BY <1>1, <3>2, <4>1 DEF Reacts
    <3> QED BY <3>1, <3>2
  <2> QED BY <1>1, <2>1, <2>2 DEF RoomsInv, LikeInv, LikesAreCounted
<1>4. CASE visitor[v].pc \in InTurn
  <2>1. broken' = broken \cup {Bill(v)}
    BY <1>4 DEF VisitBreaks, InTurn
  <2>2. /\ price' \in [Room \X Word -> {"none", "reserved", "released"}]
        /\ \A b \in Room \X Word : b # Bill(v) => price'[b] = price[b]
        /\ replied' \subseteq posted' /\ posted \subseteq posted' /\ posted' \subseteq Word
        /\ displayed \subseteq displayed' /\ broken \subseteq broken' /\ Bill(v) \in broken'
    BY <1>1, <2>1 DEF RoomsInv, TurnInv
  <2>3. visitor'[v].pc \notin InTurn /\ visitor'[v].pc # "answering"
    BY <1>2 DEF InTurn
  <2> QED BY <1>1, <1>2, <1>3, <1>4, <2>2, <2>3, TurnGoesOn
<1>5. CASE visitor[v].pc \notin InTurn
  <2>1. UNCHANGED <<room, turnVars>>
    BY <1>1, <1>5 DEF VisitBreaks, InTurn, turnVars
  <2>2. HomeInv'
    BY <1>1, <1>2, HomeStays
  <2> QED BY <1>2, <1>3, <1>5, <2>1, <2>2, OutOfTurn DEF InTurn
<1> QED BY <1>4, <1>5

LEMMA RoomsStutter ==
    ASSUME RoomsInv, UNCHANGED roomVars
    PROVE  RoomsInv'
<1>1. UNCHANGED <<house, login, likes, count, liking, room, price, posted, replied, displayed, broken, visitor>>
  BY DEF roomVars
<1>2. HomeInv'
  BY <1>1 DEF RoomsInv, HomeInv, AtHome, LoggedInIsHome
<1>3. LikeInv'
  BY <1>1 DEF RoomsInv, LikeInv, Reacts, LikesAreCounted
<1>4. RoomInv'
  BY <1>1, RoomStays
<1>5. TurnInv'
  <2>1. KeptMeansShown' = KeptMeansShown
    BY <1>1 DEF KeptMeansShown, Underway, Bill
  <2>2. \A v \in Visitor : Turns(v)'
    BY <1>1 DEF RoomsInv, TurnInv, Turns
  <2> QED BY <1>1, <2>1, <2>2 DEF RoomsInv, TurnInv
<1> QED BY <1>1, <1>2, <1>3, <1>4, <1>5 DEF RoomsInv

LEMMA RoomsStart ==
    ASSUME RoomsInit
    PROVE  RoomsInv
<1>1. \A v \in Visitor : visitor[v] = Away /\ visitor[v].pc = "away"
  BY AwayRow DEF RoomsInit
<1>2. visitor \in [Visitor -> VisitRow]
  BY AwayRow DEF RoomsInit
<1>3. HomeInv
  BY <1>1 DEF RoomsInit, HomeInv, AtHome, LoggedInIsHome
<1>4. LikeInv
  <2>1. Cardinality({}) = 0
    BY FS_EmptySet
  <2>2. \A v \in Visitor : Reacts(v)
    BY <1>1 DEF Reacts
  <2> QED BY <2>1, <2>2 DEF RoomsInit, LikeInv, LikesAreCounted
<1>5. RoomInv
  <2>1. room = <<>> /\ Len(room) = 0 /\ MaxRooms >= 0
    BY RoomBounds DEF RoomsInit
  <2>2. <<>> \in Seq({"active", "archived"})
    OBVIOUS
  <2> QED BY <2>1, <2>2 DEF RoomInv
<1>6. TurnInv
  <2>1. \A v \in Visitor : Turns(v)
    BY <1>1 DEF Turns, InTurn
  <2>2. KeptMeansShown
    BY DEF RoomsInit, KeptMeansShown
  <2> QED BY <2>1, <2>2 DEF RoomsInit, TurnInv
<1> QED BY <1>2, <1>3, <1>4, <1>5, <1>6 DEF RoomsInv

LEMMA RoomsInvHolds ==
    ASSUME RoomsInv
    PROVE  RoomsAreSound
<1>1. RoomsTypeOK
  BY DEF RoomsInv, HomeInv, LikeInv, TurnInv, RoomsTypeOK, HomeGoods
<1>2. OneRoom
  <2>1. SUFFICES ASSUME room # <<>> PROVE Cardinality({c \in Room : Current(c)}) = 1
    BY DEF OneRoom
  <2>2. {c \in Room : Current(c)} = {Len(room)}
    BY <2>1, LastIsActive DEF RoomsInv
  <2> QED BY <2>2, FS_Singleton
<1> QED BY <1>1, <1>2 DEF RoomsInv, HomeInv, LikeInv, TurnInv, RoomsAreSound

\* However the requests of Plum interleave and wherever they break off: whoever
\* is logged in has the account and its coins, the counter of likes is the
\* number of rows, one conversation is active, and coins that stay reserved
\* have bought a text or are those of a request that has not ended well.
THEOREM RoomsStaySound == RoomsSpec => []RoomsAreSound
<1>1. RoomsInit => RoomsInv
  BY RoomsStart
<1>2. RoomsInv /\ [RoomsNext]_roomVars => RoomsInv'
  <2> SUFFICES ASSUME RoomsInv, [RoomsNext]_roomVars PROVE RoomsInv'
    OBVIOUS
  <2>1. ASSUME NEW v \in Visitor, RedeemCode(v) \/ EnsureEntry(v) \/ GrantCoins(v) \/ LogIn(v) \/ LogOut(v)
        PROVE  RoomsInv'
    BY <2>1, RedeemCodeKeeps, EnsureEntryKeeps, GrantCoinsKeeps, LogInKeeps, LogOutKeeps
  <2>2. ASSUME NEW v \in Visitor, (\E f \in Fan : Like(v, f) \/ Unlike(v, f)) \/ CountReaction(v)
        PROVE  RoomsInv'
    BY <2>2, TouchKeeps, CountReactionKeeps DEF Like, Unlike
  <2>3. ASSUME NEW v \in Visitor, OpenRoom(v) \/ CreateRoom(v) \/ StartRestart(v) \/ Restart(v)
        PROVE  RoomsInv'
    BY <2>3, OpenRoomKeeps, CreateRoomKeeps, StartRestartKeeps, RestartKeeps
  <2>4. ASSUME NEW v \in Visitor, (\E w \in Word : PostWord(v, w)) \/ ReservePrice(v) \/ Prepare(v)
        PROVE  RoomsInv'
    BY <2>4, PostWordKeeps, ReservePriceKeeps, PrepareKeeps
  <2>5. ASSUME NEW v \in Visitor, AnswerWord(v) \/ TurnRaises(v) \/ SettlePrice(v) \/ VisitBreaks(v)
        PROVE  RoomsInv'
    BY <2>5, AnswerWordKeeps, TurnRaisesKeeps, SettlePriceKeeps, VisitBreaksKeeps
  <2>6. CASE UNCHANGED roomVars
    BY <2>6, RoomsStutter
  <2> QED BY <2>1, <2>2, <2>3, <2>4, <2>5, <2>6 DEF RoomsNext
<1>3. RoomsInv => RoomsAreSound
  BY RoomsInvHolds
<1> QED BY <1>1, <1>2, <1>3, PTL DEF RoomsSpec

-----------------------------------------------------------------------------
(***************************************************************************)
(* The WeChat of an account: ChannelBinding.  Accounts are numbered as     *)
(* they are made, and no intent belongs to one that has been wiped, but    *)
(* for a QR code that was being asked for when the wipe committed.         *)
(***************************************************************************)
IntentType == [status : {"none", "created", "qr_created", "over", "completed", "revoked"},
               account : Account \cup {NoOne}, weixin : Weixin \cup {NoWeixin}, at : Nat]

WaitType == [pc : {"off", "insert", "start", "wait", "reread", "complete", "row"},
             result : {"none", "connected", "over"}, weixin : Weixin \cup {NoWeixin},
             account : Account \cup {NoOne}]

MessageType == [pc : {"idle", "session", "row", "store"}, account : Account \cup {NoOne},
                weixin : Weixin \cup {NoWeixin}]

RequestType == [pc : {"idle", "logout", "unbind"}, account : Account \cup {NoOne},
                keep : BOOLEAN, logouts : SUBSET (Weixin \cup {NoWeixin})]

RowType == [account : Account, key : {"login", "chat"}, weixin : Weixin \cup {NoWeixin}]

Types ==
    /\ lastAccount \in [Person -> Nat]
    /\ wiped \subseteq Account /\ talk \subseteq Account
    /\ askedAtWipe \subseteq busyAtWipe /\ busyAtWipe \subseteq wiped
    /\ bindIntent \in [Intent -> IntentType]
    /\ channelRow \subseteq RowType
    /\ scanWait \in [Intent -> WaitType]
    /\ \A i \in Intent : scanWait[i].pc \in {"reread", "complete"} => scanWait[i].result # "none"
    /\ inbound \in [Inbound -> MessageType]
    /\ unbinder \in [Person -> RequestType]
    /\ second \in Nat
    /\ withdrawn \subseteq Intent

\* Accounts are numbered as they come: none that is known is beyond the last.
Known(a) == a[2] <= lastAccount[a[1]]

AccountsExist ==
    /\ \A p \in Person : lastAccount[p] <= MaxAccounts
    /\ \A a \in wiped : Known(a)
    /\ \A i \in Intent : bindIntent[i] # NoIntent => bindIntent[i].account \in Account
    /\ \A i \in Intent : scanWait[i].pc \in {"insert", "complete", "row"} => scanWait[i].account \in Account
    /\ \A t \in Inbound : inbound[t].pc # "idle" => inbound[t].account \in Account
    /\ \A p \in Person : unbinder[p].pc # "idle" =>
          unbinder[p].account \in Account /\ Known(unbinder[p].account)

\* A wipe takes the intents of the account with it, of every status, and what is
\* inserted for it later was being asked for.
NoWipedIntent ==
    \A i \in Intent :
       /\ bindIntent[i].account \in wiped => bindIntent[i].account \in askedAtWipe
       /\ scanWait[i].pc = "insert" /\ scanWait[i].account \in wiped => scanWait[i].account \in askedAtWipe

\* An intent that has been completed has no task that could complete it again.
CompletedOnce ==
    \A i \in Intent : bindIntent[i].status \in {"completed", "revoked"} => scanWait[i].pc \in {"off", "row"}

\* What works for a wiped account was under way when it was wiped.
WipedIsLeftAlone ==
    \A a \in wiped \ busyAtWipe : ~Busy(a) /\ a \notin talk /\ RowsOf(a) = {}

BindingInv == Types /\ AccountsExist /\ NoWipedIntent /\ CompletedOnce /\ RevokedIsFinal /\ WipedIsLeftAlone
-----------------------------------------------------------------------------
LEMMA NoOneIsNoAccount == NoOne \notin Account
  BY DEF NoOne, Account

\* What waiting for a scan does to an intent and its task, short of completing it.
Worked(j) ==
    /\ bindIntent'[j].account = bindIntent[j].account
    /\ bindIntent'[j].at = bindIntent[j].at
    /\ bindIntent'[j] # NoIntent => bindIntent[j] # NoIntent
    /\ bindIntent'[j].status # bindIntent[j].status =>
          /\ bindIntent'[j].status \in {"qr_created", "over"}
          /\ bindIntent[j] # NoIntent
          /\ scanWait[j].pc \notin {"off", "row"} \/ bindIntent[j].status = "qr_created"
    /\ scanWait'[j].account \in {scanWait[j].account, NoOne}
    /\ scanWait'[j].pc \in {"insert", "complete", "row"} => scanWait'[j] = scanWait[j]
    /\ scanWait'[j].pc \in {"reread", "complete"} => scanWait'[j].result # "none"
    /\ scanWait[j].pc \in {"off", "row"} => scanWait'[j] = scanWait[j]

TaskWorks ==
    /\ bindIntent' \in [Intent -> IntentType] /\ scanWait' \in [Intent -> WaitType]
    /\ \A j \in Intent : Worked(j)
    /\ UNCHANGED <<lastAccount, wiped, channelRow, talk, inbound, second, requestVars>>

Completion(i) ==
    IF bindIntent[i] = NoIntent THEN bindIntent
    ELSE [bindIntent EXCEPT ![i].status = "completed", ![i].weixin = scanWait[i].weixin,
                            ![i].at = second']

Completes(i) ==
    /\ scanWait[i].pc = "complete"
    /\ bindIntent' = Completion(i)
    /\ second' \in {second, second + 1}
    /\ scanWait' = [scanWait EXCEPT ![i].pc = "row"]
    /\ UNCHANGED <<lastAccount, wiped, channelRow, talk, inbound, online, requestVars>>

LEMMA StatusIsSet ==
    ASSUME Types, NEW i \in Intent, NEW s \in {"qr_created", "over"}, SetStatus(i, s),
           scanWait[i].pc \notin {"off", "row"} \/ bindIntent[i].status = "qr_created"
    PROVE  /\ bindIntent' \in [Intent -> IntentType]
           /\ \A j \in Intent :
                 /\ bindIntent'[j].account = bindIntent[j].account
                 /\ bindIntent'[j].at = bindIntent[j].at
                 /\ bindIntent'[j] # NoIntent => bindIntent[j] # NoIntent
                 /\ bindIntent'[j].status # bindIntent[j].status =>
                       /\ bindIntent'[j].status \in {"qr_created", "over"}
                       /\ bindIntent[j] # NoIntent
                       /\ \/ scanWait[j].pc \notin {"off", "row"}
                          \/ bindIntent[j].status = "qr_created"
<1>1. CASE bindIntent[i] = NoIntent
  BY <1>1 DEF SetStatus, Types
<1>2. CASE bindIntent[i] # NoIntent
  <2>1. bindIntent' = [bindIntent EXCEPT ![i].status = s]
    BY <1>2 DEF SetStatus
  <2>2. [bindIntent[i] EXCEPT !.status = s] \in IntentType
    BY DEF Types, IntentType
  <2>3. bindIntent' = [bindIntent EXCEPT ![i] = [bindIntent[i] EXCEPT !.status = s]]
    BY <2>1
  <2>4. bindIntent' \in [Intent -> IntentType]
    BY <2>2, <2>3 DEF Types
  <2>5. ASSUME NEW j \in Intent, j # i PROVE bindIntent'[j] = bindIntent[j]
    BY <2>3, <2>5 DEF Types
  <2>6. bindIntent'[i] = [bindIntent[i] EXCEPT !.status = s]
    BY <2>3 DEF Types
  <2>7. /\ bindIntent'[i].account = bindIntent[i].account
        /\ bindIntent'[i].at = bindIntent[i].at
        /\ bindIntent'[i].status = s
    BY <2>6 DEF Types, IntentType
  <2> QED BY <1>2, <2>4, <2>5, <2>7
<1> QED BY <1>1, <1>2

LEMMA TaskEnds ==
    ASSUME Types, NEW i \in Intent, Ends(i), scanWait[i].pc \notin {"off", "row"}
    PROVE  /\ scanWait' \in [Intent -> WaitType]
           /\ \A j \in Intent :
                 /\ scanWait'[j].account \in {scanWait[j].account, NoOne}
                 /\ scanWait'[j].pc \in {"insert", "complete", "row"} => scanWait'[j] = scanWait[j]
                 /\ scanWait'[j].pc \in {"reread", "complete"} => scanWait'[j].result # "none"
                 /\ scanWait[j].pc \in {"off", "row"} => scanWait'[j] = scanWait[j]
<1>1. NoWait \in WaitType /\ NoWait.pc = "off" /\ NoWait.account = NoOne
  BY DEF NoWait, WaitType
<1>2. ASSUME NEW j \in Intent, j # i PROVE scanWait'[j] = scanWait[j]
  BY <1>2 DEF Ends, Types
<1>3. scanWait'[i] = NoWait
  BY DEF Ends, Types
<1>4. scanWait' \in [Intent -> WaitType]
  BY <1>1 DEF Ends, Types
<1> QED BY <1>1, <1>2, <1>3, <1>4 DEF Types

LEMMA TaskGoesOn ==
    ASSUME Types, NEW i \in Intent, NEW l \in {"wait", "reread"}, scanWait[i].pc \notin {"off", "row"},
           NEW s \in {"none", "connected", "over"},
           l = "reread" => s # "none", NEW w \in Weixin \cup {NoWeixin},
           scanWait' = [scanWait EXCEPT ![i].pc = l, ![i].result = s, ![i].weixin = w]
    PROVE  /\ scanWait' \in [Intent -> WaitType]
           /\ \A j \in Intent :
                 /\ scanWait'[j].account \in {scanWait[j].account, NoOne}
                 /\ scanWait'[j].pc \in {"insert", "complete", "row"} => scanWait'[j] = scanWait[j]
                 /\ scanWait'[j].pc \in {"reread", "complete"} => scanWait'[j].result # "none"
                 /\ scanWait[j].pc \in {"off", "row"} => scanWait'[j] = scanWait[j]
<1> DEFINE n == [scanWait[i] EXCEPT !.pc = l, !.result = s, !.weixin = w]
<1>1. n \in WaitType /\ n.pc = l /\ n.account = scanWait[i].account /\ n.result = s
  BY DEF Types, WaitType
<1>2. scanWait' = [scanWait EXCEPT ![i] = n]
  OBVIOUS
<1>3. ASSUME NEW j \in Intent, j # i PROVE scanWait'[j] = scanWait[j]
  BY <1>2, <1>3 DEF Types
<1>4. scanWait'[i] = n
  BY <1>2 DEF Types
<1>5. scanWait' \in [Intent -> WaitType]
  BY <1>1, <1>2 DEF Types
<1> QED BY <1>1, <1>3, <1>4, <1>5 DEF Types

\* The steps, with those of a task that does not complete its intent as one.
LEMMA Steps ==
    ASSUME Types, BindingNext
    PROVE  \/ \E p \in Person : StartUnbind(p) \/ Logout(p) \/ CommitUnbind(p)
           \/ TaskWorks
           \/ \E i \in Intent : \/ RereadIntent(i) \/ Completes(i) \/ RecordScan(i)
                                \/ CreateIntent(i) \/ (\E p \in Person : AskIntent(p, i))
           \/ \E t \in Inbound : \/ OpenSession(t) \/ RecordPeer(t) \/ KeepMessage(t)
                                 \/ \E w \in Weixin : Receive(t, w)
           \/ NodeStops
<1>1. ASSUME NEW i \in Intent, StartQr(i) PROVE TaskWorks
  <2>1. SetStatus(i, "qr_created") \/ SetStatus(i, "over")
    BY <1>1 DEF StartQr
  <2>2. CASE Ends(i)
    BY <1>1, <2>1, <2>2, StatusIsSet, TaskEnds DEF TaskWorks, Worked, StartQr, requestVars
  <2>3. CASE scanWait' = [scanWait EXCEPT ![i].pc = "wait"]
    <3>1. scanWait' = [scanWait EXCEPT ![i].pc = "wait", ![i].result = scanWait[i].result,
                                       ![i].weixin = scanWait[i].weixin]
      BY <2>3 DEF Types, WaitType
    <3>2. /\ scanWait[i].result \in {"none", "connected", "over"}
          /\ scanWait[i].weixin \in Weixin \cup {NoWeixin}
      BY DEF Types, WaitType
    <3> QED BY <1>1, <2>1, <3>1, <3>2, StatusIsSet, TaskGoesOn
            DEF TaskWorks, Worked, StartQr, requestVars
  <2> QED BY <1>1, <2>2, <2>3 DEF StartQr
<1>2. ASSUME NEW i \in Intent, PollIntent(i) PROVE TaskWorks
  BY <1>2, StatusIsSet DEF TaskWorks, Worked, PollIntent, requestVars, Types
<1>3. ASSUME NEW i \in Intent, ScanAnswered(i) PROVE TaskWorks
  <2>1. CASE SetStatus(i, "over") /\ Ends(i)
    BY <1>3, <2>1, StatusIsSet, TaskEnds DEF TaskWorks, Worked, ScanAnswered, requestVars
  <2>2. ASSUME NEW w \in Weixin, UNCHANGED bindIntent,
               scanWait' = [scanWait EXCEPT ![i].pc = "reread", ![i].result = "connected",
                                            ![i].weixin = w]
        PROVE  TaskWorks
    BY <1>3, <2>2, TaskGoesOn DEF TaskWorks, Worked, ScanAnswered, requestVars, Types
  <2>3. CASE /\ scanWait' = [scanWait EXCEPT ![i].pc = "reread", ![i].result = "over"]
             /\ UNCHANGED bindIntent
    <3>1. scanWait' = [scanWait EXCEPT ![i].pc = "reread", ![i].result = "over",
                                       ![i].weixin = scanWait[i].weixin]
      BY <2>3 DEF Types, WaitType
    <3>2. scanWait[i].weixin \in Weixin \cup {NoWeixin}
      BY DEF Types, WaitType
    <3> QED BY <1>3, <2>3, <3>1, <3>2, TaskGoesOn
            DEF TaskWorks, Worked, ScanAnswered, requestVars, Types
  <2> QED BY <1>3, <2>1, <2>2, <2>3 DEF ScanAnswered
<1>4. ASSUME NEW i \in Intent, CompleteIntent(i) PROVE TaskWorks \/ Completes(i)
  <2>1. CASE scanWait[i].result # "connected"
    <3>1. scanWait[i].result = "over"
      BY <1>4, <2>1 DEF CompleteIntent, Types, WaitType
    <3> QED BY <1>4, <2>1, <3>1, StatusIsSet, TaskEnds
            DEF TaskWorks, Worked, CompleteIntent, requestVars
  <2>2. CASE scanWait[i].result = "connected"
    BY <1>4, <2>2 DEF CompleteIntent, Completes, Completion
  <2> QED BY <2>1, <2>2
<1> QED BY <1>1, <1>2, <1>3, <1>4 DEF BindingNext

LEMMA UnbindStarts ==
    ASSUME Types, AccountsExist, NEW p \in Person, StartUnbind(p)
    PROVE  /\ unbinder' \in [Person -> RequestType]
           /\ unbinder'[p].account \in Account /\ Known(unbinder'[p].account)
           /\ \A q \in Person : q # p => unbinder'[q] = unbinder[q]
           /\ UNCHANGED <<lastAccount, wiped, bindIntent, channelRow, talk, scanWait, inbound,
                          second, withdrawn, busyAtWipe, askedAtWipe>>
<1>1. PICK keep \in BOOLEAN :
          unbinder' = [unbinder EXCEPT ![p] =
              [pc |-> "logout", account |-> Entry(p), keep |-> keep,
               logouts |-> {r.weixin : r \in RowsOf(Entry(p))}]]
  BY DEF StartUnbind
<1>2. Entry(p) \in Account /\ Known(Entry(p))
  BY BindingBounds DEF StartUnbind, HasEntry, Entry, Account, AccountsExist, Types, Known
<1>3. {r.weixin : r \in RowsOf(Entry(p))} \in SUBSET (Weixin \cup {NoWeixin})
  BY DEF RowsOf, Types, RowType
<1> DEFINE n == [pc |-> "logout", account |-> Entry(p), keep |-> keep,
                 logouts |-> {r.weixin : r \in RowsOf(Entry(p))}]
<1>4. n \in RequestType /\ n.account = Entry(p)
  BY <1>2, <1>3 DEF RequestType
<1> HIDE DEF n
<1>5. unbinder' = [unbinder EXCEPT ![p] = n]
  BY <1>1 DEF n
<1> QED BY <1>2, <1>4, <1>5 DEF Types, StartUnbind

LEMMA LogoutIsDone ==
    ASSUME Types, NEW p \in Person, Logout(p)
    PROVE  /\ unbinder' \in [Person -> RequestType]
           /\ unbinder[p].pc # "idle"
           /\ \A q \in Person : /\ unbinder'[q].account = unbinder[q].account
                                /\ q # p => unbinder'[q] = unbinder[q]
           /\ UNCHANGED <<lastAccount, wiped, bindIntent, channelRow, talk, scanWait, inbound,
                          second, withdrawn, busyAtWipe, askedAtWipe>>
<1> DEFINE n == [unbinder[p] EXCEPT !.pc = "unbind", !.logouts = {}]
<1>1. n \in RequestType /\ n.account = unbinder[p].account
  BY DEF Types, RequestType
<1>2. unbinder' = [unbinder EXCEPT ![p] = n]
  BY DEF Logout
<1> HIDE DEF n
<1> QED BY <1>1, <1>2 DEF Types, Logout

LEMMA UnbindCommits ==
    ASSUME Types, AccountsExist, NEW p \in Person, CommitUnbind(p),
           NEW a, a = unbinder[p].account
    PROVE  /\ a \in Account /\ Known(a)
           /\ bindIntent' \in [Intent -> IntentType]
           /\ channelRow' = channelRow \ RowsOf(a)
           /\ \/ /\ \A j \in Intent :
                       \/ bindIntent'[j] = bindIntent[j]
                       \/ /\ bindIntent[j].status = "completed"
                          /\ bindIntent'[j].status = "revoked"
                          /\ bindIntent'[j].account = bindIntent[j].account
                          /\ bindIntent'[j].at = bindIntent[j].at
                          /\ bindIntent[j] # NoIntent
                 /\ withdrawn' = withdrawn \cup {j \in Intent : bindIntent'[j] # bindIntent[j]}
                 /\ UNCHANGED <<talk, wiped, busyAtWipe, askedAtWipe>>
              \/ /\ \A j \in Intent : bindIntent'[j] = IF bindIntent[j].account = a THEN NoIntent
                                                       ELSE bindIntent[j]
                 /\ talk' = talk \ {a}
                 /\ wiped' = wiped \cup {a}
                 /\ busyAtWipe' = IF Busy(a) THEN busyAtWipe \cup {a} ELSE busyAtWipe
                 /\ askedAtWipe' = IF Asked(a) THEN askedAtWipe \cup {a} ELSE askedAtWipe
                 /\ withdrawn' = {j \in withdrawn : bindIntent[j].account # a}
           /\ unbinder' \in [Person -> RequestType]
           /\ unbinder'[p].pc = "idle"
           /\ \A q \in Person : q # p => unbinder'[q] = unbinder[q]
           /\ UNCHANGED <<lastAccount, scanWait, inbound, second>>
<1>1. a \in Account /\ Known(a)
  BY DEF CommitUnbind, AccountsExist
<1>2. NoRequest \in RequestType /\ NoRequest.pc = "idle"
  BY DEF NoRequest, RequestType
<1>3. unbinder' = [unbinder EXCEPT ![p] = NoRequest]
  BY DEF CommitUnbind
<1>4. /\ unbinder' \in [Person -> RequestType]
      /\ unbinder'[p].pc = "idle"
      /\ \A q \in Person : q # p => unbinder'[q] = unbinder[q]
  BY <1>2, <1>3 DEF Types
<1>5. CASE unbinder[p].keep
  <2>1. bindIntent' = Revoked(a)
    BY <1>5 DEF CommitUnbind
  <2>2. ASSUME NEW j \in Intent
        PROVE  /\ bindIntent'[j] \in IntentType
               /\ \/ bindIntent'[j] = bindIntent[j]
                  \/ /\ bindIntent[j].status = "completed"
                     /\ bindIntent'[j].status = "revoked"
                     /\ bindIntent'[j].account = bindIntent[j].account
                     /\ bindIntent'[j].at = bindIntent[j].at
                     /\ bindIntent[j] # NoIntent
    <3> DEFINE n == [bindIntent[j] EXCEPT !.status = "revoked"]
    <3>1. bindIntent[j] \in IntentType
      BY DEF Types
    <3>2. /\ n \in IntentType /\ n.status = "revoked" /\ n.at = bindIntent[j].at
          /\ n.account = bindIntent[j].account
      BY <3>1 DEF IntentType
    <3>3. \/ bindIntent'[j] = bindIntent[j]
          \/ bindIntent[j].status = "completed" /\ bindIntent'[j] = n
      <4>1. CASE bindIntent[j].account = a /\ bindIntent[j].status = "completed"
        BY <4>1, <2>1 DEF Revoked
      <4>2. ASSUME ~(bindIntent[j].account = a /\ bindIntent[j].status = "completed")
            PROVE  bindIntent'[j] = bindIntent[j]
        <5>1. bindIntent'[j] = Revoked(a)[j]
          BY <2>1
        <5> QED BY <4>2, <5>1 DEF Revoked
      <4> QED BY <4>1, <4>2
    <3>4. NoIntent.status = "none"
      BY DEF NoIntent
    <3> HIDE DEF n
    <3> QED BY <3>1, <3>2, <3>3, <3>4
  <2>3. bindIntent' \in [Intent -> IntentType]
    BY <2>1, <2>2 DEF Revoked
  <2>4. withdrawn' = withdrawn \cup {j \in Intent : bindIntent'[j] # bindIntent[j]}
    BY <1>5, <2>1 DEF CommitUnbind
  <2> QED BY <1>1, <1>4, <1>5, <2>2, <2>3, <2>4 DEF CommitUnbind
<1>6. CASE ~unbinder[p].keep
  <2>1. bindIntent' = WipedIntents(a)
    BY <1>6 DEF CommitUnbind
  <2>2. NoIntent \in IntentType
    BY DEF NoIntent, IntentType
  <2>3. /\ bindIntent' \in [Intent -> IntentType]
        /\ \A j \in Intent : bindIntent'[j] = IF bindIntent[j].account = a THEN NoIntent
                                               ELSE bindIntent[j]
    BY <2>1, <2>2 DEF WipedIntents, Types
  <2> QED BY <1>1, <1>4, <1>6, <2>3 DEF CommitUnbind
<1> QED BY <1>5, <1>6

LEMMA IntentIsAsked ==
    ASSUME Types, AccountsExist, NEW p \in Person, NEW i \in Intent, AskIntent(p, i)
    PROVE  /\ lastAccount' \in [Person -> Nat]
           /\ \A q \in Person : lastAccount[q] <= lastAccount'[q] /\ lastAccount'[q] <= MaxAccounts
           /\ scanWait' \in [Intent -> WaitType]
           /\ bindIntent[i] = NoIntent
           /\ scanWait'[i].pc = "insert" /\ scanWait'[i].account \in Account \ wiped
           /\ \A j \in Intent \ {i} : scanWait'[j] = scanWait[j]
           /\ UNCHANGED <<wiped, bindIntent, channelRow, talk, inbound, second, requestVars>>
<1> DEFINE a == <<p, lastAccount'[p]>>
           w == [NoWait EXCEPT !.pc = "insert", !.account = a]
<1>1. /\ lastAccount' \in [Person -> Nat]
      /\ \A q \in Person : lastAccount[q] <= lastAccount'[q] /\ lastAccount'[q] <= MaxAccounts
      /\ lastAccount'[p] > 0
  BY BindingBounds DEF AskIntent, EnsureAccount, HasEntry, Types, AccountsExist
<1>2. a \in Account
  BY <1>1, BindingBounds DEF Account
<1>3. a \notin wiped
  <2>1. CASE HasEntry(p)
    BY <2>1 DEF AskIntent, EnsureAccount, HasEntry, Entry
  <2>2. CASE ~HasEntry(p)
    <3>1. lastAccount'[p] = lastAccount[p] + 1
      BY <2>2 DEF AskIntent, EnsureAccount, Types
    <3>2. a[1] = p /\ a[2] = lastAccount[p] + 1
      BY <3>1
    <3> QED BY <3>2 DEF AccountsExist, Known, Types
  <2> QED BY <2>1, <2>2
<1>4. w \in WaitType /\ w.pc = "insert" /\ w.account = a
  BY <1>2 DEF NoWait, WaitType
<1>5. scanWait' = [scanWait EXCEPT ![i] = w]
  BY DEF AskIntent
<1> HIDE DEF a, w
<1>6. /\ bindIntent[i] = NoIntent
      /\ UNCHANGED <<wiped, bindIntent, channelRow, talk, inbound, second, requestVars>>
  BY DEF AskIntent
<1>7. /\ scanWait' \in [Intent -> WaitType] /\ scanWait'[i] = w
      /\ \A j \in Intent \ {i} : scanWait'[j] = scanWait[j]
  BY <1>4, <1>5 DEF Types
<1> QED BY <1>1, <1>2, <1>3, <1>4, <1>6, <1>7

LEMMA IntentIsCreated ==
    ASSUME Types, AccountsExist, NEW i \in Intent, CreateIntent(i)
    PROVE  /\ scanWait[i].pc = "insert"
           /\ bindIntent'[i].account = scanWait[i].account /\ scanWait[i].account \in Account
           /\ bindIntent'[i].status = "created"
           /\ bindIntent' \in [Intent -> IntentType] /\ scanWait' \in [Intent -> WaitType]
           /\ scanWait'[i].pc = "start" /\ scanWait'[i].account = NoOne
           /\ \A j \in Intent \ {i} : bindIntent'[j] = bindIntent[j] /\ scanWait'[j] = scanWait[j]
           /\ UNCHANGED <<lastAccount, wiped, channelRow, talk, inbound, second, requestVars>>
<1> DEFINE n == [NoIntent EXCEPT !.status = "created", !.account = scanWait[i].account]
           w == [NoWait EXCEPT !.pc = "start"]
<1>1. scanWait[i].pc = "insert" /\ scanWait[i].account \in Account
  BY DEF CreateIntent, AccountsExist
<1>2. n \in IntentType /\ n.status = "created" /\ n.account = scanWait[i].account
  BY <1>1 DEF NoIntent, IntentType
<1>3. w \in WaitType /\ w.pc = "start" /\ w.account = NoOne
  BY DEF NoWait, WaitType
<1>4. bindIntent' = [bindIntent EXCEPT ![i] = n] /\ scanWait' = [scanWait EXCEPT ![i] = w]
  BY DEF CreateIntent
<1> HIDE DEF n, w
<1>5. UNCHANGED <<lastAccount, wiped, channelRow, talk, inbound, second, requestVars>>
  BY DEF CreateIntent
<1>6. /\ bindIntent' \in [Intent -> IntentType] /\ scanWait' \in [Intent -> WaitType]
      /\ bindIntent'[i] = n /\ scanWait'[i] = w
      /\ \A j \in Intent \ {i} : bindIntent'[j] = bindIntent[j] /\ scanWait'[j] = scanWait[j]
  BY <1>2, <1>3, <1>4 DEF Types
<1> QED BY <1>1, <1>2, <1>3, <1>5, <1>6

LEMMA IntentIsReread ==
    ASSUME Types, NEW i \in Intent, RereadIntent(i)
    PROVE  /\ scanWait' \in [Intent -> WaitType]
           /\ \A j \in Intent : j # i => scanWait'[j] = scanWait[j]
           /\ scanWait[i].pc = "reread"
           /\ \/ scanWait'[i].pc = "off" /\ scanWait'[i].account = NoOne
              \/ /\ bindIntent[i] # NoIntent
                 /\ scanWait'[i].pc = "complete" /\ scanWait'[i].result = scanWait[i].result
                 /\ scanWait'[i].account = bindIntent[i].account
           /\ UNCHANGED <<lastAccount, wiped, bindIntent, channelRow, talk, inbound, second, requestVars>>
<1> DEFINE n == [scanWait[i] EXCEPT !.pc = "complete", !.account = bindIntent[i].account]
<1>1. NoWait \in WaitType /\ NoWait.pc = "off" /\ NoWait.account = NoOne
  BY DEF NoWait, WaitType
<1>2. /\ n \in WaitType /\ n.pc = "complete" /\ n.result = scanWait[i].result
      /\ n.account = bindIntent[i].account
  BY DEF Types, WaitType, IntentType
<1>3. \/ scanWait' = [scanWait EXCEPT ![i] = NoWait]
      \/ bindIntent[i] # NoIntent /\ scanWait' = [scanWait EXCEPT ![i] = n]
  BY DEF RereadIntent, Ends
<1> HIDE DEF n
<1> QED BY <1>1, <1>2, <1>3 DEF Types, RereadIntent

LEMMA IntentIsCompleted ==
    ASSUME Types, NEW i \in Intent, Completes(i)
    PROVE  /\ bindIntent' \in [Intent -> IntentType] /\ scanWait' \in [Intent -> WaitType]
           /\ \A j \in Intent \ {i} : bindIntent'[j] = bindIntent[j] /\ scanWait'[j] = scanWait[j]
           /\ scanWait[i].pc = "complete"
           /\ scanWait'[i].pc = "row" /\ scanWait'[i].account = scanWait[i].account
           /\ second' \in Nat
           /\ bindIntent'[i].account = bindIntent[i].account
           /\ \/ bindIntent[i] = NoIntent /\ bindIntent'[i] = bindIntent[i]
              \/ /\ bindIntent[i] # NoIntent
                 /\ bindIntent'[i].status = "completed"
           /\ UNCHANGED <<lastAccount, wiped, channelRow, talk, inbound, requestVars>>
<1> DEFINE w == [scanWait[i] EXCEPT !.pc = "row"]
           n == [bindIntent[i] EXCEPT !.status = "completed", !.weixin = scanWait[i].weixin,
                                      !.at = second']
<1>1. w \in WaitType /\ w.pc = "row" /\ w.account = scanWait[i].account
  BY DEF Types, WaitType
<1>2. /\ n \in IntentType /\ n.status = "completed"
      /\ n.account = bindIntent[i].account
  <2>1. bindIntent[i] \in IntentType /\ second' \in Nat
    BY DEF Types, Completes
  <2>2. scanWait[i].weixin \in Weixin \cup {NoWeixin}
    BY DEF Types, WaitType
  <2> QED BY <2>1, <2>2 DEF IntentType
<1>3. scanWait' = [scanWait EXCEPT ![i] = w]
  BY DEF Completes
<1>4. \/ bindIntent[i] = NoIntent /\ bindIntent' = bindIntent
      \/ bindIntent[i] # NoIntent /\ bindIntent' = [bindIntent EXCEPT ![i] = n]
  BY DEF Completes, Completion
<1> HIDE DEF n, w
<1> QED BY <1>1, <1>2, <1>3, <1>4 DEF Types, Completes

LEMMA MessageMoves ==
    ASSUME Types, AccountsExist, NEW t \in Inbound,
           \/ OpenSession(t) \/ RecordPeer(t) \/ KeepMessage(t)
    PROVE  /\ inbound' \in [Inbound -> MessageType]
           /\ \A u \in Inbound : u # t => inbound'[u] = inbound[u]
           /\ inbound[t].account \in Account
           /\ inbound'[t].account \in {inbound[t].account, NoOne}
           /\ inbound'[t].pc # "idle" => inbound'[t].account = inbound[t].account
           /\ UNCHANGED <<lastAccount, wiped, bindIntent, scanWait, second, requestVars>>
<1> DEFINE n(l) == [inbound[t] EXCEPT !.pc = l]
<1>1. \A l \in {"row", "store"} : /\ n(l) \in MessageType /\ n(l).pc = l
                                  /\ n(l).account = inbound[t].account
  BY DEF Types, MessageType
<1>2. NoMessage \in MessageType /\ NoMessage.pc = "idle" /\ NoMessage.account = NoOne
  BY DEF NoMessage, MessageType
<1>3. /\ inbound[t].pc # "idle"
      /\ \/ \E l \in {"row", "store"} : inbound' = [inbound EXCEPT ![t] = n(l)]
         \/ inbound' = [inbound EXCEPT ![t] = NoMessage]
      /\ UNCHANGED <<lastAccount, wiped, bindIntent, scanWait, second, requestVars>>
  BY DEF OpenSession, RecordPeer, KeepMessage
<1> HIDE DEF n
<1> QED BY <1>1, <1>2, <1>3 DEF Types, AccountsExist

LEMMA MessageArrives ==
    ASSUME Types, AccountsExist, NEW t \in Inbound, NEW w \in Weixin, Receive(t, w)
    PROVE  /\ inbound' \in [Inbound -> MessageType]
           /\ \A u \in Inbound : u # t => inbound'[u] = inbound[u]
           /\ \E i \in Intent : inbound'[t].account = bindIntent[i].account
           /\ inbound'[t].account \in Account
           /\ UNCHANGED <<lastAccount, wiped, bindIntent, channelRow, talk, scanWait, second,
                          requestVars>>
<1>1. PICK i \in Completed(w) :
         inbound' = [inbound EXCEPT ![t] =
                        [pc |-> "session", account |-> bindIntent[i].account, weixin |-> w]]
  BY DEF Receive
<1>2. i \in Intent /\ bindIntent[i].status = "completed"
  BY DEF Completed
<1>3. bindIntent[i].account \in Account
  BY <1>2 DEF AccountsExist, NoIntent
<1> DEFINE n == [pc |-> "session", account |-> bindIntent[i].account, weixin |-> w]
<1>4. n \in MessageType /\ n.account = bindIntent[i].account
  BY <1>3 DEF MessageType
<1>5. inbound' = [inbound EXCEPT ![t] = n]
  BY <1>1
<1> HIDE DEF n
<1> QED BY <1>2, <1>3, <1>4, <1>5 DEF Types, Receive

\* No step leaves the types.
LEMMA TypeStep ==
    ASSUME Types, AccountsExist, [BindingNext]_bindingVars
    PROVE  Types'
<1>0. CASE UNCHANGED bindingVars
  BY <1>0 DEF bindingVars, requestVars, Types
<1>1. ASSUME NEW p \in Person, StartUnbind(p)
      PROVE  Types'
  BY <1>1, UnbindStarts DEF requestVars, Types
<1>2. ASSUME NEW p \in Person, Logout(p)
      PROVE  Types'
  BY <1>2, LogoutIsDone DEF requestVars, Types
<1>3. ASSUME NEW p \in Person, CommitUnbind(p)
      PROVE  Types'
  <2>1. PICK a \in Account : a = unbinder[p].account
    BY <1>3, UnbindCommits
  <2>2. Asked(a) => Busy(a)
    BY DEF Asked, Busy
  <2>3. askedAtWipe' \subseteq busyAtWipe' /\ busyAtWipe' \subseteq wiped'
    BY <1>3, <2>1, <2>2, UnbindCommits DEF Types
  <2> QED BY <1>3, <2>1, <2>3, UnbindCommits DEF Types
<1>4. ASSUME NEW i \in Intent, CreateIntent(i)
      PROVE  Types'
  BY <1>4, IntentIsCreated DEF requestVars, Types
<1>5. ASSUME TaskWorks PROVE Types'
  BY <1>5 DEF TaskWorks, Worked, requestVars, Types
<1>6. ASSUME NEW i \in Intent, RereadIntent(i)
      PROVE  Types'
  BY <1>6, IntentIsReread DEF requestVars, Types
<1>7. ASSUME NEW i \in Intent, Completes(i)
      PROVE  Types'
  BY <1>7, IntentIsCompleted DEF requestVars, Types
<1>8. ASSUME NEW i \in Intent, RecordScan(i)
      PROVE  Types'
  BY <1>8 DEF RecordScan, WithRow, Ends, NoWait, AccountsExist, RowType, WaitType, requestVars, Types
<1>9. ASSUME NEW t \in Inbound, OpenSession(t)
      PROVE  Types'
  BY <1>9, MessageMoves DEF OpenSession, requestVars, Types
<1>10. ASSUME NEW t \in Inbound, RecordPeer(t)
      PROVE  Types'
  <2>1. [account |-> inbound[t].account, key |-> "chat", weixin |-> inbound[t].weixin] \in RowType
    BY <1>10, MessageMoves DEF Types, RowType, MessageType
  <2>2. channelRow' \subseteq RowType
    BY <1>10, <2>1 DEF Types, RecordPeer, WithRow
  <2> QED BY <1>10, <2>2, MessageMoves DEF Types, RecordPeer, requestVars
<1>11. ASSUME NEW t \in Inbound, KeepMessage(t)
      PROVE  Types'
  BY <1>11, MessageMoves DEF KeepMessage, requestVars, Types
<1>12. ASSUME NEW t \in Inbound, NEW w \in Weixin, Receive(t, w)
      PROVE  Types'
  BY <1>12, MessageArrives DEF requestVars, Types
<1>13. ASSUME NodeStops PROVE Types'
  BY <1>13 DEF NodeStops, NoWait, NoMessage, NoRequest, IntentType, WaitType, MessageType, RequestType, RowType, requestVars, Types
<1>14. ASSUME NEW p \in Person, NEW i \in Intent, AskIntent(p, i)
      PROVE  Types'
  BY <1>14, IntentIsAsked DEF requestVars, Types
<1> QED BY <1>0, <1>1, <1>2, <1>3, <1>4, <1>5, <1>6, <1>7, <1>8, <1>9, <1>10, <1>11, <1>12, <1>13, <1>14, Steps

\* Every account that is worked for is one that its person has had.
LEMMA AccountsStep ==
    ASSUME Types, AccountsExist, [BindingNext]_bindingVars
    PROVE  AccountsExist'
<1>0. CASE UNCHANGED bindingVars
  BY <1>0 DEF bindingVars, requestVars, Types, AccountsExist, Known, Account
<1>1. ASSUME NEW p \in Person, StartUnbind(p)
      PROVE  AccountsExist'
  BY <1>1, UnbindStarts DEF requestVars, Types, AccountsExist, Known, Account
<1>2. ASSUME NEW p \in Person, Logout(p)
      PROVE  AccountsExist'
  BY <1>2, LogoutIsDone DEF requestVars, Types, AccountsExist, Known, Account
<1>3. ASSUME NEW p \in Person, CommitUnbind(p)
      PROVE  AccountsExist'
  BY <1>3, UnbindCommits DEF requestVars, Types, AccountsExist, Known, Account
<1>4. ASSUME NEW i \in Intent, CreateIntent(i)
      PROVE  AccountsExist'
  BY <1>4, IntentIsCreated DEF requestVars, Types, AccountsExist, Known, Account
<1>5. ASSUME TaskWorks PROVE AccountsExist'
  BY <1>5 DEF TaskWorks, Worked, requestVars, Types, AccountsExist, Known, Account
<1>6. ASSUME NEW i \in Intent, RereadIntent(i)
      PROVE  AccountsExist'
  BY <1>6, IntentIsReread DEF requestVars, Types, AccountsExist, Known, Account
<1>7. ASSUME NEW i \in Intent, Completes(i)
      PROVE  AccountsExist'
  BY <1>7, IntentIsCompleted DEF requestVars, Types, AccountsExist, Known, Account
<1>8. ASSUME NEW i \in Intent, RecordScan(i)
      PROVE  AccountsExist'
  BY <1>8 DEF RecordScan, WithRow, Ends, NoWait, requestVars, Types, AccountsExist, Known, Account
<1>9. ASSUME NEW t \in Inbound, OpenSession(t)
      PROVE  AccountsExist'
  BY <1>9, MessageMoves DEF OpenSession, requestVars, Types, AccountsExist, Known, Account
<1>10. ASSUME NEW t \in Inbound, RecordPeer(t)
      PROVE  AccountsExist'
  BY <1>10, MessageMoves DEF RecordPeer, WithRow, requestVars, Types, AccountsExist, Known, Account
<1>11. ASSUME NEW t \in Inbound, KeepMessage(t)
      PROVE  AccountsExist'
  BY <1>11, MessageMoves DEF KeepMessage, requestVars, Types, AccountsExist, Known, Account
<1>12. ASSUME NEW t \in Inbound, NEW w \in Weixin, Receive(t, w)
      PROVE  AccountsExist'
  BY <1>12, MessageArrives DEF requestVars, Types, AccountsExist, Known, Account
<1>13. ASSUME NodeStops PROVE AccountsExist'
  BY <1>13 DEF NodeStops, NoWait, NoMessage, NoRequest, requestVars, Types, AccountsExist, Known, Account
<1>14. ASSUME NEW p \in Person, NEW i \in Intent, AskIntent(p, i)
      PROVE  AccountsExist'
  BY <1>14, IntentIsAsked DEF requestVars, Types, AccountsExist, Known, Account
<1> QED BY <1>0, <1>1, <1>2, <1>3, <1>4, <1>5, <1>6, <1>7, <1>8, <1>9, <1>10, <1>11, <1>12, <1>13, <1>14, Steps

\* No intent of a wiped account is left, and none is made but by who was asking.
LEMMA NoWipedStep ==
    ASSUME Types, AccountsExist, NoWipedIntent, [BindingNext]_bindingVars
    PROVE  NoWipedIntent'
<1>0. CASE UNCHANGED bindingVars
  BY <1>0 DEF bindingVars, requestVars, Types, NoIntent, NoWipedIntent
<1>1. ASSUME NEW p \in Person, StartUnbind(p)
      PROVE  NoWipedIntent'
  BY <1>1, UnbindStarts, NoOneIsNoAccount DEF requestVars, Types, NoIntent, NoWipedIntent
<1>2. ASSUME NEW p \in Person, Logout(p)
      PROVE  NoWipedIntent'
  BY <1>2, LogoutIsDone, NoOneIsNoAccount DEF requestVars, Types, NoIntent, NoWipedIntent
<1>3. ASSUME NEW p \in Person, CommitUnbind(p)
      PROVE  NoWipedIntent'
  <2>1. PICK a \in Account : a = unbinder[p].account
    BY <1>3, UnbindCommits
  <2>2. ASSUME NEW i \in Intent, bindIntent'[i].account \in wiped'
        PROVE  bindIntent'[i].account \in askedAtWipe'
    BY <1>3, <2>1, <2>2, UnbindCommits, NoOneIsNoAccount DEF NoWipedIntent, NoIntent, Types
  <2>3. ASSUME NEW i \in Intent, scanWait[i].pc = "insert", scanWait[i].account \in wiped'
        PROVE  scanWait[i].account \in askedAtWipe'
    <3>1. CASE scanWait[i].account \in wiped
      BY <1>3, <2>1, <2>3, <3>1, UnbindCommits DEF NoWipedIntent
    <3>2. CASE scanWait[i].account \notin wiped
      <4>1. scanWait[i].account = a /\ wiped' # wiped
        BY <1>3, <2>1, <2>3, <3>2, UnbindCommits
      <4>2. Asked(a)
        BY <2>3, <4>1 DEF Asked
      <4> QED BY <1>3, <2>1, <4>1, <4>2, UnbindCommits
    <3> QED BY <3>1, <3>2
  <2>4. UNCHANGED scanWait
    BY <1>3, <2>1, UnbindCommits
  <2> QED BY <2>2, <2>3, <2>4 DEF NoWipedIntent
<1>4. ASSUME NEW i \in Intent, CreateIntent(i)
      PROVE  NoWipedIntent'
  BY <1>4, IntentIsCreated, NoOneIsNoAccount DEF requestVars, Types, NoIntent, NoWipedIntent
<1>5. ASSUME TaskWorks PROVE NoWipedIntent'
  BY <1>5, NoOneIsNoAccount DEF TaskWorks, Worked, requestVars, Types, NoIntent, NoWipedIntent
<1>6. ASSUME NEW i \in Intent, RereadIntent(i)
      PROVE  NoWipedIntent'
  BY <1>6, IntentIsReread, NoOneIsNoAccount DEF requestVars, Types, NoIntent, NoWipedIntent
<1>7. ASSUME NEW i \in Intent, Completes(i)
      PROVE  NoWipedIntent'
  BY <1>7, IntentIsCompleted, NoOneIsNoAccount DEF requestVars, Types, NoIntent, NoWipedIntent
<1>8. ASSUME NEW i \in Intent, RecordScan(i)
      PROVE  NoWipedIntent'
  BY <1>8, NoOneIsNoAccount DEF RecordScan, WithRow, Ends, NoWait, requestVars, Types, NoIntent, NoWipedIntent
<1>9. ASSUME NEW t \in Inbound, OpenSession(t)
      PROVE  NoWipedIntent'
  BY <1>9, MessageMoves, NoOneIsNoAccount DEF OpenSession, requestVars, Types, NoIntent, NoWipedIntent
<1>10. ASSUME NEW t \in Inbound, RecordPeer(t)
      PROVE  NoWipedIntent'
  BY <1>10, MessageMoves, NoOneIsNoAccount DEF RecordPeer, WithRow, requestVars, Types, NoIntent, NoWipedIntent
<1>11. ASSUME NEW t \in Inbound, KeepMessage(t)
      PROVE  NoWipedIntent'
  BY <1>11, MessageMoves, NoOneIsNoAccount DEF KeepMessage, requestVars, Types, NoIntent, NoWipedIntent
<1>12. ASSUME NEW t \in Inbound, NEW w \in Weixin, Receive(t, w)
      PROVE  NoWipedIntent'
  BY <1>12, MessageArrives, NoOneIsNoAccount DEF requestVars, Types, NoIntent, NoWipedIntent
<1>13. ASSUME NodeStops PROVE NoWipedIntent'
  BY <1>13, NoOneIsNoAccount DEF NodeStops, NoWait, NoMessage, NoRequest, requestVars, Types, NoIntent, NoWipedIntent
<1>14. ASSUME NEW p \in Person, NEW i \in Intent, AskIntent(p, i)
      PROVE  NoWipedIntent'
  BY <1>14, IntentIsAsked, NoOneIsNoAccount DEF requestVars, Types, NoIntent, NoWipedIntent
<1> QED BY <1>0, <1>1, <1>2, <1>3, <1>4, <1>5, <1>6, <1>7, <1>8, <1>9, <1>10, <1>11, <1>12, <1>13, <1>14, Steps

\* What is completed is not worked on.
LEMMA CompletedStep ==
    ASSUME Types, AccountsExist, CompletedOnce, [BindingNext]_bindingVars
    PROVE  CompletedOnce'
<1>0. CASE UNCHANGED bindingVars
  BY <1>0 DEF bindingVars, requestVars, Types, CompletedOnce, NoIntent, IntentType
<1>1. ASSUME NEW p \in Person, StartUnbind(p)
      PROVE  CompletedOnce'
  BY <1>1, UnbindStarts DEF requestVars, Types, CompletedOnce, NoIntent, IntentType
<1>2. ASSUME NEW p \in Person, Logout(p)
      PROVE  CompletedOnce'
  BY <1>2, LogoutIsDone DEF requestVars, Types, CompletedOnce, NoIntent, IntentType
<1>3. ASSUME NEW p \in Person, CommitUnbind(p)
      PROVE  CompletedOnce'
  BY <1>3, UnbindCommits, SMTT(30) DEF requestVars, Types, CompletedOnce, NoIntent, IntentType
<1>4. ASSUME NEW i \in Intent, CreateIntent(i)
      PROVE  CompletedOnce'
  <2>1. \A j \in Intent : bindIntent'[j].status \in {"completed", "revoked"} => j # i
    BY <1>4, IntentIsCreated
  <2> QED BY <1>4, <2>1, IntentIsCreated DEF CompletedOnce
<1>5. ASSUME TaskWorks PROVE CompletedOnce'
  BY <1>5, SMTT(30) DEF TaskWorks, Worked, requestVars, Types, CompletedOnce, NoIntent, IntentType
<1>6. ASSUME NEW i \in Intent, RereadIntent(i)
      PROVE  CompletedOnce'
  BY <1>6, IntentIsReread DEF requestVars, Types, CompletedOnce, NoIntent, IntentType
<1>7. ASSUME NEW i \in Intent, Completes(i)
      PROVE  CompletedOnce'
  BY <1>7, IntentIsCompleted DEF CompletedOnce, NoIntent
<1>8. ASSUME NEW i \in Intent, RecordScan(i)
      PROVE  CompletedOnce'
  BY <1>8 DEF RecordScan, WithRow, Ends, NoWait, requestVars, Types, CompletedOnce, NoIntent, IntentType
<1>9. ASSUME NEW t \in Inbound, OpenSession(t)
      PROVE  CompletedOnce'
  BY <1>9, MessageMoves DEF OpenSession, requestVars, Types, CompletedOnce, NoIntent, IntentType
<1>10. ASSUME NEW t \in Inbound, RecordPeer(t)
      PROVE  CompletedOnce'
  BY <1>10, MessageMoves DEF RecordPeer, WithRow, requestVars, Types, CompletedOnce, NoIntent, IntentType
<1>11. ASSUME NEW t \in Inbound, KeepMessage(t)
      PROVE  CompletedOnce'
  BY <1>11, MessageMoves DEF KeepMessage, requestVars, Types, CompletedOnce, NoIntent, IntentType
<1>12. ASSUME NEW t \in Inbound, NEW w \in Weixin, Receive(t, w)
      PROVE  CompletedOnce'
  BY <1>12, MessageArrives DEF requestVars, Types, CompletedOnce, NoIntent, IntentType
<1>13. ASSUME NodeStops PROVE CompletedOnce'
  BY <1>13 DEF NodeStops, NoWait, NoMessage, NoRequest, requestVars, Types, CompletedOnce, NoIntent, IntentType
<1>14. ASSUME NEW p \in Person, NEW i \in Intent, AskIntent(p, i)
      PROVE  CompletedOnce'
  BY <1>14, IntentIsAsked DEF CompletedOnce, NoIntent
<1> QED BY <1>0, <1>1, <1>2, <1>3, <1>4, <1>5, <1>6, <1>7, <1>8, <1>9, <1>10, <1>11, <1>12, <1>13, <1>14, Steps

\* What is revoked stays so.
LEMMA RevokedStep ==
    ASSUME Types, AccountsExist, CompletedOnce, RevokedIsFinal, [BindingNext]_bindingVars
    PROVE  RevokedIsFinal'
<1>0. CASE UNCHANGED bindingVars
  BY <1>0 DEF bindingVars, requestVars, Types, CompletedOnce, RevokedIsFinal, NoIntent
<1>1. ASSUME NEW p \in Person, StartUnbind(p)
      PROVE  RevokedIsFinal'
  BY <1>1, UnbindStarts DEF requestVars, Types, CompletedOnce, RevokedIsFinal, NoIntent
<1>2. ASSUME NEW p \in Person, Logout(p)
      PROVE  RevokedIsFinal'
  BY <1>2, LogoutIsDone DEF requestVars, Types, CompletedOnce, RevokedIsFinal, NoIntent
<1>3. ASSUME NEW p \in Person, CommitUnbind(p)
      PROVE  RevokedIsFinal'
  BY <1>3, UnbindCommits DEF requestVars, Types, CompletedOnce, RevokedIsFinal, NoIntent
<1>4. ASSUME NEW i \in Intent, CreateIntent(i)
      PROVE  RevokedIsFinal'
  BY <1>4, IntentIsCreated DEF requestVars, Types, CompletedOnce, RevokedIsFinal, NoIntent
<1>5. ASSUME TaskWorks PROVE RevokedIsFinal'
  BY <1>5 DEF TaskWorks, Worked, requestVars, Types, CompletedOnce, RevokedIsFinal, NoIntent
<1>6. ASSUME NEW i \in Intent, RereadIntent(i)
      PROVE  RevokedIsFinal'
  BY <1>6, IntentIsReread DEF requestVars, Types, CompletedOnce, RevokedIsFinal, NoIntent
<1>7. ASSUME NEW i \in Intent, Completes(i)
      PROVE  RevokedIsFinal'
  BY <1>7, IntentIsCompleted DEF requestVars, Types, CompletedOnce, RevokedIsFinal, NoIntent
<1>8. ASSUME NEW i \in Intent, RecordScan(i)
      PROVE  RevokedIsFinal'
  BY <1>8 DEF RecordScan, WithRow, Ends, NoWait, requestVars, Types, CompletedOnce, RevokedIsFinal, NoIntent
<1>9. ASSUME NEW t \in Inbound, OpenSession(t)
      PROVE  RevokedIsFinal'
  BY <1>9, MessageMoves DEF OpenSession, requestVars, Types, CompletedOnce, RevokedIsFinal, NoIntent
<1>10. ASSUME NEW t \in Inbound, RecordPeer(t)
      PROVE  RevokedIsFinal'
  BY <1>10, MessageMoves DEF RecordPeer, WithRow, requestVars, Types, CompletedOnce, RevokedIsFinal, NoIntent
<1>11. ASSUME NEW t \in Inbound, KeepMessage(t)
      PROVE  RevokedIsFinal'
  BY <1>11, MessageMoves DEF KeepMessage, requestVars, Types, CompletedOnce, RevokedIsFinal, NoIntent
<1>12. ASSUME NEW t \in Inbound, NEW w \in Weixin, Receive(t, w)
      PROVE  RevokedIsFinal'
  BY <1>12, MessageArrives DEF requestVars, Types, CompletedOnce, RevokedIsFinal, NoIntent
<1>13. ASSUME NodeStops PROVE RevokedIsFinal'
  BY <1>13 DEF NodeStops, NoWait, NoMessage, NoRequest, requestVars, Types, CompletedOnce, RevokedIsFinal, NoIntent
<1>14. ASSUME NEW p \in Person, NEW i \in Intent, AskIntent(p, i)
      PROVE  RevokedIsFinal'
  BY <1>14, IntentIsAsked DEF requestVars, Types, CompletedOnce, RevokedIsFinal, NoIntent
<1> QED BY <1>0, <1>1, <1>2, <1>3, <1>4, <1>5, <1>6, <1>7, <1>8, <1>9, <1>10, <1>11, <1>12, <1>13, <1>14, Steps

\* Nothing comes to a wiped account from what was not under way.
LEMMA WipedStep ==
    ASSUME Types, AccountsExist, NoWipedIntent, WipedIsLeftAlone, [BindingNext]_bindingVars
    PROVE  WipedIsLeftAlone'
<1>0. CASE UNCHANGED bindingVars
  BY <1>0 DEF bindingVars, requestVars, Types, NoWipedIntent, WipedIsLeftAlone, Busy, RowsOf
<1>1. ASSUME NEW p \in Person, StartUnbind(p)
      PROVE  WipedIsLeftAlone'
  BY <1>1, UnbindStarts, NoOneIsNoAccount DEF requestVars, Types, NoWipedIntent, WipedIsLeftAlone, Busy, RowsOf
<1>2. ASSUME NEW p \in Person, Logout(p)
      PROVE  WipedIsLeftAlone'
  BY <1>2, LogoutIsDone, NoOneIsNoAccount DEF requestVars, Types, NoWipedIntent, WipedIsLeftAlone, Busy, RowsOf
<1>3. ASSUME NEW p \in Person, CommitUnbind(p)
      PROVE  WipedIsLeftAlone'
  BY <1>3, UnbindCommits, NoOneIsNoAccount DEF requestVars, Types, NoWipedIntent, WipedIsLeftAlone, Busy, RowsOf
<1>4. ASSUME NEW i \in Intent, CreateIntent(i)
      PROVE  WipedIsLeftAlone'
  BY <1>4, IntentIsCreated, NoOneIsNoAccount DEF requestVars, Types, NoWipedIntent, WipedIsLeftAlone, Busy, RowsOf
<1>5. ASSUME TaskWorks PROVE WipedIsLeftAlone'
  BY <1>5, NoOneIsNoAccount DEF TaskWorks, Worked, requestVars, Types, NoWipedIntent, WipedIsLeftAlone, Busy, RowsOf
<1>6. ASSUME NEW i \in Intent, RereadIntent(i)
      PROVE  WipedIsLeftAlone'
  BY <1>6, IntentIsReread, NoOneIsNoAccount DEF requestVars, Types, NoWipedIntent, WipedIsLeftAlone, Busy, RowsOf
<1>7. ASSUME NEW i \in Intent, Completes(i)
      PROVE  WipedIsLeftAlone'
  BY <1>7, IntentIsCompleted, NoOneIsNoAccount DEF requestVars, Types, NoWipedIntent, WipedIsLeftAlone, Busy, RowsOf
<1>8. ASSUME NEW i \in Intent, RecordScan(i)
      PROVE  WipedIsLeftAlone'
  BY <1>8, NoOneIsNoAccount DEF RecordScan, WithRow, Ends, NoWait, requestVars, Types, NoWipedIntent, WipedIsLeftAlone, Busy, RowsOf
<1>9. ASSUME NEW t \in Inbound, OpenSession(t)
      PROVE  WipedIsLeftAlone'
  BY <1>9, MessageMoves, NoOneIsNoAccount DEF OpenSession, requestVars, Types, NoWipedIntent, WipedIsLeftAlone, Busy, RowsOf
<1>10. ASSUME NEW t \in Inbound, RecordPeer(t)
      PROVE  WipedIsLeftAlone'
  BY <1>10, MessageMoves, NoOneIsNoAccount DEF RecordPeer, WithRow, requestVars, Types, NoWipedIntent, WipedIsLeftAlone, Busy, RowsOf
<1>11. ASSUME NEW t \in Inbound, KeepMessage(t)
      PROVE  WipedIsLeftAlone'
  <2> SUFFICES ASSUME NEW a \in wiped' \ busyAtWipe'
               PROVE  ~Busy(a)' /\ a \notin talk' /\ RowsOf(a)' = {}
    BY DEF WipedIsLeftAlone
  <2>1. a \in wiped \ busyAtWipe /\ a # NoOne
    BY <1>11, MessageMoves, NoOneIsNoAccount DEF requestVars, Types
  <2>2. ~Busy(a) /\ a \notin talk /\ RowsOf(a) = {}
    BY <2>1 DEF WipedIsLeftAlone
  <2>3. ~Busy(a)'
    BY <1>11, <2>1, <2>2, MessageMoves DEF Busy
  <2> QED BY <1>11, <2>2, <2>3 DEF KeepMessage, Busy, RowsOf
<1>12. ASSUME NEW t \in Inbound, NEW w \in Weixin, Receive(t, w)
      PROVE  WipedIsLeftAlone'
  BY <1>12, MessageArrives, NoOneIsNoAccount DEF requestVars, Types, NoWipedIntent, WipedIsLeftAlone, Busy, RowsOf
<1>13. ASSUME NodeStops PROVE WipedIsLeftAlone'
  BY <1>13, NoOneIsNoAccount DEF NodeStops, NoWait, NoMessage, NoRequest, requestVars, Types, NoWipedIntent, WipedIsLeftAlone, Busy, RowsOf
<1>14. ASSUME NEW p \in Person, NEW i \in Intent, AskIntent(p, i)
      PROVE  WipedIsLeftAlone'
  BY <1>14, IntentIsAsked, NoOneIsNoAccount DEF requestVars, Types, NoWipedIntent, WipedIsLeftAlone, Busy, RowsOf
<1> QED BY <1>0, <1>1, <1>2, <1>3, <1>4, <1>5, <1>6, <1>7, <1>8, <1>9, <1>10, <1>11, <1>12, <1>13, <1>14, Steps

\* The inductive invariant.
LEMMA Invariance == BindingSpec => []BindingInv
<1>1. BindingInit => BindingInv
  <2> SUFFICES ASSUME BindingInit PROVE BindingInv
    OBVIOUS
  <2>1. /\ NoIntent \in IntentType /\ NoIntent.status = "none"
        /\ NoWait \in WaitType /\ NoWait.pc = "off"
        /\ NoMessage \in MessageType /\ NoMessage.pc = "idle"
        /\ NoRequest \in RequestType /\ NoRequest.pc = "idle"
    BY DEF NoIntent, NoWait, NoMessage, NoRequest, IntentType, WaitType, MessageType, RequestType
  <2>2. Types
    BY <2>1 DEF BindingInit, Types
  <2>3. AccountsExist
    BY <2>1, BindingBounds DEF BindingInit, AccountsExist
  <2>4. CompletedOnce
    BY <2>1 DEF BindingInit, CompletedOnce
  <2> QED BY <2>2, <2>3, <2>4 DEF BindingInit, BindingInv, NoWipedIntent, RevokedIsFinal, WipedIsLeftAlone
<1>2. BindingInv /\ [BindingNext]_bindingVars => BindingInv'
  BY TypeStep, AccountsStep, NoWipedStep, CompletedStep, RevokedStep, WipedStep DEF BindingInv
<1> QED BY <1>1, <1>2, PTL DEF BindingSpec

\* However second, messages, unbindings, wipes and restarts of any number of persons
\* interleave (_wait_for_binding_intent, web_me_unbind): a WeChat leads to no account that is
\* wiped, but for a QR code being asked for during the wipe, and not again once it is
\* revoked; a wiped account keeps nothing that was not under way.
THEOREM BindingHolds == BindingSpec => []BindingIsSound
<1>1. BindingInv => BindingIsSound
  <2> SUFFICES ASSUME BindingInv PROVE BindingIsSound
    OBVIOUS
  <2>1. BindingTypeOK
    BY DEF BindingInv, Types, BindingTypeOK, IntentType
  <2>2. WipedIsUnreachable /\ RevokedIsFinal
    BY DEF BindingInv, NoWipedIntent, WipedIsUnreachable
  <2>3. WipedIsEmpty
    BY DEF BindingInv, WipedIsLeftAlone, WipedIsEmpty
  <2> QED BY <2>1, <2>2, <2>3 DEF BindingIsSound
<1> QED BY <1>1, Invariance, PTL

=============================================================================
