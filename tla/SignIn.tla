------------------------------- MODULE SignIn -------------------------------
(***************************************************************************)
(* How a person signs in with a phone: a code is sent as a text message,   *)
(* verified for a token, and the token is spent on a registration that     *)
(* makes the person, the membership of a product and, on the web, the one  *)
(* entry account with its subscription and its welcome shells; then a      *)
(* session is issued (app/platform/auth/phone_otp.py, app/db/accounts.py,  *)
(* app/db/billing.py, app/db/product_memberships.py, app/routers/web.py,   *)
(* app/products/mingchan/application/identity.py).                         *)
(*                                                                         *)
(* One phone is followed.  Each step is a transaction of its own; requests *)
(* of one phone interleave between them, fail at any of them, and one      *)
(* process serves them all (the deployment is fixed to a single worker).   *)
(* Left out: what the rows of the subscription and of the origin say.      *)
(***************************************************************************)
EXTENDS Naturals, FiniteSets

CONSTANTS Browser,   \* requests that run at the same time
          Way,       \* where people sign in: a subset of {"web", "native"}
          MaxTexts,  \* codes of one phone in an hour (MAX_PER_PHONE_PER_HOUR)
          MaxTries   \* wrong codes after which a row is refused

ASSUME SignInBounds == IsFiniteSet(Browser) /\ MaxTexts \in Nat /\ MaxTries \in Nat \ {0}

VARIABLES otp,      \* rows of phone_verifications, in the order of creation
          texting,  \* who holds the phone's lock of the process
          member,   \* status in product_memberships, by way
          entry,    \* how many entry accounts: active rows of account_owner_bindings
          extras,   \* what the account has been given: the welcome shells
          session,  \* ways in which the person has rows of platform_user_sessions
          spent,    \* registrations committed with each code
          ask       \* the request of each browser

signInVars == <<otp, texting, member, entry, extras, session, spent, ask>>

Code == 1..MaxTexts
NoRow == [state |-> "none", told |-> FALSE, tries |-> 0, token |-> 0, used |-> FALSE, stale |-> FALSE]
NoAsk == [pc |-> "idle", code |-> 0, token |-> 0, way |-> "none"]

Created == {c \in Code : otp[c].state # "none"}

\* get_latest_active_verification: neither verified nor past its time.
Waiting == {c \in Created : otp[c].state = "live" /\ otp[c].token = 0}
IsLatest(c) == c \in Waiting /\ \A d \in Waiting : d <= c

Step(b, pc) == ask' = [ask EXCEPT ![b].pc = pc]
Answer(b) == ask' = [ask EXCEPT ![b] = NoAsk]
-----------------------------------------------------------------------------
(***************************************************************************)
(* Sending a code.                                                         *)
(***************************************************************************)
TextAllowed == texting = {}

\* The limit of the hour is counted under the lock; the row is created before
\* the text goes out.
StartText(b) ==
    /\ ask[b] = NoAsk
    /\ TextAllowed /\ Cardinality(Created) < MaxTexts
    /\ LET c == Cardinality(Created) + 1
       IN  /\ otp' = [otp EXCEPT ![c].state = "live"]
           /\ ask' = [ask EXCEPT ![b] = [NoAsk EXCEPT !.pc = "text", !.code = c]]
    /\ texting' = texting \cup {b}
    /\ UNCHANGED <<member, entry, extras, session, spent>>

TextGoesOut(b) ==
    /\ ask[b].pc = "text"
    /\ otp' = [otp EXCEPT ![ask[b].code].told = TRUE]
    /\ Step(b, "keep")
    /\ UNCHANGED <<texting, member, entry, extras, session, spent>>

\* The row of a text that did not go out expires; earlier rows stay.
TextFails(b) ==
    /\ ask[b].pc = "text"
    /\ otp' = [otp EXCEPT ![ask[b].code].state = "cancelled"]
    /\ texting' = texting \ {b}
    /\ Answer(b)
    /\ UNCHANGED <<member, entry, extras, session, spent>>

\* invalidate_other_verifications_for_phone.
KeepOnly(b) ==
    /\ ask[b].pc = "keep"
    /\ otp' = [c \in Code |-> IF c # ask[b].code /\ otp[c].state = "live"
                              THEN [otp[c] EXCEPT !.state = "cancelled"] ELSE otp[c]]
    /\ texting' = texting \ {b}
    /\ Answer(b)
    /\ UNCHANGED <<member, entry, extras, session, spent>>
-----------------------------------------------------------------------------
(***************************************************************************)
(* Verifying it: the row is read, and judged outside that transaction.     *)
(***************************************************************************)
\* The person types a code that was texted, or something else.
ReadForVerify(b) ==
    /\ ask[b] = NoAsk
    /\ \E c \in Waiting, typed \in {0} \cup {d \in Code : otp[d].told} :
           /\ IsLatest(c)
           /\ otp[c].tries < MaxTries
           /\ ask' = [ask EXCEPT ![b] = [NoAsk EXCEPT !.code = c,
                                                      !.pc = IF typed = c THEN "right" ELSE "wrong"]]
    /\ UNCHANGED <<otp, texting, member, entry, extras, session, spent>>

CountTry(b) ==
    /\ ask[b].pc = "wrong"
    /\ otp' = [otp EXCEPT ![ask[b].code].tries = @ + 1]
    /\ Answer(b)
    /\ UNCHANGED <<texting, member, entry, extras, session, spent>>

\* set_verification_verified: a second token of one row replaces the first;
\* that the row was consumed is not forgotten.
IssueToken(b) ==
    /\ ask[b].pc = "right"
    /\ LET c == ask[b].code
       IN  /\ otp' = [otp EXCEPT ![c].token = @ + 1, ![c].stale = FALSE]
           /\ ask' = [ask EXCEPT ![b].pc = "verified", ![b].token = otp[c].token + 1]
    /\ UNCHANGED <<texting, member, entry, extras, session, spent>>
-----------------------------------------------------------------------------
(***************************************************************************)
(* Registering: the token is consumed and the person and the membership    *)
(* are made in one transaction, which rolls back as a whole.               *)
(***************************************************************************)
TokenOpens(c, token) == otp[c].token = token /\ ~otp[c].used /\ ~otp[c].stale

Register(b, w) ==
    /\ ask[b].pc = "verified"
    /\ LET c == ask[b].code
       IN  IF TokenOpens(c, ask[b].token) /\ member[w] # "disabled"
           THEN /\ otp' = [otp EXCEPT ![c].used = TRUE]
                /\ spent' = [spent EXCEPT ![c] = @ + 1]
                /\ member' = [member EXCEPT ![w] = "active"]
                /\ ask' = [ask EXCEPT ![b] = [NoAsk EXCEPT !.way = w,
                                                  !.pc = IF w = "web" THEN "account" ELSE "session"]]
           ELSE Answer(b) /\ UNCHANGED <<otp, spent, member>>
    /\ UNCHANGED <<texting, entry, extras, session>>

\* get_active_bound_account_for_user_in_app.
FindAccount(b) ==
    /\ ask[b].pc = "account"
    /\ IF member["web"] # "active" THEN Answer(b)
       ELSE Step(b, IF entry = 0 THEN "create" ELSE "regrant")
    /\ UNCHANGED <<otp, texting, member, entry, extras, session, spent>>

\* ux_owner_binding_active_user_app.
AccountIsFirst == entry = 0

\* create_ai4all_account_for_user counts, and then inserts.
CountAccounts(b) ==
    /\ ask[b].pc = "create"
    /\ IF entry = 0 /\ member["web"] = "active" THEN Step(b, "insert") ELSE Answer(b)
    /\ UNCHANGED <<otp, texting, member, entry, extras, session, spent>>

InsertAccount(b) ==
    /\ ask[b].pc = "insert"
    /\ IF AccountIsFirst
       THEN entry' = entry + 1 /\ Step(b, "subscribe")
       ELSE Answer(b) /\ UNCHANGED entry
    /\ UNCHANGED <<otp, texting, member, extras, session, spent>>

\* upsert_subscription_for_user.
Subscribe(b) ==
    /\ ask[b].pc = "subscribe"
    /\ IF member["web"] = "active"
       THEN Step(b, "welcome") ELSE Answer(b)
    /\ UNCHANGED <<otp, texting, member, entry, extras, session, spent>>

\* grant_new_user_shells, under a key of the person.
Welcome(b) ==
    /\ ask[b].pc = "welcome"
    /\ extras' = extras \cup {"welcome"}
    /\ Step(b, "origin")
    /\ UNCHANGED <<otp, texting, member, entry, session, spent>>

\* apply_campaign_code_attribution, which swallows every error.
Attribute(b) ==
    /\ ask[b].pc = "origin"
    /\ Step(b, "session")
    /\ UNCHANGED <<otp, texting, member, entry, extras, session, spent>>

\* Variant: an account that is found is taken to have its welcome.
RegrantNothing(b) ==
    /\ ask[b].pc = "regrant"
    /\ Step(b, "session")
    /\ UNCHANGED <<otp, texting, member, entry, extras, session, spent>>

\* An account that is found is granted the welcome again, under the same key.
Regrant(b) ==
    /\ ask[b].pc = "regrant"
    /\ extras' = extras \cup {"welcome"}
    /\ Step(b, "session")
    /\ UNCHANGED <<otp, texting, member, entry, session, spent>>

\* create_platform_user_session.
IssueSession(b) ==
    /\ ask[b].pc = "session"
    /\ IF member[ask[b].way] = "active"
       THEN session' = session \cup {ask[b].way}
       ELSE UNCHANGED session
    /\ Answer(b)
    /\ UNCHANGED <<otp, texting, member, entry, extras, spent>>

\* revoke_platform_user_session, or the end of the session's days: the last
\* session of a way is gone.
EndSession ==
    /\ \E w \in session : session' = session \ {w}
    /\ UNCHANGED <<otp, texting, member, entry, extras, spent, ask>>

\* An error between two steps of a registration, or a person who gives up.
Abandon(b) ==
    /\ ask[b].pc \notin {"idle", "text", "keep"}
    /\ Answer(b)
    /\ UNCHANGED <<otp, texting, member, entry, extras, session, spent>>

\* The process dies: the requests and the lock are gone.
ProcessDies ==
    /\ ask # [b \in Browser |-> NoAsk]
    /\ ask' = [b \in Browser |-> NoAsk]
    /\ texting' = {}
    /\ UNCHANGED <<otp, member, entry, extras, session, spent>>

\* A code or a token passes its time.
TimeRunsOut ==
    /\ \E c \in Created :
           \/ otp[c].state = "live" /\ otp' = [otp EXCEPT ![c].state = "expired"]
           \/ otp[c].token > 0 /\ ~otp[c].stale /\ otp' = [otp EXCEPT ![c].stale = TRUE]
    /\ UNCHANGED <<texting, member, entry, extras, session, spent, ask>>

\* update_product_membership_status.
SetMembership(w) ==
    /\ member[w] # "none"
    /\ member' = [member EXCEPT ![w] = IF @ = "active" THEN "disabled" ELSE "active"]
    /\ UNCHANGED <<otp, texting, entry, extras, session, spent, ask>>

SignInInit ==
    /\ otp = [c \in Code |-> NoRow]
    /\ texting = {} /\ entry = 0 /\ extras = {} /\ session = {}
    /\ member = [w \in Way |-> "none"]
    /\ spent = [c \in Code |-> 0]
    /\ ask = [b \in Browser |-> NoAsk]

SignInNext ==
    \/ \E b \in Browser :
           \/ StartText(b) \/ TextGoesOut(b) \/ TextFails(b) \/ KeepOnly(b)
           \/ ReadForVerify(b) \/ CountTry(b) \/ IssueToken(b)
           \/ \E w \in Way : Register(b, w)
           \/ FindAccount(b) \/ CountAccounts(b) \/ InsertAccount(b) \/ Subscribe(b)
           \/ Welcome(b) \/ Attribute(b) \/ Regrant(b) \/ IssueSession(b) \/ Abandon(b)
    \/ EndSession \/ ProcessDies \/ TimeRunsOut
    \/ \E w \in Way : SetMembership(w)

SignInSpec == SignInInit /\ [][SignInNext]_signInVars
-----------------------------------------------------------------------------
SignInTypeOK ==
    /\ \A c \in Code : otp[c].state \in {"none", "live", "expired", "cancelled"} /\ spent[c] \in Nat
    /\ texting \subseteq Browser /\ entry \in Nat
    /\ extras \subseteq {"welcome"}
    /\ \A w \in Way : member[w] \in {"none", "active", "disabled"}

\* The code that reached the phone last is never cancelled by the sending of
\* another that went before it, nor by one that did not go out: it can be used
\* until its time is over, whoever asks for codes at the same moment and
\* whatever fails.
LastCodeStands ==
    texting = {} =>
        \A c \in Created : otp[c].told /\ (\A d \in Created : otp[d].told => d <= c) => otp[c].state # "cancelled"

\* One code opens one registration, also when it is verified twice and the
\* second token is issued after the first was spent; and the guesses it allows
\* are bounded, by as many more as there are requests at the same time.
CodeIsSpentOnce ==
    \A c \in Code : spent[c] <= 1 /\ otp[c].tries < MaxTries + Cardinality(Browser)

\* However many registrations of the person are under way, one entry account
\* comes of them; and whoever holds a session of the web has it, with the
\* welcome shells, though the request that made it died on the way to them.
SessionIsBacked ==
    /\ entry <= 1
    /\ "web" \in session => entry > 0 /\ "welcome" \in extras

SignInIsSound == SignInTypeOK /\ LastCodeStands /\ CodeIsSpentOnce /\ SessionIsBacked
=============================================================================
