--------------------------- MODULE ChannelBinding ---------------------------
(***************************************************************************)
(* How a person's WeChat is connected to an account and disconnected again *)
(* (app/routers/web.py, app/db/billing.py, app/db/accounts.py,             *)
(* app/db/lifecycle.py): a binding intent shows a QR code, a background    *)
(* task waits at the gateway for the scan, messages find their account by  *)
(* the completed intent, and unbinding revokes it or wipes the account.    *)
(*                                                                         *)
(* One action is one transaction, or one call of the gateway; the request  *)
(* for a QR code is two statements, since nothing locks the owner that it  *)
(* reads, and a person may ask for one on a second device at any time.     *)
(* One request to unbind is followed for each person.  Left out:           *)
(* the fallback to the key of the login session, the referral that a       *)
(* binding marks (module Referral), the proactive state that unbinding     *)
(* switches off and a scan on, and the welcome (module ChatTurn).          *)
(***************************************************************************)
EXTENDS Integers

CONSTANTS Person,
          Intent,      \* ids of binding intents
          Weixin,      \* channel accounts at the gateway
          Inbound,     \* messages of WeChat that may be worked on at a time
          MaxAccounts, \* bound on the accounts one person may have had
          MaxSeconds   \* bound on the seconds that completions are told apart by

ASSUME BindingBounds == MaxAccounts \in Nat /\ MaxSeconds \in Nat

VARIABLES lastAccount, \* how many accounts a person has had; the last is the entry account
          wiped,       \* accounts deactivated by a wipe
          bindIntent,  \* binding_intents
          channelRow,  \* channel_bindings
          talk,        \* accounts with sessions or messages
          scanWait,    \* the task that waits for the scan of an intent
          inbound,     \* what each message is doing
          unbinder,    \* the unbinding request of a person
          online,      \* channel accounts logged in at the gateway
          second,      \* the clock of completed_at, which has no fractions
          withdrawn,   \* intents that an unbinding has revoked
          busyAtWipe,  \* accounts with a message or a scan under way when wiped
          askedAtWipe  \* those among them with a QR code being asked for

bindingVars == <<lastAccount, wiped, bindIntent, channelRow, talk, scanWait, inbound,
                 unbinder, online, second, withdrawn, busyAtWipe, askedAtWipe>>

Account == Person \X (1..MaxAccounts)
NoOne == <<>>
NoWeixin == "none"
NoIntent == [status |-> "none", account |-> NoOne, weixin |-> NoWeixin, at |-> 0]
NoWait == [pc |-> "off", result |-> "none", weixin |-> NoWeixin, account |-> NoOne]
NoMessage == [pc |-> "idle", account |-> NoOne, weixin |-> NoWeixin]
NoRequest == [pc |-> "idle", account |-> NoOne, keep |-> TRUE, logouts |-> {}]

requestVars == <<unbinder, withdrawn, busyAtWipe, askedAtWipe>>
-----------------------------------------------------------------------------
(* Accounts and their intents. *)

\* The entry account of a person, if its owner binding has not been wiped.
Entry(p) == <<p, lastAccount[p]>>
HasEntry(p) == lastAccount[p] > 0 /\ Entry(p) \notin wiped

\* get_or_create_default_ai4all_account_for_user
EnsureAccount(p) ==
    IF HasEntry(p) THEN UNCHANGED lastAccount
    ELSE lastAccount[p] < MaxAccounts /\ lastAccount' = [lastAccount EXCEPT ![p] = @ + 1]

\* The account is there, and the SELECT on its owner finds the person.
AskIntent(p, i) ==
    /\ bindIntent[i] = NoIntent /\ scanWait[i] = NoWait
    /\ EnsureAccount(p)
    /\ scanWait' = [scanWait EXCEPT ![i] =
                       [NoWait EXCEPT !.pc = "insert", !.account = <<p, lastAccount'[p]>>]]
    /\ UNCHANGED <<wiped, bindIntent, channelRow, talk, inbound, online, second, requestVars>>

\* The INSERT, whatever has become of the account since.
CreateIntent(i) ==
    /\ scanWait[i].pc = "insert"
    /\ bindIntent' = [bindIntent EXCEPT ![i] =
                         [NoIntent EXCEPT !.status = "created", !.account = scanWait[i].account]]
    /\ scanWait' = [scanWait EXCEPT ![i] = [NoWait EXCEPT !.pc = "start"]]
    /\ UNCHANGED <<lastAccount, wiped, channelRow, talk, inbound, online, second, requestVars>>

\* An update of an intent that is gone changes nothing.
SetStatus(i, s) ==
    bindIntent' = IF bindIntent[i] = NoIntent THEN bindIntent
                  ELSE [bindIntent EXCEPT ![i].status = s]

Ends(i) == scanWait' = [scanWait EXCEPT ![i] = NoWait]

\* The gateway shows a QR code, or it does not; the wait is only scheduled for
\* an intent that is still there.  What is over has failed, has expired, or found the
\* WeChat connected already.
StartQr(i) ==
    /\ scanWait[i].pc = "start"
    /\ \/ /\ SetStatus(i, "qr_created")
          /\ IF bindIntent[i] = NoIntent THEN Ends(i)
             ELSE \/ scanWait' = [scanWait EXCEPT ![i].pc = "wait"]
                  \/ Ends(i)  \* no background loop
       \/ SetStatus(i, "over") /\ Ends(i)
    /\ UNCHANGED <<lastAccount, wiped, channelRow, talk, inbound, online, second, requestVars>>

\* An intent whose QR code has lapsed is expired by whoever reads it.
PollIntent(i) ==
    /\ bindIntent[i].status = "qr_created"
    /\ SetStatus(i, "over")
    /\ UNCHANGED <<lastAccount, wiped, channelRow, talk, scanWait, inbound, online, second, requestVars>>
-----------------------------------------------------------------------------
(* The task that waits for the scan. *)

\* The gateway answers: somebody has scanned, with this or that WeChat, one that
\* may have been connected before; or nobody has; or it cannot be reached.
ScanAnswered(i) ==
    /\ scanWait[i].pc = "wait"
    /\ \/ \E w \in Weixin :
             /\ scanWait' = [scanWait EXCEPT ![i].pc = "reread", ![i].result = "connected", ![i].weixin = w]
             /\ online' = online \cup {w}
             /\ UNCHANGED bindIntent
       \/ /\ scanWait' = [scanWait EXCEPT ![i].pc = "reread", ![i].result = "over"]
          /\ UNCHANGED <<online, bindIntent>>
       \/ SetStatus(i, "over") /\ Ends(i) /\ UNCHANGED online
    /\ UNCHANGED <<lastAccount, wiped, channelRow, talk, inbound, second, requestVars>>

\* The intent is read again; it may be gone, and its account is the one that the
\* rest of the task works for.
RereadIntent(i) ==
    /\ scanWait[i].pc = "reread"
    /\ IF bindIntent[i] = NoIntent THEN Ends(i)
       ELSE scanWait' = [scanWait EXCEPT ![i].pc = "complete", ![i].account = bindIntent[i].account]
    /\ UNCHANGED <<lastAccount, wiped, bindIntent, channelRow, talk, inbound, online, second, requestVars>>

CompleteIntent(i) ==
    /\ scanWait[i].pc = "complete"
    /\ IF scanWait[i].result # "connected"
       THEN SetStatus(i, scanWait[i].result) /\ Ends(i) /\ UNCHANGED second
       ELSE /\ second' \in {second, second + 1} \cap 0..MaxSeconds
            /\ bindIntent' = IF bindIntent[i] = NoIntent THEN bindIntent
                             ELSE [bindIntent EXCEPT ![i].status = "completed",
                                                     ![i].weixin = scanWait[i].weixin,
                                                     ![i].at = second']
            /\ scanWait' = [scanWait EXCEPT ![i].pc = "row"]
    /\ UNCHANGED <<lastAccount, wiped, channelRow, talk, inbound, online, requestVars>>

\* upsert_channel_binding: one row for each session, and the others of the same
\* WeChat make way.
WithRow(a, key, w) ==
    {r \in channelRow : r.account # a \/ r.weixin # w \/ r.key = key}
    \cup {[account |-> a, key |-> key, weixin |-> w]}

RecordScan(i) ==
    /\ scanWait[i].pc = "row"
    /\ channelRow' = WithRow(scanWait[i].account, "login", scanWait[i].weixin)
    /\ Ends(i)
    /\ UNCHANGED <<lastAccount, wiped, bindIntent, talk, inbound, online, second, requestVars>>

\* The node stops, and its tasks with it.
NodeStops ==
    /\ \E i \in Intent : scanWait[i] # NoWait
    /\ scanWait' = [i \in Intent |-> NoWait]
    /\ inbound' = [t \in Inbound |-> NoMessage]
    /\ unbinder' = [p \in Person |-> NoRequest]
    /\ UNCHANGED <<lastAccount, wiped, bindIntent, channelRow, talk, online, second, withdrawn,
                   busyAtWipe, askedAtWipe>>
-----------------------------------------------------------------------------
(* Messages. *)

Completed(w) == {i \in Intent : bindIntent[i].status = "completed" /\ bindIntent[i].weixin = w}

\* The latest completed intent says whose message it is, either one of two of
\* the same second; without one it is not taken further.
Receive(t, w) ==
    /\ inbound[t] = NoMessage
    /\ w \in online
    /\ \E i \in Completed(w) :
          /\ \A j \in Completed(w) : bindIntent[j].at <= bindIntent[i].at
          /\ inbound' = [inbound EXCEPT ![t] =
                            [pc |-> "session", account |-> bindIntent[i].account, weixin |-> w]]
    /\ UNCHANGED <<lastAccount, wiped, bindIntent, channelRow, talk, scanWait, online, second, requestVars>>

\* get_or_create_session
OpenSession(t) ==
    /\ inbound[t].pc = "session"
    /\ talk' = talk \cup {inbound[t].account}
    /\ inbound' = [inbound EXCEPT ![t].pc = "row"]
    /\ UNCHANGED <<lastAccount, wiped, bindIntent, channelRow, scanWait, online, second, requestVars>>

RecordPeer(t) ==
    /\ inbound[t].pc = "row"
    /\ channelRow' = WithRow(inbound[t].account, "chat", inbound[t].weixin)
    /\ inbound' = [inbound EXCEPT ![t].pc = "store"]
    /\ UNCHANGED <<lastAccount, wiped, bindIntent, talk, scanWait, online, second, requestVars>>

\* An account that is wiped is not one that is disabled: its turn goes on.
KeepMessage(t) ==
    /\ inbound[t].pc = "store"
    /\ talk' = talk \cup {inbound[t].account}
    /\ inbound' = [inbound EXCEPT ![t] = NoMessage]
    /\ UNCHANGED <<lastAccount, wiped, bindIntent, channelRow, scanWait, online, second, requestVars>>
-----------------------------------------------------------------------------
(* Unbinding. *)

RowsOf(a) == {r \in channelRow : r.account = a}

StartUnbind(p) ==
    /\ unbinder[p] = NoRequest
    /\ HasEntry(p)
    /\ \E keep \in BOOLEAN :
          unbinder' = [unbinder EXCEPT ![p] =
              [pc |-> "logout", account |-> Entry(p), keep |-> keep,
               logouts |-> {r.weixin : r \in RowsOf(Entry(p))}]]
    /\ UNCHANGED <<lastAccount, wiped, bindIntent, channelRow, talk, scanWait, inbound,
                   online, second, withdrawn, busyAtWipe, askedAtWipe>>

\* Each logout may fail; the unbinding goes on.
Logout(p) ==
    /\ unbinder[p].pc = "logout"
    /\ \E done \in SUBSET unbinder[p].logouts : online' = online \ done
    /\ unbinder' = [unbinder EXCEPT ![p].pc = "unbind", ![p].logouts = {}]
    /\ UNCHANGED <<lastAccount, wiped, bindIntent, channelRow, talk, scanWait, inbound,
                   second, withdrawn, busyAtWipe, askedAtWipe>>

\* unbind_account_channel
Revoked(a) ==
    [i \in Intent |-> IF bindIntent[i].account = a /\ bindIntent[i].status = "completed"
                      THEN [bindIntent[i] EXCEPT !.status = "revoked"] ELSE bindIntent[i]]

\* Variant: only what the unbinding has revoked is deleted.
WipedIntentsRevoked(a) ==
    [i \in Intent |-> IF Revoked(a)[i].account = a /\ Revoked(a)[i].status = "revoked"
                      THEN NoIntent ELSE bindIntent[i]]

\* wipe_account_data
WipedIntents(a) ==
    [i \in Intent |-> IF bindIntent[i].account = a THEN NoIntent ELSE bindIntent[i]]

Busy(a) == \/ \E t \in Inbound : inbound[t].account = a
           \/ \E i \in Intent : scanWait[i].account = a
Asked(a) == \E i \in Intent : scanWait[i].pc = "insert" /\ scanWait[i].account = a

CommitUnbind(p) ==
    /\ unbinder[p].pc = "unbind"
    /\ LET a == unbinder[p].account
       IN  /\ channelRow' = channelRow \ RowsOf(a)
           /\ IF unbinder[p].keep
              THEN /\ bindIntent' = Revoked(a)
                   /\ withdrawn' = withdrawn \cup {i \in Intent : Revoked(a)[i] # bindIntent[i]}
                   /\ UNCHANGED <<talk, wiped, busyAtWipe, askedAtWipe>>
              ELSE /\ bindIntent' = WipedIntents(a)
                   /\ talk' = talk \ {a}
                   /\ wiped' = wiped \cup {a}
                   /\ busyAtWipe' = IF Busy(a) THEN busyAtWipe \cup {a} ELSE busyAtWipe
                   /\ askedAtWipe' = IF Asked(a) THEN askedAtWipe \cup {a} ELSE askedAtWipe
                   /\ withdrawn' = {i \in withdrawn : bindIntent[i].account # a}
    /\ unbinder' = [unbinder EXCEPT ![p] = NoRequest]
    /\ UNCHANGED <<lastAccount, scanWait, inbound, online, second>>
-----------------------------------------------------------------------------
BindingInit ==
    /\ lastAccount = [p \in Person |-> 0] /\ wiped = {}
    /\ bindIntent = [i \in Intent |-> NoIntent] /\ channelRow = {} /\ talk = {}
    /\ scanWait = [i \in Intent |-> NoWait]
    /\ inbound = [t \in Inbound |-> NoMessage]
    /\ unbinder = [p \in Person |-> NoRequest]
    /\ online = {} /\ second = 0 /\ withdrawn = {} /\ busyAtWipe = {} /\ askedAtWipe = {}

BindingNext ==
    \/ \E p \in Person : StartUnbind(p) \/ Logout(p) \/ CommitUnbind(p)
    \/ \E i \in Intent : \/ CreateIntent(i) \/ StartQr(i) \/ PollIntent(i) \/ ScanAnswered(i) \/ RereadIntent(i)
                         \/ CompleteIntent(i) \/ RecordScan(i)
                         \/ \E p \in Person : AskIntent(p, i)
    \/ \E t \in Inbound : \/ OpenSession(t) \/ RecordPeer(t) \/ KeepMessage(t)
                          \/ \E w \in Weixin : Receive(t, w)
    \/ NodeStops

BindingSpec == BindingInit /\ [][BindingNext]_bindingVars
-----------------------------------------------------------------------------
BindingTypeOK ==
    /\ wiped \subseteq Account /\ talk \subseteq Account
    /\ askedAtWipe \subseteq busyAtWipe /\ busyAtWipe \subseteq wiped
    /\ \A i \in Intent : bindIntent[i].account \in Account \cup {NoOne}
    /\ second \in Nat

\* No WeChat leads to an account that is wiped, though the scan was under way,
\* but for a QR code that was being asked for when the wipe committed.
WipedIsUnreachable ==
    \A i \in Intent : bindIntent[i].status = "completed" => bindIntent[i].account \notin wiped \ askedAtWipe

\* What an unbinding has revoked is not completed again by the task that waits.
RevokedIsFinal == \A i \in withdrawn : bindIntent[i].status = "revoked"

\* A wiped account keeps nothing, unless a message or a scan was under way.
WipedIsEmpty == \A a \in wiped \ busyAtWipe : a \notin talk /\ RowsOf(a) = {}

\* A person's WeChat is connected to an account that is there, and disconnected
\* for good: web.py, _wait_for_binding_intent against web_me_unbind.
BindingIsSound == BindingTypeOK /\ WipedIsUnreachable /\ RevokedIsFinal /\ WipedIsEmpty
=============================================================================
