---------------------------- MODULE RoleTemplates ----------------------------
(***************************************************************************)
(* Role templates that a creator writes, a language model reviews and new  *)
(* accounts are instantiated from (app/products/zhaoxi).                   *)
(*                                                                         *)
(* Every transaction starts by locking the row of its template, so each is *)
(* one action; a review claims its version in one transaction, asks the    *)
(* model outside any, and records the decision in another.                 *)
(***************************************************************************)
EXTENDS Naturals, FiniteSets

CONSTANTS Role,        \* templates of one creator
          MaxVersions, \* versions of a template
          Reviewer,    \* requests that run a review
          Bearer,      \* new accounts that arrive with the code of a template
          RoleSlots    \* live templates a creator may have

ASSUME RoleBounds == MaxVersions \in Nat \ {0}

VARIABLES role,      \* rows of creator_role_templates
          version,   \* rows of creator_role_template_versions
          reviewer,  \* the claim each request holds while it asks the model
          bearer,    \* account_creator_role_template_attribution
          erasing    \* templates an account deletion has listed, or none

roleVars == <<role, version, reviewer, bearer, erasing>>

VersionNo == 1..MaxVersions
NoVersion == [review |-> "none", published |-> FALSE, edit |-> "unavailable", summary |-> "none"]
NewVersion == [NoVersion EXCEPT !.review = "pending"]
NoRole == [status |-> "none", activated |-> FALSE, expired |-> FALSE, before |-> "none"]
NoClaim == [kind |-> "none", on |-> {}]

Live == {t \in Role : role[t].status \notin {"none", "deleted"}}
Written(t) == {n \in VersionNo : version[t][n].review # "none"}
LatestOf(t) == CHOOSE n \in Written(t) : \A m \in Written(t) : m <= n
InReview(t) == {n \in Written(t) : version[t][n].review \in {"pending", "reviewing"}}
PublishedOf(t) == {n \in Written(t) : version[t][n].published}
-----------------------------------------------------------------------------
(***************************************************************************)
(* The creator.                                                            *)
(***************************************************************************)
\* The slot is won by the unique index on live templates.
CreateRole(t) ==
    /\ role[t] = NoRole
    /\ Cardinality(Live) < RoleSlots
    /\ role' = [role EXCEPT ![t].status = "pending_review"]
    /\ version' = [version EXCEPT ![t][1] = NewVersion]
    /\ UNCHANGED <<reviewer, bearer, erasing>>

\* create_creator_role_template_candidate_version.
EditRole(t) ==
    /\ t \in Live /\ role[t].status # "disabled_admin"
    /\ InReview(t) = {}
    /\ LatestOf(t) < MaxVersions
    /\ version' = [version EXCEPT ![t][LatestOf(t) + 1] = NewVersion]
    /\ role' = [role EXCEPT ![t].status = IF role[t].activated THEN @ ELSE "pending_review"]
    /\ UNCHANGED <<reviewer, bearer, erasing>>

\* Variant: publishing does not wait for the review of an edited summary.
PublishableInReview(t, n) == version[t][n].review = "passed"

\* publish_creator_role_template_version: the first one starts the template.
Publishable(t, n) ==
    /\ version[t][n].review = "passed"
    /\ version[t][n].edit # "reviewing"

PublishVersion(t, n) ==
    /\ t \in Live /\ role[t].status # "disabled_admin"
    /\ Publishable(t, n) /\ ~version[t][n].published
    /\ version' = [version EXCEPT ![t] =
           [m \in VersionNo |-> [version[t][m] EXCEPT !.published = (m = n)]]]
    /\ role' = [role EXCEPT ![t] =
           IF role[t].activated THEN role[t] ELSE [role[t] EXCEPT !.status = "active", !.activated = TRUE]]
    /\ UNCHANGED <<reviewer, bearer, erasing>>

\* set_creator_role_template_creator_enabled.
SwitchRole(t, enabled) ==
    /\ role[t].status = IF enabled THEN "disabled_creator" ELSE "active"
    /\ role' = [role EXCEPT ![t].status = IF enabled THEN "active" ELSE "disabled_creator"]
    /\ UNCHANGED <<version, reviewer, bearer, erasing>>

DeleteRole(t) ==
    /\ t \in Live
    /\ role' = [role EXCEPT ![t].status = "deleted"]
    /\ UNCHANGED <<version, reviewer, bearer, erasing>>

\* soft_delete_all_creator_role_templates lists the templates, then deletes
\* those of them that are still live.
ListForErasure ==
    /\ erasing = {} /\ Live # {}
    /\ erasing' = Live
    /\ UNCHANGED <<role, version, reviewer, bearer>>

EraseRoles ==
    /\ erasing # {}
    /\ role' = [t \in Role |-> IF t \in erasing \cap Live THEN [role[t] EXCEPT !.status = "deleted"]
                               ELSE role[t]]
    /\ erasing' = {}
    /\ UNCHANGED <<version, reviewer, bearer>>

RoleExpires(t) ==
    /\ role[t].activated /\ ~role[t].expired
    /\ role' = [role EXCEPT ![t].expired = TRUE]
    /\ UNCHANGED <<version, reviewer, bearer, erasing>>
-----------------------------------------------------------------------------
(***************************************************************************)
(* Staff.                                                                  *)
(***************************************************************************)
DisableByAdmin(t) ==
    /\ t \in Live /\ role[t].status # "disabled_admin"
    /\ role' = [role EXCEPT ![t].status = "disabled_admin", ![t].before = role[t].status]
    /\ UNCHANGED <<version, reviewer, bearer, erasing>>

StatusFor(review) ==
    CASE review = "passed" -> "approved"
      [] review = "rejected" -> "rejected"
      [] OTHER -> "pending_review"

RestoredStatus(t) ==
    IF role[t].activated
    THEN IF role[t].before = "disabled_creator" THEN "disabled_creator" ELSE "active"
    ELSE StatusFor(version[t][LatestOf(t)].review)

EnableByAdmin(t) ==
    /\ role[t].status = "disabled_admin"
    /\ role' = [role EXCEPT ![t].status = RestoredStatus(t), ![t].before = "none"]
    /\ UNCHANGED <<version, reviewer, bearer, erasing>>
-----------------------------------------------------------------------------
(***************************************************************************)
(* Reviews of a version and of an edited summary.                          *)
(***************************************************************************)
ClaimReview(r, t, n) ==
    /\ reviewer[r] = NoClaim
    /\ t \in Live /\ role[t].status # "disabled_admin"
    /\ version[t][n].review = "pending"
    /\ version' = [version EXCEPT ![t][n].review = "reviewing"]
    /\ reviewer' = [reviewer EXCEPT ![r] = [kind |-> "version", on |-> {<<t, n>>}]]
    /\ UNCHANGED <<role, bearer, erasing>>

\* The decision of the model: pass, reject, or an error that gives the version
\* back.  Only a template that was never published follows the decision.
CompleteReview(r, t, n, decision) ==
    /\ reviewer[r] = [kind |-> "version", on |-> {<<t, n>>}]
    /\ t \in Live
    /\ version[t][n].review = "reviewing"
    /\ version' = [version EXCEPT ![t][n] =
           [@ EXCEPT !.review = decision,
                     !.edit = IF decision = "passed" THEN "available" ELSE "unavailable",
                     !.summary = IF decision = "passed" THEN "generated" ELSE "none"]]
    /\ role' = [role EXCEPT ![t].status =
           IF role[t].activated \/ @ = "disabled_admin" THEN @ ELSE StatusFor(decision)]
    /\ reviewer' = [reviewer EXCEPT ![r] = NoClaim]
    /\ UNCHANGED <<bearer, erasing>>

\* One edit of the summary of a version that passed and is not yet published.
ClaimSummaryReview(r, t, n) ==
    /\ reviewer[r] = NoClaim
    /\ t \in Live
    /\ version[t][n].review = "passed" /\ ~version[t][n].published
    /\ version[t][n].edit = "available"
    /\ version' = [version EXCEPT ![t][n].edit = "reviewing"]
    /\ reviewer' = [reviewer EXCEPT ![r] = [kind |-> "summary", on |-> {<<t, n>>}]]
    /\ UNCHANGED <<role, bearer, erasing>>

CompleteSummaryReview(r, t, n, decision) ==
    /\ reviewer[r] = [kind |-> "summary", on |-> {<<t, n>>}]
    /\ t \in Live
    /\ version[t][n].edit = "reviewing" /\ ~version[t][n].published
    /\ version' = [version EXCEPT ![t][n].edit = decision,
                                  ![t][n].summary = IF decision = "accepted" THEN "edited" ELSE @]
    /\ reviewer' = [reviewer EXCEPT ![r] = NoClaim]
    /\ UNCHANGED <<role, bearer, erasing>>

\* The result is stale, or the process dies and no one takes the review over.
LoseReview(r) ==
    /\ reviewer[r] # NoClaim
    /\ reviewer' = [reviewer EXCEPT ![r] = NoClaim]
    /\ UNCHANGED <<role, version, bearer, erasing>>
-----------------------------------------------------------------------------
\* apply_creator_role_template_attribution.
BearRole(a, t) ==
    /\ bearer[a] = {}
    /\ role[t].status = "active" /\ ~role[t].expired
    /\ \E n \in PublishedOf(t) :
           /\ version[t][n].review = "passed"
           /\ bearer' = [bearer EXCEPT ![a] = {<<t, n, version[t][n].summary>>}]
    /\ UNCHANGED <<role, version, reviewer, erasing>>

RoleInit ==
    /\ role = [t \in Role |-> NoRole]
    /\ version = [t \in Role |-> [n \in VersionNo |-> NoVersion]]
    /\ reviewer = [r \in Reviewer |-> NoClaim]
    /\ bearer = [a \in Bearer |-> {}]
    /\ erasing = {}

ReviewStep(r, t, n) ==
    \/ ClaimReview(r, t, n)
    \/ \E decision \in {"passed", "rejected", "pending"} : CompleteReview(r, t, n, decision)
    \/ ClaimSummaryReview(r, t, n)
    \/ \E decision \in {"accepted", "rejected", "available"} : CompleteSummaryReview(r, t, n, decision)

RoleStep(t) ==
    \/ CreateRole(t)
    \/ EditRole(t)
    \/ \E n \in VersionNo : PublishVersion(t, n)
    \/ \E enabled \in BOOLEAN : SwitchRole(t, enabled)
    \/ DeleteRole(t)
    \/ RoleExpires(t)
    \/ DisableByAdmin(t)
    \/ EnableByAdmin(t)
    \/ \E a \in Bearer : BearRole(a, t)

RoleNext ==
    \/ \E t \in Role : RoleStep(t)
    \/ \E r \in Reviewer, t \in Role, n \in VersionNo : ReviewStep(r, t, n)
    \/ \E r \in Reviewer : LoseReview(r)
    \/ ListForErasure
    \/ EraseRoles

RoleSpec == RoleInit /\ [][RoleNext]_roleVars
-----------------------------------------------------------------------------
RoleTypeOK ==
    /\ \A t \in Role :
           /\ role[t].status \in {"none", "pending_review", "approved", "rejected", "active",
                                  "disabled_creator", "disabled_admin", "deleted"}
           /\ \A n \in VersionNo :
                  /\ version[t][n].review \in {"none", "pending", "reviewing", "passed", "rejected"}
                  /\ version[t][n].edit \in {"unavailable", "available", "reviewing", "accepted", "rejected"}
                  /\ version[t][n].summary \in {"none", "generated", "edited"}
    /\ \A r \in Reviewer : reviewer[r].on \subseteq Role \X VersionNo
    /\ erasing \subseteq Role

\* Through edits, reviews that overlap an admin's disabling, and its lifting, a
\* template that was never published shows the state of its latest version, and
\* one that is served has exactly one published version, which passed.
StatusMirrorsVersions ==
    \A t \in Live :
        /\ Cardinality(InReview(t)) <= 1
        /\ Cardinality(PublishedOf(t)) = (IF role[t].activated THEN 1 ELSE 0)
        /\ role[t].status # "disabled_admin" =>
               IF role[t].activated THEN role[t].status \in {"active", "disabled_creator"}
               ELSE role[t].status = StatusFor(version[t][LatestOf(t)].review)

\* What the accounts born from a version were shown never changes: as long as a
\* version is published, its review and its summary are final.
PublishedIsFinal ==
    [][\A t \in Role : \A n \in PublishedOf(t) :
          /\ version[t][n].review = "passed" /\ version'[t][n].review = "passed"
          /\ version'[t][n].summary = version[t][n].summary
          /\ version[t][n].edit # "reviewing"]_roleVars
\* What readers of a template rely on, at every moment and from then on.
PublishingIsSound == []RoleTypeOK /\ []StatusMirrorsVersions /\ PublishedIsFinal
==============================================================================
