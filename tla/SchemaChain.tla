----------------------------- MODULE SchemaChain -----------------------------
(***************************************************************************)
(* The chain of schema migrations (app/db/migrations, listed in            *)
(* _core._MIGRATIONS), one record each: what it needs to find, what it     *)
(* makes, which flaws of the rows it mends, and which it stumbles over.    *)
(* The types and defaults of columns and the indexes that are not unique   *)
(* are left out; every CREATE and ADD COLUMN says IF NOT EXISTS, so what   *)
(* is there already is kept.                                               *)
(***************************************************************************)
EXTENDS Integers, FiniteSets, TLC

\* makes: tables; adds: columns; keys: unique keys; drops: tables and keys it
\* takes away; reads: tables, and uses: columns, that its statements name;
\* mends: flaws of the rows it repairs; refuses: flaws it looks for and stops at;
\* bars: tables that must not be there yet
Nothing == [makes |-> {}, adds |-> {}, keys |-> {}, drops |-> {}, reads |-> {},
            uses |-> {}, mends |-> {}, refuses |-> {}, bars |-> {}]

Together(m, n) == [f \in DOMAIN m |-> m[f] \cup n[f]]

Of(tables, column) == {<<t, column>> : t \in tables}

-----------------------------------------------------------------------------
(* Flaws that the rows of a database may have. *)

IdentityFlaws == {"identity scope drift", "two active entry accounts",
                  "two active owners of one account"}

BillingFlaws == {"two active subscriptions", "two active wallets", "wallets without a primary",
                 "billing scope drift", "balance mismatch"}

KeyFlaws == {"one billing key twice"}

QuotaFlaws == {"quota of no person", "quota scope drift", "two usage rows of a day"}

ReferralFlaws == {"two personal codes", "two inviters", "referral scope drift"}

Phase1Flaws == IdentityFlaws \cup BillingFlaws \cup KeyFlaws \cup QuotaFlaws \cup ReferralFlaws

Flaw == Phase1Flaws \cup {"reserved code", "task scope drift"}

\* The unique keys that leave no room for a flaw.
KeysAgainst(d) ==
    CASE d = "two personal codes" -> {"referral_codes personal", "referral_codes personal app"}
      [] d = "two inviters" -> {"referral_relationships invitee", "referral_relationships invitee app"}
      [] d = "one billing key twice" -> {"ledger key", "ledger app key"}
      [] d = "two active entry accounts" -> {"owner_bindings active user app"}
      [] d \in {"two active wallets", "wallets without a primary"} ->
             {"wallets active user", "wallets active user app"}
      [] d = "two usage rows of a day" -> {"daily_usage user date", "daily_usage user app date"}
      [] d = "two active subscriptions" -> {"subscriptions active user app"}
      [] OTHER -> {}

RuledOut(d, keys) == KeysAgainst(d) \cap keys # {}

-----------------------------------------------------------------------------
(* 0001: the baseline, in parts. *)

BaselineBilling ==
    [Nothing EXCEPT !.makes = {"accounts", "platform_users", "subscriptions", "entitlement_wallets",
                               "entitlement_ledger", "cost_events", "account_owner_bindings"},
                    !.keys = {"ledger key", "cost key"}]

BaselineReferral ==
    [Nothing EXCEPT !.makes = {"referral_codes", "referral_relationships",
                               "meaningful_message_reviews", "binding_intents"},
                    !.keys = {"referral_codes personal", "referral_relationships invitee",
                              "meaningful_reviews relationship"}]

BaselineTalk ==
    [Nothing EXCEPT !.makes = {"sessions", "profiles", "messages", "daily_usage",
                               "channel_bindings", "outbound_messages"},
                    !.keys = {"messages account message"}]

BaselineModeration ==
    [Nothing EXCEPT !.makes = {"content_moderation_tasks", "content_moderation_results",
                               "content_moderation_actions", "content_moderation_exports",
                               "moderation_account_risk_state"},
                    !.keys = {"task key"}]

BaselineProactive ==
    [Nothing EXCEPT !.makes = {"reminders", "proactive_commitments", "proactive_account_state",
                               "llm_runtime_config", "proactive_message_settings",
                               "proactive_message_setting_events", "content_invitations",
                               "content_invitation_preferences"}]

BaselineMemory ==
    [Nothing EXCEPT !.makes = {"dreaming_runs", "dreaming_memory_items", "memory_events",
                               "analytics_events", "debug_traces", "tool_invocations",
                               "search_provider_runs"}]

BaselineStaff ==
    [Nothing EXCEPT !.makes = {"admin_users", "admin_access_events", "admin_plaintext_grants",
                               "phone_verifications", "scheduler_heartbeats", "faq_messages",
                               "faq_message_likes"}]

\* columns and tables for databases older than the chain itself
BaselineLater ==
    [Nothing EXCEPT !.makes = {"access_nodes", "platform_user_sessions"},
                    !.adds = {<<"accounts", "daily_limit">>, <<"accounts", "rpm_limit">>,
                              <<"accounts", "assigned_node_id">>, <<"binding_intents", "node_id">>,
                              <<"outbound_messages", "product_category">>,
                              <<"outbound_messages", "node_id">>,
                              <<"outbound_messages", "claimed_at">>,
                              <<"reminders", "recur_rule">>},
                    !.reads = {"outbound_messages", "accounts", "profiles"}]

m0001 == Together(Together(Together(BaselineBilling, BaselineReferral),
                           Together(BaselineTalk, BaselineModeration)),
                  Together(Together(BaselineProactive, BaselineMemory),
                           Together(BaselineStaff, BaselineLater)))

-----------------------------------------------------------------------------
(* Before products. *)

m0002 == [Nothing EXCEPT !.makes = {"llm_runtime_config"}]

m0003 == [Nothing EXCEPT !.makes = {"account_user_meta", "account_user_meta_daily"}]

m0004 == [Nothing EXCEPT !.makes = {"account_profile_files"}]

m0005 == [Nothing EXCEPT !.makes = {"rpm_hits"}]

m0006 == [Nothing EXCEPT !.uses = {<<"outbound_messages", "product_category">>}]

m0007 == [Nothing EXCEPT !.reads = {"proactive_message_settings"}]

m0008 == [Nothing EXCEPT !.adds = Of({"account_user_meta", "account_user_meta_daily"},
                                     "relationship_stage")]

m0009 == [Nothing EXCEPT !.reads = {"messages"}]

m0010 == [Nothing EXCEPT !.adds = {<<"sessions", "rolling_summary">>,
                                   <<"sessions", "rolling_summary_upto_id">>}]

m0011 == [Nothing EXCEPT !.makes = {"proactive_global_candidates"},
                         !.keys = {"global_candidates kind date key"}]

m0012 == [Nothing EXCEPT !.makes = {"account_mission", "mission_moments"}]

m0013 == [Nothing EXCEPT !.makes = {"campaign_codes", "account_campaign_attribution"}]

m0019 == [Nothing EXCEPT !.adds = Of({"campaign_codes", "account_campaign_attribution"},
                                     "ai_name_preset")]

m0020 == [Nothing EXCEPT !.makes = {"campaign_visits"}]

m0021 == [Nothing EXCEPT !.makes = {"reminder_content_runs"},
                         !.adds = Of({"reminders"}, "fulfillment"),
                         !.keys = {"content_runs reminder slot"}]

m0022 == [Nothing EXCEPT !.adds = Of({"accounts", "account_owner_bindings"}, "app_id")]

m0023 == [Nothing EXCEPT !.uses = {<<"account_owner_bindings", "app_id">>},
                         !.keys = {"owner_bindings active user app"}]

m0024 == [Nothing EXCEPT !.reads = {"channel_bindings"}]

\* One wallet of a person is made the primary and takes the balances of the
\* others; a person whose primary cannot be told is passed over, and the unique
\* key then refuses the rows.
m0025 == [Nothing EXCEPT !.reads = {"entitlement_wallets", "account_owner_bindings",
                                    "entitlement_ledger", "cost_events"},
                         !.mends = {"two active wallets"},
                         !.keys = {"wallets active user"}]

\* Rows of an account without an owner keep the account as their subject.
m0026 == [Nothing EXCEPT !.adds = Of({"daily_usage"}, "platform_user_id"),
                         !.reads = {"account_owner_bindings"},
                         !.mends = {"two usage rows of a day"},
                         !.keys = {"daily_usage user date"}]

m0027 == [Nothing EXCEPT !.makes = {"daily_quota_reservations"}]

m0031 == [Nothing EXCEPT !.adds = {<<"platform_users", "daily_limit">>, <<"platform_users", "rpm_limit">>},
                         !.uses = {<<"accounts", "daily_limit">>, <<"accounts", "rpm_limit">>},
                         !.reads = {"account_owner_bindings", "universe_residents", "universes"}]

m0032 == [Nothing EXCEPT !.reads = {"rpm_hits"}]

-----------------------------------------------------------------------------
(* Products: columns first (expand), then keys by product (contract). *)

\* Replays 0022-0024 for databases on whose branch these numbers stood for
\* other migrations.
m0036 == Together(Together(m0022, m0023), m0024)

m0037 == [Nothing EXCEPT !.makes = {"product_memberships"},
                         !.uses = {<<"platform_users", "daily_limit">>, <<"platform_users", "rpm_limit">>},
                         !.reads = {"platform_users"},
                         !.keys = {"memberships user app"}]

m0038 == [Nothing EXCEPT !.adds = Of({"platform_user_sessions"}, "app_id")]

BillingTables == {"subscriptions", "entitlement_wallets", "entitlement_ledger", "cost_events"}

m0039 == [Nothing EXCEPT !.adds = Of(BillingTables, "app_id"),
                         !.uses = Of({"accounts"}, "app_id"),
                         !.mends = {"two active subscriptions"}]

m0040 == [Nothing EXCEPT !.uses = Of(BillingTables \cup {"accounts"}, "app_id"),
                         !.reads = {"product_memberships"},
                         !.refuses = BillingFlaws,
                         !.drops = {"wallets active user"},
                         !.keys = {"wallets active user app", "subscriptions active user app"}]

QuotaTables == {"daily_usage", "daily_quota_reservations"}

m0041 == [Nothing EXCEPT !.adds = Of(QuotaTables, "app_id"),
                         !.uses = Of({"accounts"}, "app_id")]

m0042 == [Nothing EXCEPT !.uses = Of(QuotaTables \cup {"accounts", "account_owner_bindings"}, "app_id"),
                         !.reads = {"universe_residents", "universes", "rpm_hits", "product_memberships"},
                         !.refuses = QuotaFlaws,
                         !.drops = {"daily_usage user date"},
                         !.keys = {"daily_usage user app date"}]

ReferralTables == {"referral_codes", "referral_relationships", "meaningful_message_reviews"}

m0043 == [Nothing EXCEPT !.adds = Of(ReferralTables, "app_id"),
                         !.drops = {"referral_codes personal"},
                         !.keys = {"referral_codes personal app"}]

m0044 == [Nothing EXCEPT !.uses = Of(ReferralTables \cup {"accounts", "entitlement_ledger"}, "app_id"),
                         !.refuses = ReferralFlaws,
                         !.drops = {"referral_relationships invitee"},
                         !.keys = {"referral_relationships invitee app"}]

m0045 == [Nothing EXCEPT !.uses = Of(BillingTables \cup QuotaTables \cup ReferralTables
                                      \cup {"accounts", "account_owner_bindings",
                                            "platform_user_sessions"}, "app_id"),
                         !.reads = {"product_memberships", "universe_residents", "messages"},
                         !.refuses = Phase1Flaws,
                         !.keys = {"owner_bindings active user app", "wallets active user app",
                                   "subscriptions active user app", "daily_usage user app date",
                                   "referral_codes personal app",
                                   "referral_relationships invitee app"}]

m0046 == [Nothing EXCEPT !.uses = Of({"entitlement_ledger", "cost_events"}, "app_id"),
                         !.refuses = KeyFlaws,
                         !.drops = {"ledger key", "cost key"},
                         !.keys = {"ledger app key", "cost app key"}]

-----------------------------------------------------------------------------
(* The companion world, and the letters, wishes and templates. *)

m0028 == [Nothing EXCEPT !.makes = {"universes", "character_templates", "universe_residents",
                                    "ai_conversations"},
                         !.keys = {"universes owner", "residents runtime", "ai_conversations resident"}]

m0029 == [Nothing EXCEPT !.makes = {"universe_memory_facts"}]

m0030 == [Nothing EXCEPT !.adds = {<<"character_templates", "initial_candidate_rank">>},
                         !.reads = {"universe_residents"},
                         !.keys = {"templates rank", "residents template"}]

m0033 == [Nothing EXCEPT !.makes = {"universe_posts", "companion_world_outbox", "app_notifications"},
                         !.keys = {"posts user request", "posts ai slot", "notifications key"}]

m0034 == [Nothing EXCEPT !.adds = {<<"universe_posts", "post_type">>,
                                   <<"universe_posts", "departure_event_id">>},
                         !.makes = {"resident_lifecycle_events", "resident_lifecycle_event_actions",
                                    "character_letter_catalog", "character_letters"},
                         !.reads = {"universe_residents", "messages"},
                         !.keys = {"posts departure", "lifecycle open", "lifecycle committed",
                                   "catalog character version", "catalog active character",
                                   "catalog template", "letters open", "letters world character"}]

m0035 == [Nothing EXCEPT !.makes = {"universe_visit_slots", "universe_invites", "universe_visits",
                                    "human_conversations", "human_messages",
                                    "platform_user_blocks", "human_chat_reports"},
                         !.keys = {"visits open pair", "human_messages client", "human_messages sequence"}]

m0047 == [Nothing EXCEPT !.reads = {"character_templates"}]

m0048 == [Nothing EXCEPT !.adds = {<<"character_templates", "persona_key">>},
                         !.makes = {"resident_drafts"},
                         !.keys = {"drafts client request"}]

m0049 == [Nothing EXCEPT !.adds = {<<"character_templates", "name_pool_json">>,
                                   <<"universe_residents", "suggested_display_name">>}]

m0050 == [Nothing EXCEPT !.adds = {<<"ai_conversations", "last_read_message_id">>}]

m0052 == [Nothing EXCEPT !.adds = {<<"human_conversations", "owner_last_read_sequence">>,
                                   <<"human_conversations", "visitor_last_read_sequence">>}]

m0053 == [Nothing EXCEPT !.reads = {"universe_posts"}, !.keys = {"posts resident intro"}]

m0055 == [Nothing EXCEPT !.makes = {"universe_post_media"}, !.keys = {"post media"}]

m0057 == [Nothing EXCEPT !.adds = {<<"resident_drafts", "source">>,
                                   <<"resident_drafts", "wish_request_id">>},
                         !.keys = {"drafts wish request"}]

m0058 == [Nothing EXCEPT !.adds = {<<"character_letter_catalog", "source">>,
                                   <<"character_letters", "source">>,
                                   <<"character_letters", "wish_id">>},
                         !.makes = {"resident_wishes", "resident_wish_jobs"},
                         !.drops = {"letters open"},
                         !.keys = {"organic letters open", "letters wish", "wishes request",
                                   "wishes open"}]

\* Codes that begin like those of role templates stop it.
m0059 == [Nothing EXCEPT !.reads = {"campaign_codes"},
                         !.refuses = {"reserved code"},
                         !.makes = {"creator_role_templates", "creator_role_template_versions",
                                    "creator_role_template_review_runs",
                                    "account_creator_role_template_attribution",
                                    "creator_role_template_events"},
                         !.keys = {"role templates slot", "role templates code",
                                   "role versions published", "role versions open review"}]

m0060 == [Nothing EXCEPT !.adds = {<<"creator_role_template_versions", "opening_line">>,
                                   <<"creator_role_template_versions", "summary_edit_status">>,
                                   <<"account_creator_role_template_attribution",
                                     "opening_line_snapshot">>},
                         !.makes = {"creator_role_template_summary_review_runs"}]

m0061 == [Nothing EXCEPT !.adds = Of({"universes", "character_templates"}, "app_id"),
                         !.drops = {"templates rank"},
                         !.keys = {"templates app rank"}]

m0062 == [Nothing EXCEPT !.adds = Of({"app_notifications"}, "app_id"),
                         !.makes = {"product_notification_preferences"},
                         !.drops = {"notifications key"},
                         !.keys = {"notifications app key"}]

m0063 == [Nothing EXCEPT !.uses = {<<"universes", "app_id">>},
                         !.drops = {"universes owner"},
                         !.keys = {"universes app owner"}]

-----------------------------------------------------------------------------
(* The person's page, media, and the turns that are streamed. *)

m0051 == [Nothing EXCEPT !.adds = Of({"platform_users"}, "avatar_key"),
                         !.makes = {"account_deletion_requests", "app_notification_preferences"}]

m0054 == [Nothing EXCEPT !.makes = {"media_assets"},
                         !.adds = {<<"messages", "content_json">>, <<"messages", "media_id">>,
                                   <<"human_messages", "media_id">>}]

m0056 == [Nothing EXCEPT !.adds = Of({"media_assets"}, "moderation_attempts")]

m0068 == [Nothing EXCEPT !.makes = {"runtime_turn_runs"},
                         !.keys = {"turn_runs key", "turn_runs active session"}]

m0069 == [Nothing EXCEPT !.adds = Of({"runtime_turn_runs"}, "cancel_requested_at")]

\* Fills in the product of the tasks, and stops at one without an account or of
\* another product than its account.
m0070 == [Nothing EXCEPT !.adds = Of({"content_moderation_tasks"}, "app_id"),
                         !.uses = Of({"accounts"}, "app_id"),
                         !.refuses = {"task scope drift"}]

m0071 == [Nothing EXCEPT !.uses = Of({"content_moderation_tasks"}, "app_id"),
                         !.drops = {"task key"},
                         !.keys = {"task app key"}]

-----------------------------------------------------------------------------
(* Plum, which was called Fibre. *)

m0064 == [Nothing EXCEPT !.makes = {"runtime_ownerships", "fibre_characters",
                                    "fibre_character_bindings", "fibre_model_profiles",
                                    "fibre_conversations"},
                         !.keys = {"ownerships source", "fibre model default",
                                   "fibre conversations active"}]

m0065 == [Nothing EXCEPT !.adds = {<<"fibre_characters", "creator_profile_id">>,
                                   <<"fibre_characters", "content_rating">>,
                                   <<"fibre_characters", "capabilities_json">>,
                                   <<"fibre_characters", "fixture_version">>,
                                   <<"fibre_conversations", "current_chapter_no">>},
                         !.makes = {"fibre_public_profiles", "fibre_character_badges",
                                    "fibre_character_badge_assignments", "fibre_character_stats",
                                    "fibre_user_character_relationships", "fibre_character_likes",
                                    "fibre_character_favorites", "fibre_character_comments",
                                    "fibre_character_memories", "fibre_user_personas",
                                    "fibre_conversation_pins"},
                         !.keys = {"fibre public profiles user", "fibre personas default"}]

m0066 == [Nothing EXCEPT !.makes = {"fibre_access_invites"}]

FibreTables == (m0064.makes \cup m0065.makes \cup m0066.makes) \ {"runtime_ownerships"}

PlumTables == {"plum_access_invites", "plum_character_badge_assignments", "plum_character_badges",
               "plum_character_bindings", "plum_character_comments", "plum_character_favorites",
               "plum_character_likes", "plum_character_memories", "plum_character_stats",
               "plum_characters", "plum_conversation_pins", "plum_conversations",
               "plum_model_profiles", "plum_public_profiles",
               "plum_user_character_relationships", "plum_user_personas"}

\* The tables are renamed; it stops if both names are there.
m0067 == [Nothing EXCEPT !.reads = FibreTables,
                         !.bars = PlumTables,
                         !.drops = FibreTables \cup {"fibre model default", "fibre conversations active",
                                                    "fibre public profiles user", "fibre personas default"},
                         !.makes = PlumTables,
                         !.adds = {<<"plum_characters", "creator_profile_id">>,
                                   <<"plum_characters", "content_rating">>,
                                   <<"plum_characters", "capabilities_json">>,
                                   <<"plum_characters", "fixture_version">>,
                                   <<"plum_conversations", "current_chapter_no">>},
                         !.keys = {"plum model default", "plum conversations active",
                                   "plum public profiles user", "plum personas default"}]

-----------------------------------------------------------------------------
(* The chain: the number 14 to 18 are left to an unmerged branch.          *)

Chain == 1 :> m0001 @@ 2 :> m0002 @@ 3 :> m0003 @@ 4 :> m0004 @@ 5 :> m0005 @@ 6 :> m0006
         @@ 7 :> m0007 @@ 8 :> m0008 @@ 9 :> m0009 @@ 10 :> m0010 @@ 11 :> m0011 @@ 12 :> m0012
         @@ 13 :> m0013 @@ 19 :> m0019 @@ 20 :> m0020 @@ 21 :> m0021 @@ 22 :> m0022
         @@ 23 :> m0023 @@ 24 :> m0024 @@ 25 :> m0025 @@ 26 :> m0026 @@ 27 :> m0027
         @@ 28 :> m0028 @@ 29 :> m0029 @@ 30 :> m0030 @@ 31 :> m0031 @@ 32 :> m0032
         @@ 33 :> m0033 @@ 34 :> m0034 @@ 35 :> m0035 @@ 36 :> m0036 @@ 37 :> m0037
         @@ 38 :> m0038 @@ 39 :> m0039 @@ 40 :> m0040 @@ 41 :> m0041 @@ 42 :> m0042
         @@ 43 :> m0043 @@ 44 :> m0044 @@ 45 :> m0045 @@ 46 :> m0046 @@ 47 :> m0047
         @@ 48 :> m0048 @@ 49 :> m0049 @@ 50 :> m0050 @@ 51 :> m0051 @@ 52 :> m0052
         @@ 53 :> m0053 @@ 54 :> m0054 @@ 55 :> m0055 @@ 56 :> m0056 @@ 57 :> m0057
         @@ 58 :> m0058 @@ 59 :> m0059 @@ 60 :> m0060 @@ 61 :> m0061 @@ 62 :> m0062
         @@ 63 :> m0063 @@ 64 :> m0064 @@ 65 :> m0065 @@ 66 :> m0066 @@ 67 :> m0067
         @@ 68 :> m0068 @@ 69 :> m0069 @@ 70 :> m0070 @@ 71 :> m0071

Version == (1..13) \cup (19..71)

Following(v) == IF v = 13 THEN 19 ELSE v + 1

Newest == 71

-----------------------------------------------------------------------------
(* What a migration does to a schema. *)

NoSchema == [tables |-> {}, columns |-> {}, keys |-> {}]

\* The tables and columns that its statements name, those apart that it makes.
Lacks(schema, m) ==
    \/ ~(m.reads \subseteq schema.tables \cup m.makes)
    \/ ~({c[1] : c \in m.adds} \subseteq schema.tables \cup m.makes)
    \/ ~(m.uses \subseteq schema.columns \cup m.adds)
    \/ m.bars \cap schema.tables # {}

Changed(schema, m) ==
    [tables |-> (schema.tables \ m.drops) \cup m.makes,
     columns |-> {c \in schema.columns : c[1] \notin m.drops} \cup m.adds,
     keys |-> (schema.keys \ m.drops) \cup m.keys]

\* The schema of a new installation up to version n, without those `skipped`.
Upto(skipped) ==
    LET upto[n \in 0..Newest] ==
            IF n = 0 THEN NoSchema
            ELSE IF n \in Version \ skipped THEN Changed(upto[n - 1], Chain[n])
            ELSE upto[n - 1]
    IN upto

=============================================================================
