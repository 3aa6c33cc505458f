----------------------------- MODULE MCServices -----------------------------
(***************************************************************************)
(* Values for TLC for the services that keep state of their own: referral  *)
(* rewards, moderation tasks, outbound messages, role templates, the       *)
(* conversation memory, the person's profile, letters and wishes, the      *)
(* notices of the app, the schema that all of them need, and the language  *)
(* model they ask.                                                         *)
(* Their rows are disjoint as far as the models tell them apart, so a      *)
(* behaviour moves one part, the one in focus, and leaves the others as    *)
(* they begin: TLC explores the sum of their states, not the product.      *)
(***************************************************************************)
EXTENDS Referral, Moderation, Outbound, RoleTemplates, SessionMemory,
        UserMeta, WorldMail, AppInbox, Migrations, LanguageModel, TLC

CONSTANTS Parts  \* the parts a run looks at

\* Model values that a definition below names.
CONSTANTS ra, rb, g1, g2, d1, d2, d3, d4, d5

\* Two invited people: each sends a message.
MCRelOf == [g \in Message |-> IF g = g1 THEN ra ELSE rb]

\* A fixed and a dynamic reminder that recur, a dynamic one and a commitment of
\* an account on another node, and a commitment of an account on this one.
MCKindOf == d1 :> "fixed" @@ d2 :> "dynamic" @@ d3 :> "dynamic"
            @@ d4 :> "commitment" @@ d5 :> "commitment"

\* A new database, one before the wallets of a person were merged, one whose
\* versions 22 to 24 were those of another branch, and some between the
\* checkpoints of the contracts and after them; and one that has lost its versions.
MCDatabases ==
    {[version |-> v, built |-> v, skipped |-> {}] : v \in {0, 24, 39, 41, 44, 58, 69}}
    \cup {[version |-> 35, built |-> 35, skipped |-> {22, 23, 24}],
          [version |-> 0, built |-> 39, skipped |-> {}]}

\* The steps of migrate_multi_product_phase1.py, and the one of the test that
\* takes a database of the other branch to the newest version; and the release
\* that merged the wallets.
MCDeploys == {<<24, 36>>, <<35, Newest>>, <<39, 40>>, <<40, 41>>, <<41, 42>>, <<42, 43>>,
              <<43, 44>>, <<44, 45>>, <<45, 46>>}

Provides(id, fam, tier, protocol, ready) ==
    [id |-> id, family |-> fam, tier |-> tier, protocol |-> protocol, ready |-> ready]

\* A family with a provider of each protocol: one serves a tier of its own, one
\* stands in for the other tier, and one has no key.
MCCatalog == <<Provides("deepseek", "deepseek", "flash", "openai_chat", TRUE),
               Provides("claude", "anthropic", "pro", "anthropic_messages", TRUE),
               Provides("chatgpt", "openai", "pro", "openai_responses", FALSE)>>

\* The actors of a part are interchangeable.  One run gives the same two values to
\* the actors of every part, of which only one is in focus.
ActorSymmetry ==
    UNION {Permutations(A) : A \in {Tx, Worker, Scheduler, Reviewer, Turner,
                                    Granter, Notifier, Process}}

VARIABLE focus

servicesVars == <<referralVars, moderationVars, outboundVars, roleVars,
                  memoryVars, metaVars, mailVars, inboxVars, migrationVars,
                  llmVars>>

Init ==
    /\ focus \in Parts
    /\ ReferralInit /\ ModerationInit /\ OutboundInit /\ RoleInit
    /\ MemoryInit /\ MetaInit /\ MailInit /\ InboxInit
    /\ MigrationInit /\ LlmInit
    /\ focus # "referrals" => hasAccount
    /\ focus # "schema" => applied = 0 /\ schema = NoSchema
    /\ focus # "model" => family = "deepseek"

Next ==
    /\ UNCHANGED focus
    /\ \/ /\ focus = "referrals"
          /\ ReferralNext
          /\ UNCHANGED <<moderationVars, outboundVars, roleVars, memoryVars,
                        metaVars, mailVars, inboxVars, migrationVars, llmVars>>
       \/ /\ focus = "moderation"
          /\ ModerationNext
          /\ UNCHANGED <<referralVars, outboundVars, roleVars, memoryVars,
                        metaVars, mailVars, inboxVars, migrationVars, llmVars>>
       \/ /\ focus = "outbound"
          /\ OutboundNext
          /\ UNCHANGED <<referralVars, moderationVars, roleVars, memoryVars,
                        metaVars, mailVars, inboxVars, migrationVars, llmVars>>
       \/ /\ focus = "roles"
          /\ RoleNext
          /\ UNCHANGED <<referralVars, moderationVars, outboundVars,
                        memoryVars, metaVars, mailVars, inboxVars,
                        migrationVars, llmVars>>
       \/ /\ focus = "memory"
          /\ MemoryNext
          /\ UNCHANGED <<referralVars, moderationVars, outboundVars, roleVars,
                        metaVars, mailVars, inboxVars, migrationVars, llmVars>>
       \/ /\ focus = "profile"
          /\ MetaNext
          /\ UNCHANGED <<referralVars, moderationVars, outboundVars, roleVars,
                        memoryVars, mailVars, inboxVars, migrationVars,
                        llmVars>>
       \/ /\ focus = "mail"
          /\ MailNext
          /\ UNCHANGED <<referralVars, moderationVars, outboundVars, roleVars,
                        memoryVars, metaVars, inboxVars, migrationVars,
                        llmVars>>
       \/ /\ focus = "notices"
          /\ InboxNext
          /\ UNCHANGED <<referralVars, moderationVars, outboundVars, roleVars,
                        memoryVars, metaVars, mailVars, migrationVars, llmVars>>
       \/ /\ focus = "schema"
          /\ MigrationNext
          /\ UNCHANGED <<referralVars, moderationVars, outboundVars, roleVars,
                        memoryVars, metaVars, mailVars, inboxVars, llmVars>>
       \/ /\ focus = "model"
          /\ LlmNext
          /\ UNCHANGED <<referralVars, moderationVars, outboundVars, roleVars,
                        memoryVars, metaVars, mailVars, inboxVars,
                        migrationVars>>

ServicesSpec == Init /\ [][Next]_<<focus, servicesVars>>
=============================================================================
