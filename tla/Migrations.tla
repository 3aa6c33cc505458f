----------------------------- MODULE Migrations -----------------------------
(***************************************************************************)
(* How the chain of SchemaChain is run (app/db/_core.py, init_db and       *)
(* migrate_db_through; scripts/migrate_multi_product_phase1.py and its     *)
(* prechecks): by every process that starts, under one advisory lock and   *)
(* in one transaction, while writers of the old code may still be at work. *)
(*                                                                         *)
(* Rows are told apart by the flaws they have.  Statements read what is    *)
(* committed when they run, and what their own transaction has done.       *)
(***************************************************************************)
EXTENDS SchemaChain

CONSTANTS Process,   \* processes that start
          Databases, \* to begin with: the version, and the versions built and skipped
          Flaws,     \* flaws that may turn up in the rows
          Deploys,   \* what the operator asks for: <<expected version, target>>
          MaxStarts  \* bound on how often processes start

VARIABLES schema,    \* the tables, columns and unique keys, as committed
          applied,   \* the highest version in schema_migrations, 0 if there is none
          flawed,    \* flaws of the committed rows
          old,       \* writers of the old code are at work
          arbiters,  \* unique keys that their ON CONFLICT clauses name
          lockedBy,  \* holder of the migration lock
          work,      \* what its transaction has done
          process,   \* what each process is doing
          starts,    \* how often one has started
          passed,    \* version at which a precheck found nothing, with nothing written since
          astray     \* what should not have happened

migrationVars == <<schema, applied, flawed, old, arbiters, lockedBy, work, process,
                   starts, passed, astray>>

dbVars == <<schema, applied, flawed>>
oldVars == <<old, arbiters>>

Contracts == {40, 42, 44, 45, 46}
Off == [pc |-> "off", role |-> "none", expects |-> 0, target |-> Newest]
NoWork == [schema |-> NoSchema, upto |-> 0, mended |-> {}]
Unlocked == "unlocked"
OldArbiters == {"wallets active user", "daily_usage user date"}

\* schema_migrations knows the versions of the chain, and the operator may ask
\* for no other (_core.py:380-382).
ASSUME MigrationBounds ==
    /\ Unlocked \notin Process /\ Flaws \subseteq Flaw
    /\ \A b \in Databases : b.version \in Version \cup {0}
    /\ \A d \in Deploys : d[2] \in Version

\* A fact of the chain: past the contracts no migration takes a key away that an
\* ON CONFLICT of old code names.
ASSUME ArbitersStay ==
    \A v \in Version : (\A c \in Contracts : c < v) => Chain[v].drops \cap OldArbiters = {}
-----------------------------------------------------------------------------
Moves(p, pc) == process' = [process EXCEPT ![p].pc = pc]

\* init_db is called by a service, whose environment allows migrations, and by
\* whatever else is run by hand; the operator names the version to go to, and
\* has stopped all writers.
Start(p) ==
    /\ process[p] = Off
    /\ starts < MaxStarts
    /\ starts' = starts + 1
    /\ \/ \E r \in {"service", "tool"} :
             process' = [process EXCEPT ![p] = [Off EXCEPT !.pc = "lock", !.role = r]]
       \/ /\ ~old
          /\ \E d \in Deploys :
                process' = [process EXCEPT ![p] =
                    [pc |-> "lock", role |-> "operator", expects |-> d[1], target |-> d[2]]]
    /\ UNCHANGED <<dbVars, oldVars, lockedBy, work, passed, astray>>

\* pg_advisory_xact_lock
TakeLock(p) ==
    /\ process[p].pc = "lock"
    /\ lockedBy = Unlocked
    /\ lockedBy' = p
    /\ work' = [NoWork EXCEPT !.schema = schema, !.upto = applied]
    /\ Moves(p, "guard")
    /\ UNCHANGED <<dbVars, oldVars, starts, passed, astray>>

\* The transaction is undone, and with it the lock is gone.
Rollback(p) ==
    /\ lockedBy' = Unlocked
    /\ work' = NoWork
    /\ process' = [process EXCEPT ![p] = Off]
    /\ UNCHANGED <<dbVars, oldVars, starts, passed>>

\* A database with a version, or with tables though it has lost its versions,
\* is not taken across a contract by a start.
Blocked == /\ applied > 0 \/ "accounts" \in schema.tables
           /\ \E v \in Contracts : applied < v

\* The next migration, and whether this process is to run it.
NextVersion == Following(work.upto)
Outstanding(p) == work.upto < process[p].target

MayMigrate(p) ==
    CASE process[p].role = "service"  -> ~Blocked
      [] process[p].role = "tool"     -> ~Blocked /\ ~Outstanding(p)
      [] process[p].role = "operator" -> applied \in {process[p].expects, process[p].target}

\* Variant: a service logs that it is blocked, and serves.
GuardLogged(p) ==
    /\ process[p].pc = "guard"
    /\ IF MayMigrate(p) THEN Moves(p, "count") /\ UNCHANGED <<lockedBy, work>>
       ELSE /\ lockedBy' = Unlocked /\ work' = NoWork
            /\ IF process[p].role = "service" THEN Moves(p, "serving")
               ELSE process' = [process EXCEPT ![p] = Off]
    /\ UNCHANGED <<dbVars, oldVars, starts, passed, astray>>

Guard(p) ==
    /\ process[p].pc = "guard"
    /\ IF MayMigrate(p) THEN Moves(p, "count") /\ UNCHANGED <<dbVars, oldVars, lockedBy, work, starts, passed>>
       ELSE Rollback(p)
    /\ UNCHANGED astray

Seen == flawed \ work.mended

\* A precheck is for the merging of wallets and for the contracts.
Refused(v) ==
    astray' = IF passed = applied /\ v = passed + 1 /\ v \in Contracts \cup {25}
              THEN astray \cup {"refused after a precheck"} ELSE astray

\* What the contract looks for before it changes anything.
Count(p) ==
    /\ process[p].pc = "count" /\ Outstanding(p)
    /\ LET bad == Chain[NextVersion].refuses \cap Seen
       IN  IF bad = {}
           THEN /\ Moves(p, "change")
                /\ UNCHANGED <<dbVars, oldVars, lockedBy, work, starts, passed, astray>>
           ELSE /\ Rollback(p)
                /\ Refused(NextVersion)

\* The statements of one migration, and its version; a unique key is refused by
\* rows that do not fit it, and any statement by a table or column that is not there.
Change(p) ==
    /\ process[p].pc = "change"
    /\ LET v == NextVersion
           m == Chain[v]
           mended == work.mended \cup (m.mends \cap Seen)
       IN  IF Lacks(work.schema, m)
           THEN Rollback(p) /\ astray' = astray \cup {"a statement without its table"}
           ELSE IF \E d \in flawed \ mended : RuledOut(d, m.keys)
           THEN Rollback(p) /\ Refused(v)
           ELSE /\ work' = [schema |-> Changed(work.schema, m), upto |-> v,
                             mended |-> mended]
                /\ Moves(p, "count")
                /\ UNCHANGED <<dbVars, oldVars, lockedBy, starts, passed, astray>>

\* The commit of all migrations together.
CommitRun(p) ==
    /\ process[p].pc = "count" /\ ~Outstanding(p)
    /\ schema' = work.schema
    /\ applied' = work.upto
    /\ flawed' = flawed \ work.mended
    /\ lockedBy' = Unlocked /\ work' = NoWork
    /\ process' = [process EXCEPT ![p] = IF @.role = "service" THEN [@ EXCEPT !.pc = "serving"] ELSE Off]
    /\ passed' = IF work.upto = applied THEN passed ELSE 0
    /\ UNCHANGED <<oldVars, starts, astray>>

\* The process is killed, or the connection lost.
Break(p) ==
    /\ process[p].pc \in {"guard", "count", "change"}
    /\ Rollback(p)
    /\ UNCHANGED astray

Quits(p) ==
    /\ process[p].pc \in {"lock", "serving"}
    /\ process' = [process EXCEPT ![p] = Off]
    /\ UNCHANGED <<dbVars, oldVars, lockedBy, work, starts, passed, astray>>
-----------------------------------------------------------------------------
(* What else happens to the database. *)

TableOf(d) ==
    CASE d \in {"identity scope drift", "two active entry accounts",
                "two active owners of one account"} -> "account_owner_bindings"
      [] d = "two active subscriptions" -> "subscriptions"
      [] d \in {"two active wallets", "wallets without a primary", "billing scope drift",
                "balance mismatch"} -> "entitlement_wallets"
      [] d = "one billing key twice" -> "entitlement_ledger"
      [] d \in {"quota of no person", "quota scope drift", "two usage rows of a day"} -> "daily_usage"
      [] d = "two personal codes" -> "referral_codes"
      [] d \in {"two inviters", "referral scope drift"} -> "referral_relationships"
      [] d = "reserved code" -> "campaign_codes"
      [] d = "task scope drift" -> "content_moderation_tasks"

\* Changing the table of a flaw, or a key of it, locks out its writers until the
\* end of the transaction.
Altered(d) ==
    \E v \in Version :
        /\ applied < v /\ v <= work.upto
        /\ \/ \E c \in Chain[v].adds : c[1] = TableOf(d)
           \/ RuledOut(d, Chain[v].keys \cup Chain[v].drops)

\* Another: a migration that repairs rows changes their table or a key of theirs,
\* and so locks out whoever would write them.
ASSUME MendersLock ==
    \A v \in Version : \A d \in Chain[v].mends :
        \/ \E c \in Chain[v].adds : c[1] = TableOf(d)
        \/ RuledOut(d, Chain[v].keys \cup Chain[v].drops)

\* Old code writes a row that does not fit.
Slip(d) ==
    /\ old
    /\ flawed = {}
    /\ TableOf(d) \in schema.tables
    /\ ~Altered(d) /\ ~RuledOut(d, schema.keys)
    /\ flawed' = {d}
    /\ passed' = 0
    /\ UNCHANGED <<schema, applied, oldVars, lockedBy, work, process, starts, astray>>

\* Somebody repairs the rows.
Reconcile(d) ==
    /\ d \in flawed
    /\ ~Altered(d)
    /\ flawed' = flawed \ {d}
    /\ passed' = 0
    /\ UNCHANGED <<schema, applied, oldVars, lockedBy, work, process, starts, astray>>

Drain ==
    /\ old
    /\ old' = FALSE /\ arbiters' = {}
    /\ UNCHANGED <<dbVars, lockedBy, work, process, starts, passed, astray>>

Expanded(tables) == Of(tables, "app_id") \subseteq schema.columns

LegacyIdentity == IF "product_memberships" \in schema.tables /\ Expanded({"platform_user_sessions"})
                  THEN IdentityFlaws ELSE {"identity scope drift", "two active entry accounts"}
\* Variant: the precheck does not look for two subscriptions.
BillingUncounted == {"wallets without a primary", "billing scope drift", "balance mismatch"}

LegacyBilling == IF Expanded(BillingTables) THEN BillingFlaws
                 ELSE {"two active subscriptions", "billing scope drift", "balance mismatch"}
LegacyQuota == IF Expanded(QuotaTables) THEN QuotaFlaws ELSE {"quota scope drift"}
LegacyReferral == IF Expanded(ReferralTables) THEN ReferralFlaws ELSE {"referral scope drift"}

\* precheck_wallet_migration before 0025, precheck_multi_product_phase1 after:
\* the latter looks for what the next contract will, once its columns are there.
Checked == IF applied < 25 THEN {"two active owners of one account", "identity scope drift",
                                 "wallets without a primary"}
           ELSE LegacyIdentity \cup LegacyBilling \cup LegacyQuota \cup LegacyReferral
                \cup (IF Expanded(BillingTables \cup QuotaTables \cup ReferralTables) THEN KeyFlaws ELSE {})

Precheck ==
    /\ ~old /\ applied > 0
    /\ passed' = IF flawed \cap Checked = {} THEN applied ELSE 0
    /\ UNCHANGED <<dbVars, oldVars, lockedBy, work, process, starts, astray>>

MigrationInit ==
    /\ \E b \in Databases :
          /\ applied = b.version
          /\ schema = Upto(b.skipped)[b.built]
    /\ flawed = {}
    /\ old \in {FALSE, applied # 0}
    /\ arbiters = IF old THEN schema.keys \cap OldArbiters ELSE {}
    /\ lockedBy = Unlocked /\ work = NoWork
    /\ process = [p \in Process |-> Off]
    /\ starts = 0 /\ passed = 0 /\ astray = {}

MigrationNext ==
    \/ \E p \in Process : \/ Start(p) \/ TakeLock(p) \/ Guard(p) \/ Count(p) \/ Change(p)
                          \/ CommitRun(p) \/ Break(p) \/ Quits(p)
    \/ \E d \in Flaws : Slip(d) \/ Reconcile(d)
    \/ Drain
    \/ Precheck

MigrationSpec == MigrationInit /\ [][MigrationNext]_migrationVars
-----------------------------------------------------------------------------
MigrationTypeOK ==
    /\ applied \in Version \cup {0} /\ flawed \subseteq Flaw /\ old \in BOOLEAN
    /\ lockedBy \in Process \cup {Unlocked}
    /\ work.upto \in Version \cup {0} /\ work.mended \subseteq flawed
    /\ passed \in Version \cup {0}

\* What a unique key rules out is not in the rows.
KeysHold == \A d \in flawed : ~RuledOut(d, schema.keys)

\* Old writers find the keys that their ON CONFLICT names as long as they run.
OldWritersFit == arbiters \subseteq schema.keys

\* The new code serves only with the newest version, from which no later start
\* takes the database away.
ServesTheNewest ==
    (\E p \in Process : process[p].pc = "serving") => applied = Newest

\* However processes that start, the operator, failures, old writers and repairs
\* interleave, what is committed fits those who are at work (_core.py, init_db).
MigrationsAreSafe == MigrationTypeOK /\ KeysHold /\ OldWritersFit /\ ServesTheNewest

\* Whatever the history of a database, every migration finds what its statements
\* name, and a contract is not refused for what the precheck before it has let pass.
NothingAstray == astray = {}

\* All roads lead to the very schema of a new installation.
NewestSchema == Upto({})[Newest]
AllRoadsLeadThere == applied = Newest => schema = NewestSchema

\* The chain itself (_MIGRATIONS): it can be run, and where to does not depend on
\* where it began.
ChainIsSound == NothingAstray /\ AllRoadsLeadThere
=============================================================================
