SPECIFICATION ServicesSpec
CONSTANTS
    Parts = {"referrals"}
    \* referral rewards
    ra = ra
    rb = rb
    g1 = g1
    g2 = g2
    Rel = {ra, rb}
    Message = {g1, g2}
    RelOf <- MCRelOf
    Tx = {tx1, tx2}
    Needed = 1
    SoftLimit = 0
    Batches = 1
    \* moderation tasks
    Task = {k1}
    Worker = {w1, w2}
    Staff = {s1, s2}
    Admins = {s1}
    MaxAttempts = 2
    BatchSize = 1
    MaxClaims = 2
    \* outbound messages
    d1 = d1
    d2 = d2
    d3 = d3
    d4 = d4
    d5 = d5
    Duty = {d1, d2, d3, d4, d5}
    KindOf <- MCKindOf
    Recurring = {d1, d2}
    Remote = {d3, d5}
    Scheduler = {c1, c2}
    Agent = {n1}
    MaxDuties = 1
    MaxPeriods = 2
    MaxRunAttempts = 2
    MaxNodeClaims = 2
    \* role templates
    Role = {ro}
    MaxVersions = 3
    Reviewer = {v1, v2}
    Bearer = {b1}
    RoleSlots = 1
    \* conversation memory
    Turner = {u1, u2}
    Summarizer = {z1, z2}
    Rotator = {y1}
    MaxSessions = 2
    MaxMessages = 3
    TailBudget = 1
    \* the person's profile
    Chatter = {1, 2}
    Talkative = 1
    Familiar = 1
    MaxInbound = 3
    MaxNights = 2
    \* letters and wishes
    Organic = {o1}
    Wish = {w1}
    Granter = {k1, k2}
    MaxHomes = 2
    OrganicLimit = 2
    \* notices
    HumanNotice = {h1, h2}
    ResidentNotice = {n1, n2}
    Notifier = {f1, f2}
    MaxVisible = 2
    \* the schema
    Process = {ps1, ps2}
    Databases <- MCDatabases
    Deploys <- MCDeploys
    Flaws = {"two active subscriptions", "billing scope drift", "task scope drift",
             "wallets without a primary", "two usage rows of a day"}
    MaxStarts = 2
    \* the language model
    Catalog <- MCCatalog
    ToolRounds = 1
    Retries = 1
    Indexes = {1, 2}
    MaxChunks = 1
    Overridden = {"flash"}
INVARIANT ReportedIsPaid
CHECK_DEADLOCK FALSE
