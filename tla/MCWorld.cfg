SPECIFICATION WorldSpec
CONSTANTS
    Parts = {"feed", "cast", "visits"}
    \* the feed
    Slot = {am}
    UserPost = {up}
    Author = {x1}
    Ticker = {g1, g2}
    Publisher = {p1, p2}
    MaxTries = 2
    MaxSends = 1
    OutboxBatch = 1
    MaxPosts = 1
    \* the residents
    d1 = d1
    Preset = {e1}
    Initial = {e1}
    Caller = {c1}
    Request = {q1, q2}
    Draft = {d1}
    DraftOf <- MCDraftOf
    Scanner = {s1}
    Fact = {"quiet", "abuse", "crisis"}
    Capacity = 2
    MaxRounds = 1
    MaxNews = 2
    MaxLives = 2
    \* visits
    i1 = i1
    i2 = i2
    Human = {1, 2, 3}
    Invite = {i1, i2}
    OwnerOf <- MCOwnerOf
    Guests <- MCGuests
    VisitTx = {t1, t2}
    VisitSlots = 1
    VisitorLimit = 1
INVARIANTS
    CastFits
    VisitsAreSound
PROPERTIES
    ClaimHolds
    LastLeavesOnlyForAbuse
SYMMETRY SessionSymmetry
CHECK_DEADLOCK FALSE
