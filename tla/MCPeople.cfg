SPECIFICATION PeopleSpec
CONSTANTS
    Parts = {"signing in", "turns", "welcome", "nudges", "rooms", "channels"}
    \* signing in
    Browser = {b1, b2}
    Way = {"web", "native"}
    MaxTexts = 2
    MaxTries = 1
    \* turns
    Utterance = {m1, m2}
    ResetText = {m2}
    Handler = {h1, h2}
    MaxPosts = 3
    MaxResets = 1
    MaxRounds = 1
    \* nudges
    Planner = {p1}
    Request = {o1}
    Crashes = TRUE
    MaxPlans = 2
    MaxDays = 2
    LastSlot = 2
    MaxSaid = 1
    \* rooms of Plum
    Visitor = {v1, v2}
    Fan = {1, 2}
    Word = {1}
    MaxRooms = 2
    MaxVisits = 6
    \* the WeChat of an account
    Person = {q1}
    Intent = {i1, i2}
    Weixin = {x1}
    Inbound = {t1}
    MaxAccounts = 2
    MaxSeconds = 1
INVARIANTS
    SignInIsSound
    TurnsAreSound
    NudgesAreSound
    RoomsAreSound
    BindingIsSound
CHECK_DEADLOCK FALSE
