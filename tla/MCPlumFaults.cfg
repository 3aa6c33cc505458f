SPECIFICATION FairSpec
CONSTANTS
    r1 = r1
    r2 = r2
    r3 = r3
    k1 = k1
    k2 = k2
    m1 = m1
    m2 = m2
    Request = {r1, r2}
    Key = {k1, k2}
    Message = {m1}
    KeyOf <- SeparateKeyOf
    MessageOf <- SeparateMessageOf
    Resets = {}
    Funds = 2
    MaxDelta = 1
    Faults = {"crash", "error"}
    None = None
INVARIANTS
    CoinsBuyWords
    NoOrphanReservation
    ToldIsTrue
PROPERTIES
    OutcomeIsFinal
    EveryStreamEnds
CHECK_DEADLOCK FALSE
