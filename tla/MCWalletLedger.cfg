SPECIFICATION FairSpec
CONSTANTS
    u1 = u1
    u2 = u2
    a1 = a1
    k1 = k1
    k2 = k2
    s1 = s1
    s2 = s2
    User = {u1, u2}
    App = {a1}
    Key = {k1, k2}
    Amount = {1, 2, 3}
    Session = {s1, s2}
    Request <- MCRequest
    NoRequest = NoRequest
INVARIANTS
    TypeOK
    LedgerExplainsBalance
    KeyRecordedOnce
    ReservationNeverOverdraws
    ReleaseRefundsReservation
    CostEventIffCharged
    AnswerIsTrue
PROPERTIES
    ImplementsBook
    EveryCallAnswered
