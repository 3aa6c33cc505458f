SPECIFICATION Spec
CONSTANTS
    Turn = {t1, t2, t3}
    Limit = 2
    None = None
INVARIANT NoOversell
CHECK_DEADLOCK FALSE
