SPECIFICATION FairSpec
CONSTANTS
    Turn = {t1, t2, t3, t4}
    Limit = 1
    None = None
INVARIANTS
    QuotaIsSound
PROPERTIES
    CountsAreBacked
    CrashedSlotIsFreed
CHECK_DEADLOCK FALSE
