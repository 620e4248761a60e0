SPECIFICATION Spec
CONSTANTS
    Names = {"log", "old"}
    Live = "log"
    FileCount = 2
    Monitors = {t1, t2}
    Modes <- MCModes
    ReadBuffer = 2
    EventBulk = 2
    UnitBound <- MCUnitBound
    TroubleBound = 1
INVARIANTS
    TypeOK
    AtMostOnce
    NothingSkipped
    MessagesAreWhole
PROPERTIES
    EveryUnitRead
CHECK_DEADLOCK FALSE
