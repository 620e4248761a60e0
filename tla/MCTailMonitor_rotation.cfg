SPECIFICATION Spec
CONSTANTS
    Names = {"log", "old"}
    Live = "log"
    FileCount = 2
    Monitors = {t1, t2}
    Modes <- DefaultModes
    ReadBuffer = 2
    EventBulk = 2
    UnitBound <- NoUnits
    TroubleBound = 2
INVARIANTS
    MonitorsSurvive
CHECK_DEADLOCK FALSE
