SPECIFICATION Spec
CONSTANTS
    Threads = {t1, t2}
    RecordCount = 2
    QueueBulk = 2
INVARIANTS TypeOK CountedIsWritten WrittenOnce NothingDangling
PROPERTIES StopEnds
CHECK_DEADLOCK FALSE
