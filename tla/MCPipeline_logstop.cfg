CONSTANTS
    m1 = m1
    m2 = m2
    m3 = m3
    m4 = m4
    InputSeq <- OneInput
    OutputSeq <- GelfAndLog
    LogOutputs = {"log"}
    WithProcessor = {}
    ThreadNum <- OneThreadEach
    Msgs <- ThreeMsgs
    SourceOf <- AllFromTail
    Malformed = {}
    Filtered = {}
    Unwritable <- WritableEverywhere
    MaxQueueSize = 1
    BulkMax = 1
    InputStrategy <- AllThrottle
    MayStop = TRUE
SPECIFICATION Spec
INVARIANTS StopNeverThrows
CHECK_DEADLOCK FALSE
