CONSTANTS
    m1 = m1
    m2 = m2
    m3 = m3
    m4 = m4
    InputSeq <- TwoInputs
    OutputSeq <- OneGelf
    LogOutputs = {}
    WithProcessor = {"gelf"}
    ThreadNum <- TwoImporters
    Msgs <- ThreeMsgs
    SourceOf <- TailAndGelf
    Malformed = {}
    Filtered = {}
    Unwritable <- WritableEverywhere
    MaxQueueSize = 1
    BulkMax = 1
    InputStrategy <- GelfDrops
    MayStop = TRUE
SPECIFICATION FairSpec
INVARIANTS OnePlace
PROPERTIES StopSettles WedgeIsFinal JoinedIsQuiet
CHECK_DEADLOCK FALSE
