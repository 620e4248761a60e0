CONSTANTS
    m1 = m1
    m2 = m2
    m3 = m3
    m4 = m4
    InputSeq <- TwoInputs
    OutputSeq <- GelfAndLog
    LogOutputs = {"log"}
    WithProcessor = {"gelf"}
    ThreadNum <- TwoReceivers
    Msgs <- FourMsgs
    SourceOf <- OneFromTail
    Malformed <- OneBad
    Filtered <- ScriptIgnores
    Unwritable <- UnwritableFirst
    MaxQueueSize = 1
    BulkMax = 2
    InputStrategy <- GelfDrops
    MayStop = FALSE
SPECIFICATION FairSpec
PROPERTIES EveryMessageArrives
