CONSTANTS
    Ids <- TwoIds
    Datagrams <- TwoMessages
    Ttl = 1
    ChunkBulkLimit = 2
    MaxCopies <- OneTwice
SPECIFICATION FairSpec
INVARIANTS TypeOK ReassembledIntact NoChunkUsedTwice CompleteLeaves
PROPERTIES NothingLingers
CHECK_DEADLOCK FALSE
