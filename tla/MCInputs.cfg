CONSTANTS
    c1 = c1
    c2 = c2
    t1 = t1
    t2 = t2
    NUL = NUL
    Nobody = Nobody
    Conns = {c1, c2}
    Threads = {t1, t2}
    Streams <- MCStreams
    Sizes <- MCSizes
    buffer_size = 2
    SocketQueue = 2
    OldEntries = 1
    MaxEntries = 4
SPECIFICATION Spec
INVARIANTS
    OfferedInOrder
    ThreadsLostToResets
    NothingLeftUnread
PROPERTY EverythingOffered
CHECK_DEADLOCK FALSE
