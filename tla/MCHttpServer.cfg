CONSTANTS
    probe = probe
    visitor = visitor
    Conns = {probe, visitor}
    Sent <- MCSent
SPECIFICATION Spec
INVARIANTS
    AnswerIsRight
    ManagedIsServed
    AtMostOneOutlivesStop
PROPERTY EveryClientIsServed
CHECK_DEADLOCK FALSE
