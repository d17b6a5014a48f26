SPECIFICATION Spec
CONSTANTS
    MaxData = 1
    FaultSets = {{"read", "write", "grace"}, {"idle"}, {"expiry"}}
INVARIANTS
    TypeOK
    CleanCloseDeliversAll
    CloseReadIsLast
PROPERTY
    FinAfterLastChunk
\* Both ends may have closed, or wait for a timer this run leaves out.
CHECK_DEADLOCK FALSE
