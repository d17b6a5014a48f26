\* Two chunks, overlapping windows; order, and progress under fairness.
SPECIFICATION FairSpec
CONSTANTS
    Half = 5
    Window = 2
    Limit = 2
    RxCap = 1
    NackGap = 1
    MaxSend = 2
INVARIANTS InOrderExactlyOnce QueuedOnce
PROPERTIES DeliveredOrStranded
CHECK_DEADLOCK FALSE
