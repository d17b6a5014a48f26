\* Sequence numbers wrap: six numbers, the smallest windows, seven chunks.
SPECIFICATION Spec
CONSTANTS
    Half = 3
    Window = 1
    Limit = 1
    RxCap = 1
    NackGap = 1
    MaxSend = 7
INVARIANTS TypeOK ReleasedOnlyIfHeld
PROPERTIES ImplementsStream
CHECK_DEADLOCK FALSE
