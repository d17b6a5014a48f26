\* The last chunk of a stream can be stranded.
SPECIFICATION FairSpec
CONSTANTS
    Half = 5
    Window = 2
    Limit = 2
    RxCap = 1
    NackGap = 1
    MaxSend = 1
PROPERTIES EventuallyDelivered
CHECK_DEADLOCK FALSE
