\* Two streams of one session, three tasks, two workers, two ingress goroutines.
SPECIFICATION Spec
CONSTANTS
    Ingress = {i1, i2}
    NumWorkers = 2
    QueueLimit = 2
    SessionCap = 2
    Sessions = {s1}
    Streams = {a, b}
    Frags = {f1, f2}
    MaxTasks = 3
    Clearable <- AllLanes
SYMMETRY Symmetry
INVARIANTS TypeOK PendingIsExact CancelledLanesNotQueued MarkLeaksOnlyInRace
