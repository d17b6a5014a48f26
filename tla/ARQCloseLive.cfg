SPECIFICATION FairSpec
CONSTANTS
    MaxData = 1
    FaultSets = {{}}
PROPERTIES
    BothEndsClose
\* Both ends may have closed, or wait for a timer this run leaves out.
CHECK_DEADLOCK FALSE
