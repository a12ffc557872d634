SPECIFICATION Spec
CONSTANTS
    MaxJobs = 1
    Chunks = 1
    MaxFaults = 2
INVARIANTS
    TypeOK
    ReportsAreTrue
PROPERTIES
    ImportsEnd
CHECK_DEADLOCK FALSE
