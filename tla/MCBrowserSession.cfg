SPECIFICATION Spec
CONSTANTS
    Tabs = {t1, t2}
    Calls = {c1}
    MaxPairs = 3
    MaxFaults = 1
    MaxGestures = 1
INVARIANTS
    TypeOK
    ExecutedOnce
    TabIsWatched
    OneSuccessorEach
PROPERTIES
    SessionsSettle
CHECK_DEADLOCK FALSE
