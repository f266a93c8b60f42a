SPECIFICATION Spec
CONSTANTS
    Workers = {w1, w2}
    Modes = {TRUE, FALSE}
    Submitters = {dispatcher}
    Dispatcher = dispatcher
    Owners = {main, signal}
    Capacity = 3
    ReserveShare = 3
    StreakLimit = 1
    Tokens = {1, 2, 3, 4}
    MaxStarts = 2
INVARIANTS Accounting AdmissionBound StoppedIsQuiet
PROPERTIES KeepsPromise
CHECK_DEADLOCK FALSE
