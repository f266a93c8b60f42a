SPECIFICATION FairSpec
CONSTANTS
    Workers = {w1}
    Modes = {TRUE, FALSE}
    Submitters = {dispatcher}
    Dispatcher = dispatcher
    Owners = {main, signal}
    Capacity = 2
    ReserveShare = 2
    StreakLimit = 1
    Tokens = {1, 2}
    MaxStarts = 1
PROPERTIES RequestLeaves ShutdownReturns
CHECK_DEADLOCK FALSE
