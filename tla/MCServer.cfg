SPECIFICATION MCSpec
CONSTANTS
    Nobody = nobody
    Threads = {t1, t2}
    Modes = {"rollback", "commit", "single"}
    Statements = 2
    MaxTransactions = 2
    MaxErrors = 1
    MaxLosses = 1
    MaxPackets = 3
    MaxMessages = 3
    Items = {i1, i2}
    Durations = {1, 2}
    MinTicks = 1
    MaxTime = 3
    MaxScripts = 1
    MaxTimers = 2
    LaneCount = 3
    MaxTaskCost = 3
    Quantum <- Quanta
    Costs = {1, 2}
    Protocols = {c1, c2, c3}
    Characters = {a1, a2, b1, b2, b3}
    Premium = {a1, a2}
    Patient = {a1, b1}
    MaxPlayers = 2
INVARIANTS LockBalanced AllOrNothing Written OneReader DecayKept NoStarvation LoginsKept
PROPERTIES SelectsWhenReady LineKept AllEnds
CHECK_DEADLOCK FALSE
