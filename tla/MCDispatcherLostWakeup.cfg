SPECIFICATION FairSpec
CONSTANTS
    d = d  p = p  c = c
    a1 = a1 a2 = a2 a3 = a3 b1 = b1 b2 = b2 b3 = b3 b4 = b4
    m1 = m1 t1 = t1 t2 = t2 t3 = t3 w1 = w1
    NoEvent = NoEvent
    Threads = {d, p}
    DispatcherThread = d
    Schedulers = {}
    Compute = {}
    Events <- Tasks
    Workloads <- Lone
    Kind <- TaskKind
    LaneOf <- TaskLane
    TokenOf <- TaskToken
    Lanes = {"PlayerAction", "WorldCommit", "Deferred", "MonsterAI"}
    BarrierLanes = {"MonsterAI"}
    FairLanes = {"PlayerAction"}
    PlayerVisible = {"PlayerAction", "WorldCommit"}
    LaneCapacity = 2
    AsyncReserve = 0
    Budget = 1
    MaxCompletions = 0
PROPERTIES EveryTaskLeaves
CHECK_DEADLOCK FALSE
