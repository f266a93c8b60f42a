SPECIFICATION MCSpec
CONSTANTS
    Nobody = nobody
    Places = {1, 2}
    Creatures = {c1, c2}
    MaxChanges = 4
    MaxGenerations = 4
    Targets = {c1}
    MaxThinks = 2
    MaxWorldChanges = 3
    MaxSearches = 6
    MaxEpochs = 5
    Game = game
    Workers = {w1, w2}
    Plans <- SavePlans
    Players = {p1, p2}
    MaxSessions = 3
    MaxProgress = 2
INVARIANTS RequestsAnswered WalksItsOwnPath LoginLoadsAll
PROPERTIES SavesLand WaitsEnd
CHECK_DEADLOCK FALSE
