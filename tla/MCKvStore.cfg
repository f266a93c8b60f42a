SPECIFICATION Spec
CONSTANTS
    Game = game
    Pool = pool
    Threads = {game, pool}
    Plans <- Uses
    Keys = {k1, k2, k3}
INVARIANTS NothingLost EvictionsTaken
PROPERTIES KeepsPromise
