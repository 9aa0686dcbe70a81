SPECIFICATION FairSpec
CONSTANTS
    g1 = g1
    g2 = g2
    a1 = a1
    a2 = a2
    o1 = o1
    k1 = k1
    Game = {g1, g2}
    AgentConn = {a1, a2}
    OwnConn = {o1}
    Call = {k1}
    GameOf <- Games
    MaxConnections = 2
    GlobalLimit = 3
    MaxAttempts = 2
    MaxRetry = 2
    MaxHealth = 2
    NoConn = NoConn
    Cleaner = Cleaner
    Ender = Ender
CHECK_DEADLOCK FALSE
INVARIANTS TypeOK PoolSound
PROPERTIES NoResurrection PoolServes
