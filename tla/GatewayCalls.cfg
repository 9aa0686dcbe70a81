SPECIFICATION GatewaySpec
CONSTANTS
    r1 = r1
    r2 = r2
    Req = {r1, r2}
    KindOf <- Kinds
    c1 = c1
    c2 = c2
    a1 = a1
    Conn = {c1, c2}
    Agent = {a1}
    AgentOf <- OneAgent
    NoConn = NoConn
    MaxPerAgent = 2
    MaxTracked = 2
CHECK_DEADLOCK FALSE
INVARIANTS TypeOK FuturesSound
PROPERTIES FutureOnce CallsEnd EndedRemoved
