SPECIFICATION RegistriesSpec
CONSTANTS
    c1 = c1
    c2 = c2
    c3 = c3
    a1 = a1
    Conn = {c1, c2, c3}
    Agent = {a1}
    AgentOf <- OneAgent
    NoConn = NoConn
    MaxPerAgent = 1
    MaxTracked = 2
    p1 = p1
    p2 = p2
    Port = {p1, p2}
    Game = {g1}
    None = None
    MaxRetries = 2
SYMMETRY RegistrySymmetry
INVARIANTS RegistrySound NoSlotLeak
PROPERTY SamePort
