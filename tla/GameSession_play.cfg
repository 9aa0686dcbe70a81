CONSTANTS
  agentA = agentA
  agentB = agentB
  a1 = a1
  a2 = a2
  b1 = b1
  b2 = b2
  None = None
  Agent = {agentA, agentB}
  Handler = {a1, a2, b1}
  Owner <- OwnerOf
SPECIFICATION Spec
SYMMETRY Sockets
CHECK_DEADLOCK FALSE
INVARIANTS TypeOK AgentsFound
PROPERTIES LastBackResumes CloseIsClean
