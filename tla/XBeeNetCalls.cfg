SPECIFICATION Spec
CONSTANTS
  c1 = c1
  c2 = c2
  Clients = {c1}
  NoClient = NoClient
  Server = Server
  User = User
  Types <- NetTypes
  Addresses = {1, 2}
  Calls <- NetCalls
  MaxCalls = 3
  MaxLate = 1
  MaxPackets = 0
INVARIANTS
  ArrivesWhereMeant
CHECK_DEADLOCK FALSE
