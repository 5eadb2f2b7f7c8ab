CONSTANTS
  Clients = {"igate"}
  DataClients = {"igate"}
  ShellClients = {}
  Requests = {"param"}
  MaxCalls = 1
  MaxEvents = 1
SPECIFICATION Spec
PROPERTIES RequestServed
CHECK_DEADLOCK FALSE
