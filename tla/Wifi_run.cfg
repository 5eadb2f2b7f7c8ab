CONSTANTS
  Clients = {"igate", "shell"}
  DataClients = {"igate"}
  ShellClients = {"shell"}
  Requests = {"param", "ap"}
  MaxCalls = 3
  MaxEvents = 1
SPECIFICATION Spec
INVARIANTS AnswerMatches ConnectedExact
PROPERTIES CallReturns
CHECK_DEADLOCK FALSE
