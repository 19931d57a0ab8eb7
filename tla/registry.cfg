SPECIFICATION Spec
CONSTANTS
    Servers = {"file"}
    Handlers = {"h1", "h2"}
    Callers = {"c1"}
    ToolSets <- MCToolSets
    MaxRequests = 2
    MaxFlips = 2
INVARIANTS RegistryInv CallsOffered
PROPERTY Heals
CHECK_DEADLOCK FALSE
