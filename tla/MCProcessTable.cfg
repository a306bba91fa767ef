CONSTANTS
    PROC_MAX = 3
    Pids <- MCPids
    Comms = {c1}
SPECIFICATION Spec
INVARIANTS ProbeChainIntact NoDuplicatePid SlotsAgree
PROPERTIES ProtectionLostOnlyByOwnEvent ImplementsMap
