SPECIFICATION Spec
CONSTANTS
    p1 = p1
    p2 = p2
    p3 = p3
    a1 = a1
    a2 = a2
    Procs <- MCProcs
    Agents <- MCAgents
    AgentOf <- MCAgentOf
    Missing = Missing
    Garbled = Garbled
    MaxMints = 4
    MaxFailures = 3
INVARIANTS TypeOK RestartsSucceed OneIdentity MintedIdentityIsKept
CHECK_DEADLOCK FALSE
