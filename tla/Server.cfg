SPECIFICATION BusSpec
CONSTANTS
    a1 = a1
    a2 = a2
    c1 = c1
    c2 = c2
    c3 = c3
    default = default
    acme = acme
    Agents = {a1, a2}
    MaxWorkflows = 1
    Tenants = {default, acme}
    Default = default
    TenantOf <- MCTenantOf
    Msgs = {m1}
    AckMsgs = {m1}
    Observers = {}
    Senders = {a1, a2}
    Conns = {c1, c2, c3}
    AgentOf <- MCAgentOf
    Appends = {1}
    None = None
    Socks = {s1, s2, s3, s4}
    MaxAttempts = 2
    NoSocket = NoSocket
INVARIANTS
    ServerSound
    SocketsSound
PROPERTIES
    ServerProgress
    ReconnectSettles
CHECK_DEADLOCK FALSE
