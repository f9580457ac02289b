SPECIFICATION Spec
CONSTANTS
    a1 = a1
    a2 = a2
    a3 = a3
    default = default
    acme = acme
    Agents = {a1, a2, a3}
    MaxWorkflows = 1
    Tenants = {default, acme}
    Default = default
    TenantOf <- MCTenantOf
    Msgs = {m1, m2}
    AckMsgs = {m1}
    Observers = {a2}
    Senders = {a1, a3}
    None = None
INVARIANTS
    BrokerSound
CHECK_DEADLOCK FALSE
