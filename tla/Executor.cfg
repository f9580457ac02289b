SPECIFICATION FrontSpec
CONSTANTS
    t1 = t1
    t2 = t2
    t3 = t3
    t4 = t4
    ta = ta
    tb = tb
    NoMaster = NoMaster
    Tasks <- MCTasks
    Tenants <- MCTenants
    TenantOf <- MCTenantOf
    u1 = u1
    u2 = u2
    u3 = u3
    s1 = s1
    s2 = s2
    Users <- MCUsers
    UserTenant <- MCUserTenant
    Sessions <- MCSessions
    SessionTenant <- MCSessionTenant
    SubAgents = {"a1", "a2"}
    Master = "master"
    Stored <- MCStored
    NoOne = NoOne
    MaxSteps = 1
    Budgets <- MCBudgets
INVARIANTS
    TurnsSerialised
    MastersIsolated
    MastersClosed
    GuiSound

PROPERTIES
    CallReturns
    TurnsEnd
CHECK_DEADLOCK FALSE
