---------------------------- MODULE MCFrontEnds ----------------------------
(* The two ways to drive a MasterAgent, of which a deployment runs one: the *)
(* gateway's MasterTaskExecutor, with four tasks, three of them of the same *)
(* tenant, and the GUI's EngineBridge, with two users of one tenant and one *)
(* of another, and a session of each tenant.                                *)
EXTENDS MasterExecutor, EngineBridge

CONSTANTS t1, t2, t3, t4, ta, tb, u1, u2, u3, s1, s2

VARIABLE front

MCTasks    == {t1, t2, t3, t4}
MCTenants  == {ta, tb}
MCTenantOf == [t \in MCTasks |-> IF t = t4 THEN tb ELSE ta]

MCUsers         == {u1, u2, u3}
MCUserTenant    == [u \in MCUsers |-> IF u = u3 THEN tb ELSE ta]
MCSessions      == {s1, s2}
MCSessionTenant == [s \in MCSessions |-> IF s = s2 THEN tb ELSE ta]
MCStored        == {{s1}, MCSessions}
MCBudgets       == {[turns |-> 2, calls |-> 2, acts |-> 0], [turns |-> 1, calls |-> 3, acts |-> 0],
                    [turns |-> 2, calls |-> 1, acts |-> 1], [turns |-> 1, calls |-> 2, acts |-> 1]}

FrontInit == front \in {"gateway", "gui"} /\ ExecutorInit /\ GuiInit

FrontNext ==
    \/ front = "gateway" /\ ExecutorNext /\ UNCHANGED <<guiVars, front>>
    \/ front = "gui" /\ GuiNext /\ UNCHANGED <<executorVars, front>>

FrontSpec == FrontInit /\ [][FrontNext]_<<executorVars, guiVars, front>> /\ Fairness /\ GuiFairness
=============================================================================
