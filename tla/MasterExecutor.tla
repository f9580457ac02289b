--------------------------- MODULE MasterExecutor ---------------------------
(***************************************************************************)
(* MasterTaskExecutor (youmi/gateway/executor.py) in factory mode, the one *)
(* python -m youmi.gateway uses: one MasterAgent per tenant, created       *)
(* lazily by an asynchronous factory, one lock around every turn, a reset  *)
(* between turns, and aclose() once the workers have ended.  A call of     *)
(* execute() is named by its task; a MasterAgent by the task whose call    *)
(* built it.                                                               *)
(***************************************************************************)
EXTENDS Naturals, Sequences, FiniteSets

CONSTANTS Tasks, Tenants,
          TenantOf,   \* TaskRecord.tenant
          NoMaster

ASSUME ExecutorAssumption ==
    /\ TenantOf \in [Tasks -> Tenants]
    /\ NoMaster \notin Tasks

VARIABLES
    at,         \* where the call of execute() is
    using,      \* its local variable `master`
    perTenant,  \* _per_tenant
    lockq,      \* _lock: the holder first, then its waiters (FIFO)
    executed,   \* _executed_any
    built,      \* MasterAgents the factory returned
    destroyed,  \* MasterAgents whose destroy() was called
    conv,       \* MasterAgent._conversation: whose messages it holds
    agents,     \* MasterAgent._sub_agents: which task created them
    dirty,      \* history: MasterAgents whose last reset failed
    closing,    \* progress of aclose(): "no", "yes" or "done"
    toClose     \* the MasterAgents aclose() has still to destroy

turnVars   == <<at, using>>
masterVars == <<conv, agents, dirty>>
closeVars  == <<closing, toClose>>
executorVars == <<turnVars, perTenant, lockq, executed, built, destroyed, masterVars, closeVars>>

Active == {"building", "waiting", "resetting", "chatting"}
Inside == {"resetting", "chatting"}
-----------------------------------------------------------------------------
\* asyncio.Lock.acquire: the caller joins the FIFO queue of the lock.
Acquire(t, m) ==
    /\ using' = [using EXCEPT ![t] = m]
    /\ at' = [at EXCEPT ![t] = "waiting"]
    /\ lockq' = Append(lockq, t)

\* A holder that leaves `async with`, or a cancelled waiter, gives up its
\* place in the lock's queue.
LeaveLock(t) ==
    \/ /\ \A i \in 1..Len(lockq) : lockq[i] # t
       /\ UNCHANGED lockq
    \/ \E i \in 1..Len(lockq) :
          /\ lockq[i] = t
          /\ lockq' = [j \in 1..(Len(lockq) - 1) |-> IF j < i THEN lockq[j] ELSE lockq[j + 1]]

\* execute, up to the factory or to the lock: the tenant's MasterAgent is
\* reused if _per_tenant has one.
Call(t) ==
    /\ at[t] = "idle" /\ closing = "no"
    /\ IF perTenant[TenantOf[t]] = NoMaster
       THEN at' = [at EXCEPT ![t] = "building"] /\ UNCHANGED <<using, lockq>>
       ELSE Acquire(t, perTenant[TenantOf[t]])
    /\ UNCHANGED <<perTenant, executed, built, destroyed, masterVars, closeVars>>

\* The factory's coroutine returns: the result is cached, whatever another
\* call has cached meanwhile.
FactoryReturns(t) ==
    /\ at[t] = "building"
    /\ built' = built \cup {t}
    /\ perTenant' = [perTenant EXCEPT ![TenantOf[t]] = t]
    /\ Acquire(t, t)
    /\ UNCHANGED <<executed, destroyed, masterVars, closeVars>>

\* The factory raises: the task fails, nothing is cached.
FactoryRaises(t) ==
    /\ at[t] = "building"
    /\ at' = [at EXCEPT ![t] = "returned"]
    /\ UNCHANGED <<using, perTenant, lockq, executed, built, destroyed, masterVars, closeVars>>

\* chat_turn up to its first await: the message joins the conversation.
BeginTurn(t) ==
    /\ at' = [at EXCEPT ![t] = "chatting"]
    /\ executed' = TRUE
    /\ conv' = [conv EXCEPT ![using[t]] = @ \cup {t}]

\* The lock is granted: reset first unless no task ran in this executor yet.
EnterLock(t) ==
    /\ at[t] = "waiting" /\ Head(lockq) = t
    /\ \/ /\ executed
          /\ at' = [at EXCEPT ![t] = "resetting"]
          /\ UNCHANGED <<executed, conv>>
       \/ ~executed /\ BeginTurn(t)
    /\ UNCHANGED <<using, perTenant, lockq, built, destroyed, agents, dirty, closeVars>>

\* Mutant: reset_for_new_task leaves the sub-agent registry alone.
ResetReturns_KeepsAgents(t) ==
    /\ at[t] = "resetting"
    /\ BeginTurn(t)
    /\ dirty' = dirty \ {using[t]}
    /\ UNCHANGED <<agents, using, perTenant, lockq, built, destroyed, closeVars>>

\* reset_for_new_task: destroy and forget the sub-agents (the conversation
\* stays), then the turn begins.
ResetReturns(t) ==
    /\ at[t] = "resetting"
    /\ agents' = [agents EXCEPT ![using[t]] = {}]
    /\ dirty' = dirty \ {using[t]}
    /\ BeginTurn(t)
    /\ UNCHANGED <<using, perTenant, lockq, built, destroyed, closeVars>>

\* _safe_reset swallows a failing reset (a sub-process that does not
\* terminate) before the registry is cleared; the turn begins all the same.
ResetRaises(t) ==
    /\ at[t] = "resetting" /\ agents[using[t]] # {}
    /\ dirty' = dirty \cup {using[t]}
    /\ BeginTurn(t)
    /\ UNCHANGED <<using, perTenant, lockq, built, destroyed, agents, closeVars>>

\* During the turn the MasterAgent creates sub-agents.
CreateSubAgent(t) ==
    /\ at[t] = "chatting"
    /\ agents' = [agents EXCEPT ![using[t]] = @ \cup {t}]
    /\ UNCHANGED <<turnVars, perTenant, lockq, executed, built, destroyed, conv, dirty, closeVars>>

\* Mutant: an early return keeps the lock.
TurnEnds_KeepsLock(t) ==
    /\ at[t] = "chatting"
    /\ at' = [at EXCEPT ![t] = "returned"]
    /\ UNCHANGED <<using, perTenant, lockq, executed, built, destroyed, masterVars, closeVars>>

\* chat_turn returns or raises: both become an outcome, and `async with`
\* releases the lock.
TurnEnds(t) ==
    /\ at[t] = "chatting"
    /\ at' = [at EXCEPT ![t] = "returned"]
    /\ LeaveLock(t)
    /\ UNCHANGED <<using, perTenant, executed, built, destroyed, masterVars, closeVars>>

\* Mutant: a cancelled waiter releases the lock it does not hold.
CallCancelled_ReleasesHead(t) ==
    /\ at[t] \in Active
    /\ at' = [at EXCEPT ![t] = "returned"]
    /\ lockq' = IF lockq = <<>> THEN lockq ELSE Tail(SelectSeq(lockq, LAMBDA u : u # t) \o <<t>>)
    /\ UNCHANGED <<using, perTenant, executed, built, destroyed, masterVars, closeVars>>

\* The worker is cancelled: CancelledError is not an Exception, so it leaves
\* execute() from any await, and the lock's holder or waiter gives up its
\* place.
CallCancelled(t) ==
    /\ at[t] \in Active
    /\ at' = [at EXCEPT ![t] = "returned"]
    /\ LeaveLock(t)
    /\ UNCHANGED <<using, perTenant, executed, built, destroyed, masterVars, closeVars>>

\* Mutant: aclose does not wait for the workers.
AClose_Early ==
    /\ closing = "no"
    /\ closing' = "yes"
    /\ toClose' = {perTenant[n] : n \in Tenants} \ {NoMaster}
    /\ UNCHANGED <<turnVars, perTenant, lockq, executed, built, destroyed, masterVars>>

\* GatewayService.stop calls aclose() after every worker has ended: it
\* collects the cached MasterAgents ...
AClose ==
    /\ closing = "no" /\ \A t \in Tasks : at[t] \notin Active
    /\ closing' = "yes"
    /\ toClose' = {perTenant[n] : n \in Tenants} \ {NoMaster}
    /\ UNCHANGED <<turnVars, perTenant, lockq, executed, built, destroyed, masterVars>>

\* ... and calls destroy() of one after the other (on_destroy destroys the
\* sub-agents too); a destroy() that raises is logged and passed over.
DestroyMaster(m) ==
    /\ closing = "yes" /\ m \in toClose
    /\ toClose' = toClose \ {m}
    /\ destroyed' = destroyed \cup {m}
    /\ \/ agents' = [agents EXCEPT ![m] = {}]
       \/ UNCHANGED agents
    /\ UNCHANGED <<turnVars, perTenant, lockq, executed, built, conv, dirty, closing>>

CloseDone ==
    /\ closing = "yes" /\ toClose = {}
    /\ closing' = "done"
    /\ UNCHANGED <<turnVars, perTenant, lockq, executed, built, destroyed, masterVars, toClose>>
-----------------------------------------------------------------------------
ExecutorInit ==
    /\ at = [t \in Tasks |-> "idle"] /\ using = [t \in Tasks |-> NoMaster]
    /\ perTenant = [n \in Tenants |-> NoMaster]
    /\ lockq = <<>> /\ executed = FALSE
    /\ built = {} /\ destroyed = {}
    /\ conv = [t \in Tasks |-> {}] /\ agents = [t \in Tasks |-> {}] /\ dirty = {}
    /\ closing = "no" /\ toClose = {}

ExecutorNext ==
    \/ \E t \in Tasks :
          \/ Call(t) \/ FactoryReturns(t) \/ FactoryRaises(t)
          \/ EnterLock(t) \/ ResetReturns(t) \/ ResetRaises(t)
          \/ CreateSubAgent(t) \/ TurnEnds(t) \/ CallCancelled(t)
    \/ \E m \in Tasks : DestroyMaster(m)
    \/ AClose \/ CloseDone

\* The loop resumes every ready call; the factory, the reset and the turn
\* (bounded by max_iterations and the client's timeouts) return or raise.
Fairness ==
    \A t \in Tasks :
        /\ WF_executorVars(FactoryReturns(t) \/ FactoryRaises(t))
        /\ WF_executorVars(EnterLock(t))
        /\ WF_executorVars(ResetReturns(t) \/ ResetRaises(t))
        /\ WF_executorVars(TurnEnds(t))

ExecutorSpec == ExecutorInit /\ [][ExecutorNext]_executorVars

FairExecutorSpec == ExecutorSpec /\ Fairness
-----------------------------------------------------------------------------
(* Properties *)

\* Every variable stays in its range.
TypeOK ==
    /\ at \in [Tasks -> {"idle", "returned"} \cup Active]
    /\ using \in [Tasks -> Tasks \cup {NoMaster}]
    /\ perTenant \in [Tenants -> Tasks \cup {NoMaster}]
    /\ lockq \in Seq(Tasks) /\ executed \in BOOLEAN
    /\ built \subseteq Tasks /\ destroyed \subseteq Tasks /\ dirty \subseteq Tasks
    /\ conv \in [Tasks -> SUBSET Tasks] /\ agents \in [Tasks -> SUBSET Tasks]
    /\ closing \in {"no", "yes", "done"} /\ toClose \subseteq Tasks

\* "One turn at a time": only the lock's holder resets or uses a MasterAgent,
\* also when waiters and holders are cancelled.
OneTurnAtATime ==
    \A t \in Tasks : at[t] \in Inside => lockq # <<>> /\ Head(lockq) = t

\* Tenant isolation: a MasterAgent only ever holds the messages and the
\* sub-agents of tasks of the tenant it was built for, also when two calls
\* raced to build it.
TenantIsolation ==
    \A m \in Tasks, t \in Tasks :
        t \in conv[m] \cup agents[m] => m \in built /\ TenantOf[t] = TenantOf[m]

\* A turn never meets the sub-agents of an earlier task, unless the reset
\* before it failed.
FreshSubAgents ==
    \A t \in Tasks : at[t] = "chatting" /\ using[t] \notin dirty
                        => agents[using[t]] \subseteq {t}

\* No call uses a MasterAgent that aclose() has destroyed.
NoUseAfterDestroy == \A t \in Tasks : at[t] \in Active => using[t] \notin destroyed

\* aclose() closes the MasterAgent of every tenant; of two that raced in the
\* factory, the one that is in the cache.
TenantsClosed ==
    closing = "done" => \A m \in built : \E n \in destroyed : TenantOf[n] = TenantOf[m]

\* No call of execute() stays inside for ever, whatever its predecessors in the
\* lock's queue did.
CallReturns == \A t \in Tasks : []<>(at[t] \notin Active)

\* MasterAgents are used by one turn at a time.
TurnsSerialised == TypeOK /\ OneTurnAtATime

\* What a MasterAgent carries from task to task stays in its tenant and
\* includes no sub-agents.
MastersIsolated == TenantIsolation /\ FreshSubAgents

\* aclose() closes every tenant's MasterAgent, and none that is in use.
MastersClosed == NoUseAfterDestroy /\ TenantsClosed
=============================================================================
