---------------------------- MODULE MasterProofs ----------------------------
(***************************************************************************)
(* What TLAPS proves of the masters: of MasterExecutor, which gives every  *)
(* tenant its MasterAgent, and of MasterRun, a run of one master with its  *)
(* memory and its sub-agents.                                              *)
(*                                                                         *)
(* Executor, for any tasks and tenants.  The inductive invariant has one   *)
(* part per concern: Queue says that the lock's queue holds every call     *)
(* between acquire and release once, the holder first; Cache that a call   *)
(* only ever uses a MasterAgent built for its tenant; Closing that nothing *)
(* is destroyed while a call is active; NoAgentsYet that no sub-agent      *)
(* exists before the first turn.                                           *)
(*                                                                         *)
(* Run, for any agents, setups and sizes of the memory.  The inductive     *)
(* invariant IInv is that of the sub-agents (SubInv: what a call, a        *)
(* process, its queue and the master's queue say of each other) and that   *)
(* of the memory (MemoryInv: what the caller waits for and what it will    *)
(* do to the list, and what is on disk).                                   *)
(***************************************************************************)
EXTENDS MasterExecutor, MasterRun, SequenceTheorems, TLAPS

Queued == {"waiting", "resetting", "chatting"}

Types ==
    /\ at \in [Tasks -> {"idle", "returned"} \cup Active]
    /\ using \in [Tasks -> Tasks \cup {NoMaster}]
    /\ perTenant \in [Tenants -> Tasks \cup {NoMaster}]
    /\ lockq \in Seq(Tasks)
    /\ built \subseteq Tasks /\ destroyed \subseteq Tasks /\ dirty \subseteq Tasks
    /\ conv \in [Tasks -> SUBSET Tasks] /\ agents \in [Tasks -> SUBSET Tasks]
    /\ closing \in {"no", "yes", "done"} /\ toClose \subseteq Tasks

Queue ==
    /\ \A i \in 1..Len(lockq) : at[lockq[i]] \in Queued
    /\ \A i, j \in 1..Len(lockq) : lockq[i] = lockq[j] => i = j
    /\ \A t \in Tasks : at[t] \in Queued => \E i \in 1..Len(lockq) : lockq[i] = t
    /\ \A t \in Tasks : at[t] \in Inside => Len(lockq) > 0 /\ lockq[1] = t

Cache ==
    /\ \A n \in Tenants : perTenant[n] # NoMaster =>
          perTenant[n] \in built /\ TenantOf[perTenant[n]] = n
    /\ \A t \in Tasks : at[t] \in Queued =>
          using[t] \in built /\ TenantOf[using[t]] = TenantOf[t]

Closing ==
    /\ closing # "no" => \A t \in Tasks : at[t] \notin Active
    /\ closing = "no" => destroyed = {}

NoAgentsYet == ~executed => /\ \A m \in Tasks : agents[m] = {}
                            /\ \A t \in Tasks : at[t] \notin Inside
-----------------------------------------------------------------------------
(* The lock *)

\* Leaving the queue keeps the others in it, in their order.
LEMMA LeaveFacts ==
    ASSUME Types, Queue, NEW t \in Tasks, LeaveLock(t)
    PROVE  /\ lockq' \in Seq(Tasks)
           /\ \A i \in 1..Len(lockq') : \E k \in 1..Len(lockq) :
                 lockq'[i] = lockq[k] /\ lockq[k] # t /\ (k = i \/ k = i + 1)
           /\ \A i, j \in 1..Len(lockq') : lockq'[i] = lockq'[j] => i = j
           /\ \A u \in Tasks \ {t} : (\E k \in 1..Len(lockq) : lockq[k] = u)
                 => \E i \in 1..Len(lockq') : lockq'[i] = u
           /\ \A u \in Tasks \ {t} : Len(lockq) > 0 /\ lockq[1] = u
                 => Len(lockq') > 0 /\ lockq'[1] = u
<1>1. CASE /\ \A i \in 1..Len(lockq) : lockq[i] # t
           /\ lockq' = lockq
  BY <1>1 DEF Types, Queue
<1>2. ASSUME NEW n \in 1..Len(lockq), lockq[n] = t,
             lockq' = [j \in 1..(Len(lockq) - 1) |-> IF j < n THEN lockq[j] ELSE lockq[j + 1]]
      PROVE  /\ lockq' \in Seq(Tasks)
             /\ \A i \in 1..Len(lockq') : \E k \in 1..Len(lockq) :
                   lockq'[i] = lockq[k] /\ lockq[k] # t /\ (k = i \/ k = i + 1)
             /\ \A i, j \in 1..Len(lockq') : lockq'[i] = lockq'[j] => i = j
             /\ \A u \in Tasks \ {t} : (\E k \in 1..Len(lockq) : lockq[k] = u)
                   => \E i \in 1..Len(lockq') : lockq'[i] = u
             /\ \A u \in Tasks \ {t} : Len(lockq) > 0 /\ lockq[1] = u
                   => Len(lockq') > 0 /\ lockq'[1] = u
  <2>0. /\ Len(lockq) \in Nat /\ \A i \in 1..Len(lockq) : lockq[i] \in Tasks
        /\ \A i, j \in 1..Len(lockq) : lockq[i] = lockq[j] => i = j
    BY DEF Types, Queue
  <2>1. lockq' \in Seq(Tasks) /\ Len(lockq') = Len(lockq) - 1
    BY <1>2, <2>0
  <2>2. \A i \in 1..Len(lockq') :
           lockq'[i] = lockq[IF i < n THEN i ELSE i + 1]
    BY <1>2, <2>0, <2>1
  <2>3. ASSUME NEW i \in 1..Len(lockq')
        PROVE  \E k \in 1..Len(lockq) :
                   lockq'[i] = lockq[k] /\ lockq[k] # t /\ (k = i \/ k = i + 1)
    <3>1. (IF i < n THEN i ELSE i + 1) \in 1..Len(lockq) \ {n}
      BY <2>0, <2>1
    <3> QED BY <1>2, <2>0, <2>2, <3>1
  <2>4. ASSUME NEW i \in 1..Len(lockq'), NEW j \in 1..Len(lockq'), lockq'[i] = lockq'[j]
        PROVE  i = j
    <3>1. /\ (IF i < n THEN i ELSE i + 1) \in 1..Len(lockq)
          /\ (IF j < n THEN j ELSE j + 1) \in 1..Len(lockq)
      BY <2>0, <2>1
    <3>2. (IF i < n THEN i ELSE i + 1) = (IF j < n THEN j ELSE j + 1)
      BY <2>0, <2>2, <2>4, <3>1
    <3> QED BY <2>0, <2>1, <3>2
  <2>5. ASSUME NEW u \in Tasks \ {t}, NEW k \in 1..Len(lockq), lockq[k] = u
        PROVE  \E i \in 1..Len(lockq') : lockq'[i] = u
    <3>1. CASE k < n
      <4>1. k \in 1..Len(lockq') /\ lockq'[k] = u
        BY <2>0, <2>1, <2>2, <2>5, <3>1
      <4> QED BY <4>1
    <3>2. CASE k > n
      <4>1. k - 1 \in 1..Len(lockq') /\ lockq'[k - 1] = u
        BY <2>0, <2>1, <2>2, <2>5, <3>2
      <4> QED BY <4>1
    <3>3. k # n
      BY <1>2, <2>5
    <3> QED BY <3>1, <3>2, <3>3, <2>0
  <2>6. ASSUME NEW u \in Tasks \ {t}, Len(lockq) > 0, lockq[1] = u
        PROVE  Len(lockq') > 0 /\ lockq'[1] = u
    <3>1. n # 1
      BY <1>2, <2>6
    <3> QED BY <2>0, <2>1, <2>2, <2>6, <3>1
  <2> QED BY <2>1, <2>3, <2>4, <2>5, <2>6
<1> QED BY <1>1, <1>2 DEF LeaveLock

\* A call that joins the queue comes last.
LEMMA AcquireKeeps ==
    ASSUME Types, Queue, NEW t \in Tasks, NEW m, at[t] \notin Queued, Acquire(t, m)
    PROVE  lockq' \in Seq(Tasks) /\ Queue'
<1>1. /\ lockq' = Append(lockq, t) /\ at' = [at EXCEPT ![t] = "waiting"]
      /\ \A i \in 1..Len(lockq) : lockq[i] # t
  BY DEF Acquire, Queue
<1>2. /\ lockq' \in Seq(Tasks) /\ Len(lockq') = Len(lockq) + 1
      /\ lockq'[Len(lockq) + 1] = t
      /\ \A i \in 1..Len(lockq) : lockq'[i] = lockq[i] /\ lockq[i] \in Tasks
  BY <1>1 DEF Types
<1>3. \A u \in Tasks : at'[u] = IF u = t THEN "waiting" ELSE at[u]
  BY <1>1 DEF Types
<1>4. Len(lockq) \in Nat
  BY DEF Types
<1>5. \A i \in 1..Len(lockq') : at'[lockq'[i]] \in Queued
  BY <1>1, <1>2, <1>3, <1>4 DEF Queue, Queued
<1>6. \A i, j \in 1..Len(lockq') : lockq'[i] = lockq'[j] => i = j
  BY <1>1, <1>2, <1>4 DEF Queue
<1>7. ASSUME NEW u \in Tasks, at'[u] \in Queued PROVE \E i \in 1..Len(lockq') : lockq'[i] = u
  <2>1. CASE u = t
    BY <1>2, <1>4, <2>1
  <2>2. CASE u # t
    <3>1. PICK i \in 1..Len(lockq) : lockq[i] = u
      BY <1>3, <1>7, <2>2 DEF Queue
    <3> QED BY <1>2, <1>4, <3>1
  <2> QED BY <2>1, <2>2
<1>8. \A u \in Tasks : at'[u] \in Inside => Len(lockq') > 0 /\ lockq'[1] = u
  BY <1>2, <1>3, <1>4 DEF Queue, Inside
<1> QED BY <1>2, <1>5, <1>6, <1>7, <1>8 DEF Queue

\* A call that leaves the queue leaves it as it was for the others.
LEMMA LeaveKeeps ==
    ASSUME Types, Queue, NEW t \in Tasks, LeaveLock(t),
           at' = [at EXCEPT ![t] = "returned"]
    PROVE  Queue'
<1>1. \A u \in Tasks : at'[u] = IF u = t THEN "returned" ELSE at[u]
  BY DEF Types
<1>2. \A i \in 1..Len(lockq) : lockq[i] \in Tasks
  BY DEF Types
<1>3. \A i \in 1..Len(lockq') : at'[lockq'[i]] \in Queued
  BY <1>1, <1>2, LeaveFacts DEF Queue
<1>4. \A i, j \in 1..Len(lockq') : lockq'[i] = lockq'[j] => i = j
  BY LeaveFacts
<1>5. \A u \in Tasks : at'[u] \in Queued => \E i \in 1..Len(lockq') : lockq'[i] = u
  BY <1>1, LeaveFacts DEF Queue, Queued
<1>6. \A u \in Tasks : at'[u] \in Inside => Len(lockq') > 0 /\ lockq'[1] = u
  BY <1>1, LeaveFacts DEF Queue, Inside
<1> QED BY <1>3, <1>4, <1>5, <1>6 DEF Queue

\* The head of the queue moves on inside the lock.
LEMMA InsideKeeps ==
    ASSUME Types, Queue, NEW t \in Tasks, NEW p \in Inside, at[t] \in Queued,
           lockq[1] = t, at' = [at EXCEPT ![t] = p], lockq' = lockq
    PROVE  Queue'
<1>1. \A u \in Tasks : at'[u] = IF u = t THEN p ELSE at[u]
  BY DEF Types
<1>2. Len(lockq) > 0 /\ \A i \in 1..Len(lockq) : lockq[i] \in Tasks
  BY DEF Types, Queue
<1>3. p \in Queued
  BY DEF Inside, Queued
<1> QED BY <1>1, <1>2, <1>3 DEF Queue

\* A call outside the queue stays outside.
LEMMA OutsideKeeps ==
    ASSUME Types, Queue, NEW t \in Tasks, NEW p, p \notin Queued, at[t] \notin Queued,
           at' = [at EXCEPT ![t] = p], lockq' = lockq
    PROVE  Queue'
<1>1. \A u \in Tasks : at'[u] = IF u = t THEN p ELSE at[u]
  BY DEF Types
<1>2. p \notin Inside /\ \A i \in 1..Len(lockq) : lockq[i] \in Tasks
  BY DEF Types, Inside, Queued
<1> QED BY <1>1, <1>2 DEF Queue
-----------------------------------------------------------------------------
(* The inductive invariant *)

ExecInv == Types /\ Queue /\ Cache /\ Closing /\ NoAgentsYet /\ TenantIsolation /\ FreshSubAgents

\* The invariant holds before the first call.
LEMMA ExecInit == ExecutorInit => ExecInv
<1> SUFFICES ASSUME ExecutorInit PROVE ExecInv
  OBVIOUS
<1> USE ExecutorAssumption DEF ExecutorInit
<1>1. Types
  BY DEF Types
<1>2. Queue
  BY DEF Queue, Queued, Inside
<1>3. Cache /\ Closing /\ NoAgentsYet /\ TenantIsolation /\ FreshSubAgents
  BY DEF Cache, Closing, NoAgentsYet, TenantIsolation, FreshSubAgents, Queued, Inside, Active
<1> QED BY <1>1, <1>2, <1>3 DEF ExecInv

\* While one call is inside the lock no other is.
LEMMA Alone ==
    ASSUME ExecInv, NEW t \in Tasks, at[t] \in Queued, lockq[1] = t,
           NEW u \in Tasks, u # t
    PROVE  at[u] \notin Inside
BY DEF ExecInv, Queue

\* A call inside the lock is the head of the queue.
LEMMA InsideIsHead ==
    ASSUME ExecInv, NEW t \in Tasks, at[t] \in Inside
    PROVE  at[t] \in Queued /\ lockq[1] = t
BY DEF ExecInv, Queue, Queued, Inside

\* The turn begins: the invariant needs only that the sub-agents the turn
\* meets are none, or left behind by a failed reset.
LEMMA TurnBegins ==
    ASSUME ExecInv, NEW t \in Tasks, at[t] \in Queued, lockq[1] = t, BeginTurn(t),
           UNCHANGED <<using, perTenant, lockq, built, destroyed, closeVars>>,
           agents' = agents \/ agents' = [agents EXCEPT ![using[t]] = {}],
           dirty' \subseteq Tasks,
           agents'[using[t]] = {} \/ using[t] \in dirty'
    PROVE  ExecInv'
<1> USE DEF ExecInv
<1>1. using[t] \in Tasks /\ using[t] \in built /\ TenantOf[using[t]] = TenantOf[t]
  BY DEF Cache, Types
<1>2. /\ at' = [at EXCEPT ![t] = "chatting"] /\ executed' = TRUE
      /\ conv' = [conv EXCEPT ![using[t]] = @ \cup {t}]
      /\ closing' = closing /\ toClose' = toClose
      /\ using' = using /\ perTenant' = perTenant /\ lockq' = lockq
      /\ built' = built /\ destroyed' = destroyed
  BY DEF BeginTurn, closeVars
<1>3. \A u \in Tasks : at'[u] = IF u = t THEN "chatting" ELSE at[u]
  BY <1>2 DEF Types
<1>4. Types'
  BY <1>1, <1>2 DEF Types, Active
<1>5. Queue'
  BY <1>2, InsideKeeps DEF Inside
<1>6. Cache'
  BY <1>2, <1>3 DEF Cache, Queued
<1>7. Closing'
  BY <1>2, <1>3 DEF Closing, Active, Queued
<1>8. NoAgentsYet'
  BY <1>2 DEF NoAgentsYet
<1>9. TenantIsolation'
  <2>1. \A m \in Tasks : /\ conv'[m] \subseteq conv[m] \cup {t}
                         /\ m # using[t] => conv'[m] = conv[m]
                         /\ agents'[m] \subseteq agents[m]
    BY <1>1, <1>2 DEF Types
  <2> QED BY <1>1, <1>2, <2>1 DEF TenantIsolation
<1>10. FreshSubAgents'
  <2>1. \A u \in Tasks : at'[u] = "chatting" => u = t
    BY <1>3, Alone DEF Inside
  <2> QED BY <1>2, <2>1 DEF FreshSubAgents
<1> QED BY <1>4, <1>5, <1>6, <1>7, <1>8, <1>9, <1>10

\* A call ends, by itself or cancelled: nothing of the MasterAgents changes.
LEMMA CallEnds ==
    ASSUME ExecInv, NEW t \in Tasks,
           at' = [at EXCEPT ![t] = "returned"],
           UNCHANGED <<using, perTenant, executed, built, destroyed, masterVars, closeVars>>,
           LeaveLock(t)
    PROVE  ExecInv'
<1> USE DEF ExecInv
<1>1. \A u \in Tasks : at'[u] = IF u = t THEN "returned" ELSE at[u]
  BY DEF Types
<1>2. lockq' \in Seq(Tasks)
  BY LeaveFacts
<1>3. Types'
  BY <1>2 DEF Types, masterVars, closeVars
<1>4. Queue'
  BY LeaveKeeps
<1>5. Cache' /\ Closing'
  BY <1>1 DEF Cache, Closing, Queued, Active, closeVars
<1>6. NoAgentsYet' /\ TenantIsolation' /\ FreshSubAgents'
  BY <1>1 DEF NoAgentsYet, TenantIsolation, FreshSubAgents, masterVars, Inside
<1> QED BY <1>3, <1>4, <1>5, <1>6

\* Every step preserves it.
LEMMA ExecStep == ExecInv /\ [ExecutorNext]_executorVars => ExecInv'
<1> SUFFICES ASSUME ExecInv, [ExecutorNext]_executorVars PROVE ExecInv'
  OBVIOUS
<1> USE ExecutorAssumption DEF ExecInv
<1>1. ASSUME NEW t \in Tasks, Call(t) PROVE ExecInv'
  <2>1. CASE perTenant[TenantOf[t]] = NoMaster
    <3>1. /\ at[t] = "idle" /\ closing = "no" /\ at' = [at EXCEPT ![t] = "building"]
          /\ UNCHANGED <<using, lockq, perTenant, executed, built, destroyed, masterVars, closeVars>>
      BY <1>1, <2>1 DEF Call
    <3>2. \A u \in Tasks : at'[u] = IF u = t THEN "building" ELSE at[u]
      BY <3>1 DEF Types
    <3>3. Types'
      BY <3>1 DEF Types, masterVars, closeVars, Active
    <3>4. Queue'
      BY <3>1, OutsideKeeps DEF Queued
    <3>5. Cache' /\ Closing'
      BY <3>1, <3>2 DEF Cache, Closing, Queued, closeVars
    <3>6. NoAgentsYet' /\ TenantIsolation' /\ FreshSubAgents'
      BY <3>1, <3>2 DEF NoAgentsYet, TenantIsolation, FreshSubAgents, masterVars, Inside
    <3> QED BY <3>3, <3>4, <3>5, <3>6
  <2>2. CASE perTenant[TenantOf[t]] # NoMaster
    <3> DEFINE m == perTenant[TenantOf[t]]
    <3>1. /\ at[t] = "idle" /\ closing = "no" /\ Acquire(t, m)
          /\ UNCHANGED <<perTenant, executed, built, destroyed, masterVars, closeVars>>
      BY <1>1, <2>2 DEF Call
    <3>2. m \in built /\ m \in Tasks /\ TenantOf[m] = TenantOf[t]
      BY <2>2 DEF Cache, Types
    <3>3. /\ \A u \in Tasks : at'[u] = IF u = t THEN "waiting" ELSE at[u]
          /\ \A u \in Tasks : using'[u] = IF u = t THEN m ELSE using[u]
      BY <3>1 DEF Acquire, Types
    <3>4. lockq' \in Seq(Tasks) /\ Queue'
      BY <3>1, AcquireKeeps DEF Queued
    <3>5. Types'
      BY <3>1, <3>2, <3>4 DEF Types, Acquire, masterVars, closeVars, Active
    <3>6. Cache' /\ Closing'
      BY <3>1, <3>2, <3>3 DEF Cache, Closing, Queued, closeVars
    <3>7. NoAgentsYet' /\ TenantIsolation' /\ FreshSubAgents'
      BY <3>1, <3>3 DEF NoAgentsYet, TenantIsolation, FreshSubAgents, masterVars, Inside
    <3> QED BY <3>4, <3>5, <3>6, <3>7
  <2> QED BY <2>1, <2>2
<1>2. ASSUME NEW t \in Tasks, FactoryReturns(t) PROVE ExecInv'
  <2>1. /\ at[t] = "building" /\ built' = built \cup {t} /\ Acquire(t, t)
        /\ perTenant' = [perTenant EXCEPT ![TenantOf[t]] = t]
        /\ UNCHANGED <<executed, destroyed, masterVars, closeVars>>
    BY <1>2 DEF FactoryReturns
  <2>2. /\ \A u \in Tasks : at'[u] = IF u = t THEN "waiting" ELSE at[u]
        /\ \A u \in Tasks : using'[u] = IF u = t THEN t ELSE using[u]
        /\ \A n \in Tenants : perTenant'[n] = IF n = TenantOf[t] THEN t ELSE perTenant[n]
    BY <2>1 DEF Acquire, Types
  <2>3. lockq' \in Seq(Tasks) /\ Queue'
    BY <2>1, AcquireKeeps DEF Queued
  <2>4. Types'
    BY <2>1, <2>3 DEF Types, Acquire, masterVars, closeVars, Active
  <2>5. Cache'
    BY <2>1, <2>2 DEF Cache, Queued
  <2>6. Closing'
    BY <2>1, <2>2 DEF Closing, Active, closeVars
  <2>7. NoAgentsYet' /\ TenantIsolation' /\ FreshSubAgents'
    BY <2>1, <2>2 DEF NoAgentsYet, TenantIsolation, FreshSubAgents, masterVars, Inside
  <2> QED BY <2>3, <2>4, <2>5, <2>6, <2>7
<1>3. ASSUME NEW t \in Tasks, FactoryRaises(t) PROVE ExecInv'
  <2>1. \A i \in 1..Len(lockq) : lockq[i] # t
    BY <1>3 DEF FactoryRaises, Queue, Queued
  <2>2. LeaveLock(t)
    BY <1>3, <2>1 DEF FactoryRaises, LeaveLock
  <2> QED BY <1>3, <2>2, CallEnds DEF FactoryRaises
<1>4. ASSUME NEW t \in Tasks, EnterLock(t) PROVE ExecInv'
  <2>1. at[t] \in Queued /\ lockq[1] = t
    BY <1>4 DEF EnterLock, Queued, Queue, Types
  <2>2. using[t] \in Tasks
    BY <2>1 DEF Cache, Types
  <2>3. CASE ~executed
    <3>1. BeginTurn(t) /\ UNCHANGED <<using, perTenant, lockq, built, destroyed, agents, dirty, closeVars>>
      BY <1>4, <2>3 DEF EnterLock
    <3>2. agents'[using[t]] = {} /\ dirty' \subseteq Tasks
      BY <2>2, <2>3, <3>1 DEF NoAgentsYet, Types
    <3> QED BY <2>1, <3>1, <3>2, TurnBegins
  <2>4. CASE executed
    <3>1. /\ at[t] = "waiting" /\ at' = [at EXCEPT ![t] = "resetting"]
          /\ UNCHANGED <<executed, conv, using, perTenant, lockq, built, destroyed, agents, dirty, closeVars>>
      BY <1>4, <2>4 DEF EnterLock
    <3>2. \A u \in Tasks : at'[u] = IF u = t THEN "resetting" ELSE at[u]
      BY <3>1 DEF Types
    <3>3. Types'
      BY <3>1 DEF Types, closeVars, Active
    <3>4. Queue'
      BY <2>1, <3>1, InsideKeeps DEF Inside
    <3>5. Cache' /\ Closing'
      BY <3>1, <3>2 DEF Cache, Closing, Queued, Active, closeVars
    <3>6. NoAgentsYet' /\ TenantIsolation' /\ FreshSubAgents'
      BY <2>4, <3>1, <3>2 DEF NoAgentsYet, TenantIsolation, FreshSubAgents
    <3> QED BY <3>3, <3>4, <3>5, <3>6
  <2> QED BY <2>3, <2>4
<1>5. ASSUME NEW t \in Tasks, ResetReturns(t) PROVE ExecInv'
  <2>1. at[t] \in Queued /\ lockq[1] = t
    BY <1>5, InsideIsHead DEF ResetReturns, Inside
  <2>2. /\ agents' = [agents EXCEPT ![using[t]] = {}] /\ dirty' = dirty \ {using[t]} /\ BeginTurn(t)
        /\ UNCHANGED <<using, perTenant, lockq, built, destroyed, closeVars>>
    BY <1>5 DEF ResetReturns
  <2>3. agents'[using[t]] = {} /\ dirty' \subseteq Tasks
    BY <2>1, <2>2 DEF Cache, Types
  <2> QED BY <2>1, <2>2, <2>3, TurnBegins
<1>6. ASSUME NEW t \in Tasks, ResetRaises(t) PROVE ExecInv'
  <2>1. at[t] \in Queued /\ lockq[1] = t
    BY <1>6, InsideIsHead DEF ResetRaises, Inside
  <2>2. /\ agents' = agents /\ dirty' = dirty \cup {using[t]} /\ BeginTurn(t)
        /\ UNCHANGED <<using, perTenant, lockq, built, destroyed, closeVars>>
    BY <1>6 DEF ResetRaises
  <2>3. using[t] \in dirty' /\ dirty' \subseteq Tasks
    BY <2>1, <2>2 DEF Cache, Types
  <2> QED BY <2>1, <2>2, <2>3, TurnBegins
<1>7. ASSUME NEW t \in Tasks, CreateSubAgent(t) PROVE ExecInv'
  <2>1. /\ at[t] = "chatting" /\ agents' = [agents EXCEPT ![using[t]] = @ \cup {t}]
        /\ UNCHANGED <<at, using, perTenant, lockq, executed, built, destroyed, conv, dirty, closing, toClose>>
    BY <1>7 DEF CreateSubAgent, turnVars, closeVars
  <2>2. at[t] \in Queued /\ lockq[1] = t
    BY <2>1, InsideIsHead DEF Inside
  <2>3. using[t] \in Tasks /\ using[t] \in built /\ TenantOf[using[t]] = TenantOf[t]
    BY <2>2 DEF Cache, Types
  <2>4. \A m \in Tasks : agents'[m] = IF m = using[t] THEN agents[m] \cup {t} ELSE agents[m]
    BY <2>1, <2>3 DEF Types
  <2>5. Types'
    BY <2>1, <2>3 DEF Types
  <2>6. Queue' /\ Cache' /\ Closing'
    BY <2>1 DEF Queue, Cache, Closing
  <2>7. NoAgentsYet'
    BY <2>1 DEF NoAgentsYet, Inside
  <2>8. TenantIsolation'
    BY <2>1, <2>3, <2>4 DEF TenantIsolation
  <2>9. FreshSubAgents'
    <3>1. \A u \in Tasks : at'[u] = "chatting" => u = t
      BY <2>1, <2>2, Alone DEF Inside
    <3> QED BY <2>1, <2>3, <2>4, <3>1 DEF FreshSubAgents
  <2> QED BY <2>5, <2>6, <2>7, <2>8, <2>9
<1>8. ASSUME NEW t \in Tasks, TurnEnds(t) \/ CallCancelled(t) PROVE ExecInv'
  BY <1>8, CallEnds DEF TurnEnds, CallCancelled
<1>9. ASSUME NEW m \in Tasks, DestroyMaster(m) PROVE ExecInv'
  <2>1. /\ closing = "yes" /\ toClose' = toClose \ {m} /\ destroyed' = destroyed \cup {m}
        /\ UNCHANGED <<at, using, perTenant, lockq, executed, built, conv, dirty, closing>>
        /\ agents' = [agents EXCEPT ![m] = {}] \/ agents' = agents
    BY <1>9 DEF DestroyMaster, turnVars
  <2>2. \A t \in Tasks : at[t] \notin Active
    BY <2>1 DEF Closing
  <2>3. \A n \in Tasks : agents'[n] \subseteq agents[n]
    BY <2>1 DEF Types
  <2>4. Types'
    BY <2>1 DEF Types
  <2>5. Queue' /\ Cache' /\ Closing'
    BY <2>1 DEF Queue, Cache, Closing
  <2>6. NoAgentsYet' /\ TenantIsolation' /\ FreshSubAgents'
    BY <2>1, <2>2, <2>3 DEF NoAgentsYet, TenantIsolation, FreshSubAgents, Active
  <2> QED BY <2>4, <2>5, <2>6
<1>10. CASE AClose
  <2>1. /\ toClose' = {perTenant[n] : n \in Tenants} \ {NoMaster} /\ closing' = "yes"
        /\ \A t \in Tasks : at[t] \notin Active
        /\ UNCHANGED <<at, using, perTenant, lockq, executed, built, destroyed, conv, agents, dirty>>
    BY <1>10 DEF AClose, turnVars, masterVars
  <2>2. Types'
    BY <2>1 DEF Types
  <2>3. Queue' /\ Cache' /\ Closing'
    BY <2>1 DEF Queue, Cache, Closing
  <2>4. NoAgentsYet' /\ TenantIsolation' /\ FreshSubAgents'
    BY <2>1 DEF NoAgentsYet, TenantIsolation, FreshSubAgents
  <2> QED BY <2>2, <2>3, <2>4
<1>11. CASE CloseDone \/ UNCHANGED executorVars
  <2>1. /\ closing' = closing \/ (closing = "yes" /\ closing' = "done")
        /\ UNCHANGED <<at, using, perTenant, lockq, executed, built, destroyed, conv, agents, dirty, toClose>>
    BY <1>11 DEF CloseDone, executorVars, turnVars, masterVars, closeVars
  <2>2. Types'
    BY <2>1 DEF Types
  <2>3. Queue' /\ Cache' /\ Closing'
    BY <2>1 DEF Queue, Cache, Closing
  <2>4. NoAgentsYet' /\ TenantIsolation' /\ FreshSubAgents'
    BY <2>1 DEF NoAgentsYet, TenantIsolation, FreshSubAgents
  <2> QED BY <2>2, <2>3, <2>4
<1> QED
  BY <1>1, <1>2, <1>3, <1>4, <1>5, <1>6, <1>7, <1>8, <1>9, <1>10, <1>11 DEF ExecutorNext

\* It holds throughout.
LEMMA ExecHolds == ExecutorSpec => []ExecInv
BY ExecInit, ExecStep, PTL DEF ExecutorSpec
-----------------------------------------------------------------------------
\* Only the lock's holder resets or uses a MasterAgent, whichever calls are
\* cancelled while they hold the lock or wait for it.
THEOREM TurnsExclusive == ExecutorSpec => []OneTurnAtATime
<1>1. ExecInv => OneTurnAtATime
  BY DEF ExecInv, Types, Queue, OneTurnAtATime
<1> QED BY <1>1, ExecHolds, PTL

\* A MasterAgent only holds messages and sub-agents of its own tenant, also
\* when several first calls of a tenant race through the factory.
THEOREM TenantsIsolated == ExecutorSpec => []TenantIsolation
BY ExecHolds, PTL DEF ExecInv

\* A turn meets no sub-agents of an earlier task unless its reset failed.
THEOREM TurnsStartFresh == ExecutorSpec => []FreshSubAgents
BY ExecHolds, PTL DEF ExecInv

\* aclose() destroys no MasterAgent that a call still uses.
THEOREM DestroyedIsUnused == ExecutorSpec => []NoUseAfterDestroy
<1>1. ExecInv => NoUseAfterDestroy
  BY DEF ExecInv, Closing, NoUseAfterDestroy
<1> QED BY <1>1, ExecHolds, PTL

\* What a MasterAgent carries over stays in its tenant and includes no
\* sub-agents: the two isolation theorems together.
THEOREM IsolationHolds == ExecutorSpec => []MastersIsolated
BY TenantsIsolated, TurnsStartFresh, PTL DEF MastersIsolated

\* _executed is a flag: every action leaves it alone or assigns a Boolean.
LEMMA ExecutedIsFlag == ExecutorSpec => [](executed \in BOOLEAN)
<1>1. ExecutorInit => executed \in BOOLEAN
  BY Zenon DEF ExecutorInit
<1>2. executed \in BOOLEAN /\ [ExecutorNext]_executorVars => (executed \in BOOLEAN)'
  BY Zenon DEF ExecutorNext, executorVars, turnVars, masterVars, closeVars, Call, FactoryReturns, FactoryRaises,
     Acquire, BeginTurn, EnterLock, ResetReturns, ResetRaises, CreateSubAgent, TurnEnds,
     CallCancelled, AClose, DestroyMaster, CloseDone
<1> QED BY <1>1, <1>2, PTL DEF ExecutorSpec

\* Turns are serialised by the lock in well-typed states, for any calls.
THEOREM TurnsAreSerialised == ExecutorSpec => []TurnsSerialised
<1>1. Types /\ executed \in BOOLEAN => TypeOK
  BY DEF Types, TypeOK
<1>2. ExecInv => Types
  BY DEF ExecInv
<1> QED BY <1>1, <1>2, ExecHolds, ExecutedIsFlag, TurnsExclusive, PTL DEF TurnsSerialised
-----------------------------------------------------------------------------
\* A tenant with a MasterAgent has one in the cache, and aclose() destroys, or
\* has still to destroy, every cached one.
Closable ==
    /\ \A m \in built : perTenant[TenantOf[m]] # NoMaster
    /\ closing # "no" => \A n \in Tenants : perTenant[n] \in toClose \cup destroyed \cup {NoMaster}
    /\ closing = "done" => toClose = {}

\* Every step preserves it: the cache never changes once aclose() has begun.
LEMMA ClosableStep == ExecInv /\ Closable /\ [ExecutorNext]_executorVars => Closable'
<1> SUFFICES ASSUME ExecInv, Closable, [ExecutorNext]_executorVars PROVE Closable'
  OBVIOUS
<1>1. ASSUME NEW t \in Tasks, FactoryReturns(t) PROVE Closable'
  <2>1. closing = "no" /\ closing' = "no"
    BY <1>1 DEF FactoryReturns, ExecInv, Closing, Active, closeVars
  <2>2. TenantOf[t] \in Tenants /\ t # NoMaster
        /\ perTenant \in [Tenants -> Tasks \cup {NoMaster}] /\ built \subseteq Tasks
        /\ \A m \in Tasks : TenantOf[m] \in Tenants
    BY ExecutorAssumption DEF ExecInv, Types
  <2>3. perTenant' = [perTenant EXCEPT ![TenantOf[t]] = t] /\ built' = built \cup {t}
    BY <1>1 DEF FactoryReturns
  <2> QED BY <2>1, <2>2, <2>3 DEF Closable
<1>2. CASE AClose
  BY <1>2 DEF AClose, Closable
<1>3. ASSUME NEW m \in Tasks, DestroyMaster(m) PROVE Closable'
  BY <1>3 DEF DestroyMaster, Closable
<1>4. CASE CloseDone
  BY <1>4 DEF CloseDone, Closable
<1>5. CASE UNCHANGED <<perTenant, built, destroyed, closeVars>>
  BY <1>5 DEF Closable, closeVars
<1> QED BY <1>1, <1>2, <1>3, <1>4, <1>5
        DEF ExecutorNext, executorVars, Call, FactoryRaises, EnterLock, ResetReturns, ResetRaises,
            CreateSubAgent, TurnEnds, CallCancelled

\* aclose() closes the MasterAgent of every tenant that has one, and none that
\* a call still uses, also when calls raced in the factory or were cancelled.
THEOREM MastersAreClosed == ExecutorSpec => []MastersClosed
<1>1. ExecutorInit => Closable
  BY DEF ExecutorInit, Closable
<1>2. ExecutorSpec => []Closable
  BY <1>1, ClosableStep, ExecHolds, PTL DEF ExecutorSpec
<1>3. ExecInv /\ Closable => TenantsClosed
  <2> SUFFICES ASSUME ExecInv, Closable, closing = "done", NEW m \in built
               PROVE  \E n \in destroyed : TenantOf[n] = TenantOf[m]
    BY DEF TenantsClosed
  <2>1. TenantOf[m] \in Tenants
    BY ExecutorAssumption DEF ExecInv, Types
  <2>2. /\ perTenant[TenantOf[m]] \in destroyed
        /\ TenantOf[perTenant[TenantOf[m]]] = TenantOf[m]
    BY <2>1 DEF Closable, ExecInv, Cache
  <2> QED BY <2>2
<1> QED BY <1>2, <1>3, ExecHolds, DestroyedIsUnused, PTL DEF MastersClosed

-----------------------------------------------------------------------------
(* The invariant of a run *)

\* What is recorded of a call, and the places of a call that has a process.
Outcomes == [ok : BOOLEAN, from : Agents \cup {None},
             why : {"none", "error", "timeout", "feedback", "request", "run"}]
IsolatedCall == {"launching", "settling", "waiting", "killing"}

\* The types of the sub-agents' state.
SubTypes ==
    /\ isolated \subseteq Agents /\ team \subseteq Agents /\ enlisted \subseteq Agents
    /\ bus \in {"none", "deaf", "heard", "hosted"}
    /\ status \in [Agents -> {"created", "idle", "running", "completed", "failed"}]
    /\ result \in [Agents -> Outcomes] /\ got \in [Agents -> Outcomes]
    /\ job \in [kind : {"none", "one", "each", "all"}, todo : SUBSET Agents]
    /\ call \in [Agents -> {"idle", "running"} \cup IsolatedCall]
    /\ waiting \in Seq(Agents)
    /\ mail \in Seq([kind : {"request", "feedback"}, from : Agents])
    /\ hand \in [Agents -> Processes \cup {None}]
    /\ proc \in [Processes -> {"dead"} \cup Alive]
    /\ box \in [Processes -> Seq({"task", "request"})]
    /\ served \subseteq Agents /\ captured \in BOOLEAN /\ doubled \subseteq Agents
    /\ faults \in Nat /\ troubled \in BOOLEAN

\* What is still to be called is idle; without a job no call runs; a call is in the
\* process or isolated as its agent is; an isolated one has started one process, of
\* its agent.
CallsHeld ==
    /\ \A a \in job.todo : call[a] = "idle"
    /\ job = NoJob => \A a \in Agents : call[a] = "idle"
    /\ job.kind = "none" => job.todo = {}
    /\ \A a \in Agents : /\ call[a] = "running" => a \notin isolated
                         /\ call[a] \in IsolatedCall => a \in isolated
                         /\ call[a] \in IsolatedCall <=> hand[a] # None
                         /\ hand[a] # None => hand[a] \in Processes /\ IdOf[hand[a]] = a

\* Somebody waits for the process or ends it, except where its agent has been doubled.
Attended(p) ==
    IF hand[IdOf[p]] = p THEN call[IdOf[p]] \in {"waiting", "killing"} ELSE IdOf[p] \in doubled

HasTask(p) == \E i \in 1..Len(box[p]) : box[p][i] = "task"

\* Only a connected child has something to read, and one that has a task is attended.
TasksAttended ==
    \A p \in Processes : /\ proc[p] \notin Connected => box[p] = <<>>
                         /\ HasTask(p) => Attended(p)

\* A process that no call has in hand was left by a cancelled call that has no successor,
\* or its agent has been doubled; so has one with two processes.
Strays ==
    \A p \in Processes : proc[p] \in Alive =>
        /\ hand[IdOf[p]] # p => troubled /\ (hand[IdOf[p]] = None \/ IdOf[p] \in doubled)
        /\ \A q \in Processes \ {p} : proc[q] \in Alive /\ IdOf[q] = IdOf[p] => IdOf[p] \in doubled

\* InPlaceHonest, for every agent and not only those still enlisted.
InPlaceResults ==
    \A a \in Agents \ isolated :
        result[a] # NoOutcome =>
            /\ result[a].from = a
            /\ status[a] = IF result[a].ok THEN "completed" ELSE "failed"
            /\ call[a] # "running"

\* Without trouble one isolated call is on its way at a time, and the only message is
\* the feedback of its own agent, which has no process any more.
QuietCalls ==
    ~troubled =>
        /\ \A a, b \in Agents : call[a] \in IsolatedCall /\ call[b] \in IsolatedCall => a = b
        /\ Len(mail) <= 1
        /\ \A i \in 1..Len(mail) :
              /\ mail[i].kind = "feedback" /\ call[mail[i].from] = "waiting"
              /\ \A p \in Processes : IdOf[p] = mail[i].from => proc[p] \notin Alive
        /\ \A a \in Agents : call[a] = "killing" =>
              /\ got[a].why = "feedback" /\ got[a].from = a
              /\ \A p \in Processes : IdOf[p] = a => proc[p] \notin Alive

\* What a call, a process and the bus say of each other.
SubInv == SubTypes /\ CallsHeld /\ TasksAttended /\ Strays /\ WorkersAttended /\ ProcessesServed
          /\ WaitersMatch /\ InPlaceResults /\ QuietCalls /\ QuietRunsMatch

\* What is stored of a session.
Contexts == [old : SUBSET Nat, recent : Seq(Nat)]

\* The types of the memory's state, strategy, sessions and conversation.
StrategyTypes ==
    /\ strategy \in {"full", "summary", "lstm"} /\ hasModel \in BOOLEAN
    /\ arrived \in Nat /\ messages \in Seq(Nat) /\ long \in Seq(Nat) /\ summary \subseteq Nat
    /\ asking \in [Callers -> [for : {"nothing", "summary", "all", "class"},
                               cover : SUBSET Nat, upto : Nat]]
    /\ wiped \in Nat

SessionTypes ==
    /\ backend \in {"none", "sqlite", "file"}
    /\ session \in Nat /\ lastId \in Nat
    /\ disk \in Seq([id : Nat, context : Contexts]) /\ torn \in BOOLEAN

TalkTypes == before \in Nat /\ said \in Nat /\ digest \subseteq Nat

\* No element twice.
NoRepeats(s) == \A i, j \in 1..Len(s) : i # j => s[i] # s[j]

\* Nothing is remembered, summarised or asked about that has not arrived.
Arrivals ==
    /\ wiped <= arrived
    /\ Elems(messages) \subseteq 0..arrived /\ Elems(long) \subseteq 0..arrived
    /\ summary \subseteq 0..arrived
    /\ \A c \in Callers : asking[c].cover \subseteq 0..arrived /\ asking[c].upto <= arrived

\* Who may ask what: the lstm strategy for a class, the summary strategy for a summary,
\* of the whole list only the run.
Asked ==
    \A c \in Callers :
        /\ asking[c].for = "nothing" => asking[c] = NotAsking
        /\ asking[c].for = "class" => strategy = "lstm"
        /\ asking[c].for \in {"summary", "all"} => strategy = "summary" /\ hasModel
        /\ asking[c].for = "all" => c = "run"

\* Short and long term are disjoint and without repetition, and a message that is being
\* classified is in neither, and in one question only.
Filed ==
    /\ NoRepeats(messages) /\ NoRepeats(long)
    /\ Elems(messages) \cap Elems(long) = {}
    /\ strategy # "lstm" => long = <<>>
    /\ \A c \in Callers : asking[c].for = "class" =>
          /\ asking[c].cover \cap (Elems(messages) \cup Elems(long)) = {}
          /\ \A m, n \in asking[c].cover : m = n
          /\ \A d \in Callers \ {c} : asking[d].for = "class" => asking[c].cover \cap asking[d].cover = {}

\* What an answer will take out of the list is in its question or, as long as the list is
\* one that starts a summary, in one of the two.
Covered ==
    /\ \A c \in Callers : asking[c].for = "all" =>
          \A m \in Elems(messages) : m <= asking[c].upto => m \in asking[c].cover
    /\ strategy = "summary" /\ hasModel /\ Len(messages) > Buffer /\ Len(messages) >= Interval =>
          \A m \in Elems(messages) : m + Buffer <= arrived => \E d \in Callers : m \in asking[d].cover

\* Session ids only grow, and a file is half written only while a session is saved.
Saved ==
    /\ session <= lastId
    /\ \A i \in 1..Len(disk) : disk[i].id <= lastId
    /\ torn => pc \in {"saving", "new"} /\ backend = "file"
    /\ torn /\ pc = "saving" => session # 0

\* The invariant of the memory.
StrategyInv == StrategyTypes /\ Arrivals /\ Asked /\ InOrder /\ NewestKept /\ Filed /\ Covered
SessionInv == SessionTypes /\ SessionsSound /\ Saved
MemoryInv == StrategyInv /\ SessionInv /\ TalkTypes

\* The inductive invariant of a run.
IInv == SubInv /\ MemoryInv

-----------------------------------------------------------------------------
(* Sub-agents: the steps of the calls and of the processes *)

\* A sequence without its n-th element.
LEMMA RemoveAtFacts ==
    ASSUME NEW S, NEW s \in Seq(S), NEW n \in 1..Len(s), NEW r, r = RemoveAt(s, n)
    PROVE  /\ r \in Seq(S) /\ Len(r) = Len(s) - 1
           /\ \A i \in 1..Len(r) : r[i] = s[IF i < n THEN i ELSE i + 1]
<1> DEFINE front == SubSeq(s, 1, n - 1)
           back  == SubSeq(s, n + 1, Len(s))
<1>1. Len(s) \in Nat /\ n \in Nat /\ n >= 1 /\ n <= Len(s)
  OBVIOUS
<1>2. front \in Seq(S) /\ Len(front) = n - 1 /\ \A i \in 1..(n - 1) : front[i] = s[i]
  BY <1>1, SubSeqProperties
<1>3. back \in Seq(S) /\ Len(back) = Len(s) - n /\ \A i \in 1..(Len(s) - n) : back[i] = s[n + i]
  BY <1>1, SubSeqProperties
<1>4. r = front \o back
  BY DEF RemoveAt
<1> HIDE DEF front, back
<1>5. r \in Seq(S) /\ Len(r) = Len(front) + Len(back)
  BY <1>2, <1>3, <1>4, ConcatProperties
<1>6. \A i \in 1..Len(front) + Len(back) : r[i] = IF i <= Len(front) THEN front[i] ELSE back[i - Len(front)]
  BY <1>2, <1>3, <1>4, ConcatProperties
<1>7. Len(r) = Len(s) - 1
  BY <1>1, <1>2, <1>3, <1>5
<1>8. ASSUME NEW i \in 1..Len(r) PROVE r[i] = s[IF i < n THEN i ELSE i + 1]
  <2>1. i \in Nat /\ i >= 1 /\ i <= Len(s) - 1
    BY <1>1, <1>7
  <2>2. r[i] = IF i <= n - 1 THEN front[i] ELSE back[i - (n - 1)]
    BY <1>2, <1>5, <1>6
  <2>3. CASE i < n
    BY <1>1, <1>2, <2>1, <2>2, <2>3
  <2>4. CASE i >= n
    <3>1. i - (n - 1) \in 1..(Len(s) - n) /\ n + (i - (n - 1)) = i + 1
      BY <1>1, <2>1, <2>4
    <3> QED BY <1>1, <1>3, <2>1, <2>2, <2>4, <3>1
  <2> QED BY <1>1, <2>1, <2>3, <2>4
<1> QED BY <1>5, <1>7, <1>8

\* Leaving the queue of waiters keeps the others.
LEMMA LeavesQueueFacts ==
    ASSUME waiting \in Seq(Agents), NEW a \in Agents, LeavesQueue(a),
           \A i, j \in 1..Len(waiting) : i # j => waiting[i] # waiting[j]
    PROVE  /\ waiting' \in Seq(Agents)
           /\ {waiting'[i] : i \in 1..Len(waiting')} = {waiting[i] : i \in 1..Len(waiting)} \ {a}
           /\ \A i, j \in 1..Len(waiting') : i # j => waiting'[i] # waiting'[j]
<1>1. PICK n \in 1..Len(waiting) :
         waiting[n] = a /\ waiting' = RemoveAt(waiting, n)
  BY DEF LeavesQueue
<1>2. Len(waiting) \in Nat /\ \A i \in 1..Len(waiting) : waiting[i] \in Agents
  OBVIOUS
<1>3. /\ waiting' \in Seq(Agents) /\ Len(waiting') = Len(waiting) - 1
      /\ \A i \in 1..Len(waiting') : waiting'[i] = waiting[IF i < n THEN i ELSE i + 1]
  BY <1>1, <1>2, RemoveAtFacts
<1>4. \A i \in 1..Len(waiting') : (IF i < n THEN i ELSE i + 1) \in 1..Len(waiting) \ {n}
  BY <1>2, <1>3
<1>5. \A i, j \in 1..Len(waiting') : i # j => waiting'[i] # waiting'[j]
  <2>1. \A i, j \in 1..Len(waiting') : i # j =>
           (IF i < n THEN i ELSE i + 1) # (IF j < n THEN j ELSE j + 1)
    BY <1>2, <1>3
  <2> QED BY <1>3, <1>4, <2>1
<1>6. ASSUME NEW k \in 1..Len(waiting), k # n
      PROVE  \E i \in 1..Len(waiting') : waiting'[i] = waiting[k]
  <2>1. CASE k < n
    <3>1. k \in 1..Len(waiting') /\ waiting'[k] = waiting[k]
      BY <1>2, <1>3, <2>1
    <3> QED BY <3>1
  <2>2. CASE k > n
    <3>1. k - 1 \in 1..Len(waiting') /\ waiting'[k - 1] = waiting[k]
      BY <1>2, <1>3, <2>2
    <3> QED BY <3>1
  <2> QED BY <1>2, <1>6, <2>1, <2>2
<1>7. \A i \in 1..Len(waiting') : waiting'[i] # a /\ \E k \in 1..Len(waiting) : waiting'[i] = waiting[k]
  BY <1>1, <1>3, <1>4
<1>8. {waiting'[i] : i \in 1..Len(waiting')} \subseteq {waiting[i] : i \in 1..Len(waiting)} \ {a}
  BY <1>7
<1>9. ASSUME NEW x \in {waiting[i] : i \in 1..Len(waiting)} \ {a}
      PROVE  x \in {waiting'[i] : i \in 1..Len(waiting')}
  <2>1. PICK k \in 1..Len(waiting) : x = waiting[k]
    BY <1>9
  <2>2. k # n
    BY <1>1, <1>9, <2>1
  <2>3. PICK i \in 1..Len(waiting') : waiting'[i] = waiting[k]
    BY <1>6, <2>2
  <2> QED BY <2>1, <2>3
<1> QED BY <1>3, <1>5, <1>8, <1>9

\* Nothing of the sub-agents changes.
LEMMA SubStutter == ASSUME SubInv, UNCHANGED subVars PROVE SubInv'
<1> USE DEF SubInv, subVars, recordVars, callVars, busVars, processVars, childVars
<1>1. SubTypes'
  BY DEF SubTypes
<1>2. CallsHeld'
  BY DEF CallsHeld
<1>3. TasksAttended' /\ Strays'
  BY DEF TasksAttended, Attended, HasTask, Strays
<1>4. WorkersAttended' /\ ProcessesServed' /\ WaitersMatch'
  BY DEF WorkersAttended, ProcessesServed, WaitersMatch
<1>5. InPlaceResults' /\ QuietCalls' /\ QuietRunsMatch'
  BY DEF InPlaceResults, QuietCalls, QuietRunsMatch
<1> QED BY <1>1, <1>2, <1>3, <1>4, <1>5

\* A process has the bus id of an agent.
LEMMA Ids == /\ \A p \in Processes : IdOf[p] \in Agents
             /\ None \notin Agents /\ None \notin Processes
BY SubAgentsAssumption

\* The processes stay as they are, and a call that waits or ends its process goes on so.
LEMMA ProcessesRest ==
    ASSUME SubInv, UNCHANGED <<proc, box, served, hand, doubled>>, troubled => troubled',
           \A a \in Agents : call[a] \in {"waiting", "killing"} => call'[a] \in {"waiting", "killing"}
    PROVE  TasksAttended' /\ Strays' /\ WorkersAttended' /\ ProcessesServed'
<1> USE Ids DEF SubInv
<1>1. \A p \in Processes : Attended(p) => Attended(p)'
  BY DEF Attended
<1>2. TasksAttended'
  BY <1>1 DEF TasksAttended, HasTask
<1>3. Strays'
  BY DEF Strays
<1>4. WorkersAttended'
  BY <1>1 DEF WorkersAttended, Attended
<1>5. ProcessesServed'
  BY DEF ProcessesServed
<1> QED BY <1>2, <1>3, <1>4, <1>5

\* What a published message changes.
LEMMA PublishFacts ==
    ASSUME SubTypes, NEW kind \in {"task", "request"}, NEW from, NEW targets, Publish(kind, from, targets)
    PROVE  /\ box' \in [Processes -> Seq({"task", "request"})]
           /\ mail' = mail \/ (None \in targets /\ mail' = Append(mail, [kind |-> kind, from |-> from]))
           /\ \A p \in Processes :
                box'[p] = box[p] \/ (IdOf[p] \in targets /\ proc[p] \in Connected /\ box'[p] = Append(box[p], kind))
<1> USE Ids
<1>1. \A p \in Processes : box[p] \in Seq({"task", "request"})
  BY DEF SubTypes
<1>2. CASE captured
  BY <1>2 DEF Publish, SubTypes
<1>3. CASE ~captured
  <2>1. PICK T \in Takers(targets) :
           box' = [p \in Processes |-> IF p \in T THEN Append(box[p], kind) ELSE box[p]]
    BY <1>3 DEF Publish
  <2>2. \A p \in Processes : p \in T => IdOf[p] \in targets /\ proc[p] \in Connected
    <3> SUFFICES ASSUME NEW p \in Processes, p \in T PROVE IdOf[p] \in targets /\ proc[p] \in Connected
      OBVIOUS
    <3>1. PICK a \in Agents : a = IdOf[p]
      OBVIOUS
    <3>2. IF a \in targets \cap served /\ Linked(a) # {}
          THEN \E q \in Linked(a) : {r \in T : IdOf[r] = a} = {q}
          ELSE {r \in T : IdOf[r] = a} = {}
      BY <2>1 DEF Takers
    <3>3. p \in {r \in T : IdOf[r] = a}
      BY <3>1
    <3>4. a \in targets /\ \E q \in Linked(a) : {r \in T : IdOf[r] = a} = {q}
      BY <3>2, <3>3
    <3>5. p \in Linked(a)
      BY <3>3, <3>4
    <3> QED BY <3>1, <3>4, <3>5 DEF Linked
  <2>3. box' \in [Processes -> Seq({"task", "request"})]
    BY <1>1, <2>1
  <2>4. mail' = mail \/ (None \in targets /\ mail' = Append(mail, [kind |-> kind, from |-> from]))
    BY <1>3 DEF Publish
  <2> QED BY <2>1, <2>2, <2>3, <2>4
<1> QED BY <1>2, <1>3

\* Who has a task afterwards has it already, or it has just been sent.
LEMMA AppendedTask ==
    ASSUME NEW s \in Seq({"task", "request"}), NEW kind, NEW i \in 1..Len(Append(s, kind)),
           Append(s, kind)[i] = "task"
    PROVE  kind = "task" \/ \E k \in 1..Len(s) : s[k] = "task"
<1>1. Len(s) \in Nat /\ Len(Append(s, kind)) = Len(s) + 1
  OBVIOUS
<1>2. CASE i = Len(s) + 1
  BY <1>2
<1>3. CASE i \in 1..Len(s)
  BY <1>3
<1> QED BY <1>1, <1>2, <1>3

\* A process that ends.
LEMMA EndFacts ==
    ASSUME SubTypes, NEW p \in Processes, EndProcess(p)
    PROVE  /\ proc' \in [Processes -> {"dead"} \cup Alive]
           /\ box' \in [Processes -> Seq({"task", "request"})]
           /\ proc'[p] = "dead" /\ box'[p] = <<>>
           /\ \A q \in Processes \ {p} : proc'[q] = proc[q] /\ box'[q] = box[q]
           /\ served' = IF proc[p] \in Connected THEN served \ {IdOf[p]} ELSE served
           /\ served' \subseteq Agents
BY DEF SubTypes, EndProcess, Alive, Connected

\* Initially there are no sub-agents.
LEMMA SubStarts == Init => SubInv
<1> SUFFICES ASSUME Init PROVE SubInv
  OBVIOUS
<1> USE MasterRunAssumption, SubAgentsAssumption DEF Init, SubInit
<1>1. SubTypes
  <2>1. NoOutcome \in Outcomes
    BY DEF NoOutcome, Outcome, Outcomes
  <2>2. NoJob \in [kind : {"none", "one", "each", "all"}, todo : SUBSET Agents]
    BY DEF NoJob
  <2>3. PICK s \in Setups : isolated = s.isolated /\ bus = s.bus /\ team = s.team
    OBVIOUS
  <2>4. /\ isolated \subseteq Agents /\ team \subseteq Agents /\ bus \in {"none", "deaf", "heard", "hosted"}
    BY <2>3
  <2> HIDE DEF NoOutcome, NoJob
  <2>5. mail \in Seq([kind : {"request", "feedback"}, from : Agents]) /\ waiting \in Seq(Agents)
    OBVIOUS
  <2>6. /\ status \in [Agents -> {"created", "idle", "running", "completed", "failed"}]
        /\ call \in [Agents -> {"idle", "running"} \cup IsolatedCall]
        /\ hand \in [Agents -> Processes \cup {None}]
        /\ proc \in [Processes -> {"dead"} \cup Alive]
        /\ box \in [Processes -> Seq({"task", "request"})]
    OBVIOUS
  <2>7. result \in [Agents -> Outcomes] /\ got \in [Agents -> Outcomes]
    BY <2>1
  <2>8. job \in [kind : {"none", "one", "each", "all"}, todo : SUBSET Agents]
    BY <2>2
  <2>9. enlisted \subseteq Agents /\ faults \in Nat /\ troubled \in BOOLEAN
        /\ served \subseteq Agents /\ captured \in BOOLEAN /\ doubled \subseteq Agents
    OBVIOUS
  <2> HIDE DEF Init, SubInit
  <2> QED BY <2>4, <2>5, <2>6, <2>7, <2>8, <2>9 DEF SubTypes
<1>2. CallsHeld
  BY DEF CallsHeld, NoJob, IsolatedCall
<1>3. \A p \in Processes : proc[p] \notin Alive /\ ~HasTask(p)
  BY DEF Alive, Connected, HasTask
<1>4. TasksAttended /\ Strays
  BY <1>3 DEF TasksAttended, Strays
<1>5. WorkersAttended /\ ProcessesServed
  BY <1>3 DEF WorkersAttended, ProcessesServed, Alive, Connected
<1>6. WaitersMatch
  BY DEF WaitersMatch
<1>7. InPlaceResults /\ QuietCalls /\ QuietRunsMatch
  BY DEF InPlaceResults, QuietCalls, QuietRunsMatch, NoOutcome, Outcome, IsolatedCall
<1> QED BY <1>1, <1>2, <1>4, <1>5, <1>6, <1>7 DEF SubInv

\* Every message has a sender.
LEMMA MailFacts ==
    ASSUME SubTypes
    PROVE  Len(mail) \in Nat /\ \A i \in 1..Len(mail) : mail[i].from \in Agents
<1> DEFINE M == [kind : {"request", "feedback"}, from : Agents]
<1>1. mail \in Seq(M)
  BY DEF SubTypes
<1> HIDE DEF M
<1>2. Len(mail) \in Nat /\ \A i \in 1..Len(mail) : mail[i] \in M
  BY <1>1
<1> QED BY <1>2 DEF M

\* An agent that is created has no process, so that nothing of it needs the exception.
LEMMA EnlistKeeps == ASSUME SubInv, NEW a \in Agents, Enlist(a) PROVE SubInv'
<1> USE Ids DEF SubInv, Enlist, callVars, busVars, childVars, faultVars
<1>1. SubTypes'
  BY DEF SubTypes
<1>2. CallsHeld'
  BY DEF CallsHeld
<1>3. \A p \in Processes : proc[p] \in Alive => IdOf[p] # a
  BY DEF Living
<1>4. TasksAttended'
  <2>1. \A p \in Processes : HasTask(p) => proc[p] \in Connected
    BY DEF TasksAttended, HasTask
  <2>2. \A p \in Processes : HasTask(p) /\ Attended(p) => Attended(p)'
    BY <1>3, <2>1 DEF Attended, Alive
  <2> QED BY <2>2 DEF TasksAttended, HasTask
<1>5. Strays'
  BY <1>3 DEF Strays
<1>6. WorkersAttended' /\ ProcessesServed'
  BY <1>3 DEF WorkersAttended, ProcessesServed, Alive, Connected
<1>7. WaitersMatch' /\ InPlaceResults' /\ QuietCalls'
  BY DEF WaitersMatch, InPlaceResults, QuietCalls
<1>8. QuietRunsMatch'
  BY DEF QuietRunsMatch
<1> QED BY <1>1, <1>2, <1>4, <1>5, <1>6, <1>7, <1>8

\* A job begins with agents whose calls are over.
LEMMA JobBegins ==
    ASSUME SubInv, NEW kind \in {"one", "each", "all"}, NEW todo \in SUBSET Agents,
           job = NoJob, job' = [kind |-> kind, todo |-> todo],
           UNCHANGED <<isolated, team, bus, recordVars, call, got, busVars, processVars, faultVars>>
    PROVE  SubInv'
<1> USE DEF SubInv, recordVars, busVars, processVars, childVars, faultVars
<1>1. SubTypes'
  BY DEF SubTypes
<1>2. job' # NoJob /\ job'.kind # "none" /\ job'.todo = todo
  BY DEF NoJob
<1>3. CallsHeld'
  BY <1>2 DEF CallsHeld
<1>4. TasksAttended' /\ Strays' /\ WorkersAttended' /\ ProcessesServed'
  BY ProcessesRest
<1>5. WaitersMatch'
  BY DEF WaitersMatch
<1>6. InPlaceResults' /\ QuietCalls' /\ QuietRunsMatch'
  BY DEF InPlaceResults, QuietCalls, QuietRunsMatch
<1> QED BY <1>1, <1>3, <1>4, <1>5, <1>6

\* A job that ends leaves no call behind.
LEMMA EndJobKeeps == ASSUME SubInv, EndJob PROVE SubInv'
<1> USE DEF SubInv, EndJob, recordVars, busVars, processVars, childVars, faultVars
<1>1. SubTypes'
  BY DEF SubTypes, NoJob
<1>2. \A a \in Agents : call[a] = "idle"
  BY DEF JobDone, Calling
<1>3. CallsHeld'
  BY <1>2 DEF CallsHeld, NoJob, IsolatedCall
<1>4. TasksAttended' /\ Strays' /\ WorkersAttended' /\ ProcessesServed'
  BY ProcessesRest
<1>5. WaitersMatch'
  BY DEF WaitersMatch
<1>6. InPlaceResults' /\ QuietCalls' /\ QuietRunsMatch'
  BY DEF InPlaceResults, QuietCalls, QuietRunsMatch
<1> QED BY <1>1, <1>3, <1>4, <1>5, <1>6

\* What may be called has no call in progress, and no process in hand.
LEMMA MayCallFacts ==
    ASSUME SubInv, NEW a \in Agents, MayCall(a)
    PROVE  call[a] = "idle" /\ hand[a] = None /\ job # NoJob /\ job.kind # "none"
<1>1. call[a] = "idle" /\ job # NoJob /\ job.kind # "none"
  BY DEF SubInv, CallsHeld, MayCall, NoJob
<1> QED BY <1>1 DEF SubInv, CallsHeld, IsolatedCall

\* Taking agents off the list of a job.
LEMMA TodoFacts ==
    ASSUME SubTypes, NEW T \in SUBSET Agents, job' = [job EXCEPT !.todo = T]
    PROVE  /\ job' \in [kind : {"none", "one", "each", "all"}, todo : SUBSET Agents]
           /\ job'.kind = job.kind /\ job'.todo = T
BY DEF SubTypes

\* run_sub_agent inside the process.
LEMMA CallInPlaceKeeps == ASSUME SubInv, NEW a \in Agents, CallInPlace(a) PROVE SubInv'
<1> USE DEF SubInv
<1>0. /\ MayCall(a) /\ a \notin isolated
      /\ UNCHANGED <<isolated, team, bus, enlisted, result, got, waiting, mail,
                     hand, proc, box, served, captured, doubled>>
  BY DEF CallInPlace, busVars, processVars, childVars
<1>1. call[a] = "idle" /\ hand[a] = None /\ job # NoJob /\ job.kind # "none"
  BY <1>0, MayCallFacts
<1>2. PICK T \in SUBSET job.todo : job' = [job EXCEPT !.todo = T]
  BY DEF CallInPlace, Raised, SubTypes
<1>3. /\ job' \in [kind : {"none", "one", "each", "all"}, todo : SUBSET Agents]
      /\ job'.kind = job.kind /\ job'.todo = T
  BY <1>2, TodoFacts DEF SubTypes
<1>4. job' # NoJob
  BY <1>1, <1>3 DEF NoJob
<1>5. CASE /\ status[a] \in {"created", "idle"}
           /\ status' = [status EXCEPT ![a] = "running"]
           /\ call' = [call EXCEPT ![a] = "running"]
           /\ a \notin job'.todo
           /\ UNCHANGED faultVars
  <2>1. /\ \A b \in Agents : call'[b] = IF b = a THEN "running" ELSE call[b]
        /\ \A b \in Agents : status'[b] = IF b = a THEN "running" ELSE status[b]
    BY <1>5 DEF SubTypes
  <2>2. SubTypes'
    BY <1>0, <1>3, <1>5 DEF SubTypes, faultVars
  <2>3. CallsHeld'
    BY <1>0, <1>1, <1>3, <1>4, <1>5, <2>1 DEF CallsHeld, IsolatedCall
  <2>4. TasksAttended' /\ Strays' /\ WorkersAttended' /\ ProcessesServed'
    BY <1>0, <1>1, <1>5, <2>1, ProcessesRest DEF faultVars
  <2>5. WaitersMatch'
    BY <1>0, <1>1, <2>1 DEF WaitersMatch
  <2>6. InPlaceResults'
    BY <1>0, <1>5, <2>1 DEF InPlaceResults
  <2>7. QuietCalls'
    <3>1. \A i \in 1..Len(mail) : mail[i].from \in Agents
      BY MailFacts
    <3> QED BY <1>0, <1>1, <1>5, <2>1, <3>1 DEF QuietCalls, IsolatedCall, faultVars
  <2>8. QuietRunsMatch'
    BY <1>0, <1>5 DEF QuietRunsMatch, faultVars
  <2> QED BY <2>2, <2>3, <2>4, <2>5, <2>6, <2>7, <2>8
<1>6. CASE /\ UNCHANGED <<status, call>> /\ faults' \in Nat
           /\ troubled' \in BOOLEAN /\ (troubled => troubled')
  <2>1. SubTypes'
    BY <1>0, <1>3, <1>6 DEF SubTypes
  <2>2. CallsHeld'
    BY <1>0, <1>1, <1>3, <1>4, <1>6 DEF CallsHeld
  <2>3. TasksAttended' /\ Strays' /\ WorkersAttended' /\ ProcessesServed'
    BY <1>0, <1>6, ProcessesRest
  <2>4. WaitersMatch' /\ InPlaceResults'
    BY <1>0, <1>6 DEF WaitersMatch, InPlaceResults
  <2>5. QuietCalls' /\ QuietRunsMatch'
    BY <1>0, <1>6 DEF QuietCalls, QuietRunsMatch
  <2> QED BY <2>1, <2>2, <2>3, <2>4, <2>5
<1>7. \/ /\ status[a] \in {"created", "idle"}
         /\ status' = [status EXCEPT ![a] = "running"]
         /\ call' = [call EXCEPT ![a] = "running"]
         /\ job' = [job EXCEPT !.todo = @ \ {a}]
         /\ UNCHANGED faultVars
      \/ Fault /\ UNCHANGED <<status, call>>
      \/ UNCHANGED <<status, call, faultVars>>
  BY DEF CallInPlace
<1>8. job' = [job EXCEPT !.todo = @ \ {a}] => a \notin job'.todo
  BY DEF SubTypes
<1>9. Fault => faults' \in Nat /\ troubled' = TRUE
  BY DEF Fault, SubTypes
<1>10. faults \in Nat /\ troubled \in BOOLEAN
  BY DEF SubTypes
<1> QED BY <1>5, <1>6, <1>7, <1>8, <1>9, <1>10 DEF faultVars

\* ... and its result.
LEMMA InPlaceReturnsKeeps == ASSUME SubInv, NEW a \in Agents, InPlaceReturns(a) PROVE SubInv'
<1> USE DEF SubInv
<1>0. /\ call[a] = "running" /\ call' = [call EXCEPT ![a] = "idle"]
      /\ UNCHANGED <<isolated, team, bus, enlisted, job, got, waiting, mail,
                     hand, proc, box, served, captured, doubled, faults, troubled>>
  BY DEF InPlaceReturns, busVars, processVars, childVars, faultVars
<1>1. PICK ok \in BOOLEAN :
         /\ status' = [status EXCEPT ![a] = IF ok THEN "completed" ELSE "failed"]
         /\ result' = [result EXCEPT ![a] = Outcome(ok, a, "run")]
  BY DEF InPlaceReturns
<1>2. a \notin isolated /\ a \notin job.todo /\ job # NoJob
  BY <1>0 DEF CallsHeld
<1>3. /\ \A b \in Agents : call'[b] = IF b = a THEN "idle" ELSE call[b]
      /\ \A b \in Agents : status'[b] = IF b = a THEN (IF ok THEN "completed" ELSE "failed") ELSE status[b]
      /\ \A b \in Agents : result'[b] = IF b = a THEN Outcome(ok, a, "run") ELSE result[b]
  BY <1>0, <1>1 DEF SubTypes
<1>4. Outcome(ok, a, "run") \in Outcomes /\ Outcome(ok, a, "run").from = a /\ Outcome(ok, a, "run").ok = ok
  BY DEF Outcome, Outcomes
<1>5. SubTypes'
  <2>1. status' \in [Agents -> {"created", "idle", "running", "completed", "failed"}]
    BY <1>1 DEF SubTypes
  <2>2. result' \in [Agents -> Outcomes]
    BY <1>1, <1>4 DEF SubTypes
  <2>3. call' \in [Agents -> {"idle", "running"} \cup IsolatedCall]
    BY <1>0 DEF SubTypes
  <2> QED BY <1>0, <2>1, <2>2, <2>3 DEF SubTypes
<1>6. CallsHeld'
  BY <1>0, <1>2, <1>3 DEF CallsHeld, IsolatedCall
<1>7. TasksAttended' /\ Strays' /\ WorkersAttended' /\ ProcessesServed'
  BY <1>0, <1>3, ProcessesRest
<1>8. WaitersMatch'
  BY <1>0, <1>3 DEF WaitersMatch
<1>9. InPlaceResults'
  BY <1>0, <1>3, <1>4 DEF InPlaceResults
<1>10. QuietCalls'
  <2>1. \A i \in 1..Len(mail) : mail[i].from \in Agents
    BY MailFacts
  <2> QED BY <1>0, <1>3, <2>1 DEF QuietCalls, IsolatedCall
<1>11. QuietRunsMatch'
  BY <1>0, <1>2, <1>3 DEF QuietRunsMatch, SubTypes
<1> QED BY <1>5, <1>6, <1>7, <1>8, <1>9, <1>10, <1>11

\* A process that launch() starts, while others of its agent may live.
LEMMA StartFacts ==
    ASSUME SubInv, NEW a \in Agents, hand[a] = None, call[a] = "idle", NEW p \in Unused(a),
           hand' = [hand EXCEPT ![a] = p], proc' = [proc EXCEPT ![p] = "boot"],
           doubled' = IF Living(a) = {} THEN doubled ELSE doubled \cup {a},
           call' = [call EXCEPT ![a] = "launching"], UNCHANGED <<box, served>>, troubled => troubled'
    PROVE  /\ TasksAttended' /\ Strays' /\ WorkersAttended' /\ ProcessesServed'
           /\ \A q \in Processes : q # p => proc'[q] = proc[q]
           /\ ~troubled => Living(a) = {}
<1> USE Ids DEF SubInv
<1>1. p \in Processes /\ IdOf[p] = a /\ proc[p] = "dead" /\ proc[p] \notin Alive /\ p # None
  BY DEF Unused, Alive, Connected
<1>2. /\ \A b \in Agents : hand'[b] = IF b = a THEN p ELSE hand[b]
      /\ \A b \in Agents : call'[b] = IF b = a THEN "launching" ELSE call[b]
      /\ \A q \in Processes : proc'[q] = IF q = p THEN "boot" ELSE proc[q]
      /\ doubled \subseteq doubled' /\ (Living(a) # {} => a \in doubled')
  BY <1>1 DEF SubTypes
<1>3. "boot" \notin Connected /\ "boot" \in Alive
  BY DEF Alive, Connected
<1>4. box[p] = <<>> /\ ~HasTask(p)
  <2>1. proc[p] \notin Connected
    BY <1>1 DEF Alive
  <2> QED BY <1>1, <2>1 DEF TasksAttended, HasTask
<1>5. \A q \in Processes \ {p} : Attended(q) => Attended(q)'
  <2> SUFFICES ASSUME NEW q \in Processes \ {p}, Attended(q) PROVE Attended(q)'
    OBVIOUS
  <2>1. CASE IdOf[q] = a
    <3>1. hand[a] # q
      OBVIOUS
    <3>2. a \in doubled
      BY <2>1, <3>1 DEF Attended
    <3>3. hand'[a] # q /\ a \in doubled'
      BY <1>2, <3>2
    <3> QED BY <2>1, <3>3 DEF Attended
  <2>2. CASE IdOf[q] # a
    BY <1>2, <2>2 DEF Attended
  <2> QED BY <2>1, <2>2
<1>6. TasksAttended'
  <2>1. \A q \in Processes : HasTask(q)' <=> HasTask(q)
    BY DEF HasTask
  <2> QED BY <1>2, <1>3, <1>4, <1>5, <2>1 DEF TasksAttended
<1>7. \A q \in Processes : proc[q] \in Alive /\ IdOf[q] = a => a \in doubled' /\ troubled
  BY <1>2 DEF Strays, Living
<1>8. Strays'
  <2> SUFFICES ASSUME NEW q \in Processes, proc'[q] \in Alive
               PROVE  /\ hand'[IdOf[q]] # q => troubled' /\ (hand'[IdOf[q]] = None \/ IdOf[q] \in doubled')
                      /\ \A r \in Processes \ {q} : proc'[r] \in Alive /\ IdOf[r] = IdOf[q] => IdOf[q] \in doubled'
    BY DEF Strays
  <2>1. CASE IdOf[q] = a
    BY <1>1, <1>2, <1>7, <2>1
  <2>2. CASE IdOf[q] # a
    <3>1. proc[q] \in Alive /\ hand'[IdOf[q]] = hand[IdOf[q]]
      BY <1>1, <1>2, <2>2
    <3>2. \A r \in Processes : IdOf[r] = IdOf[q] => proc'[r] = proc[r]
      BY <1>1, <1>2, <2>2
    <3> QED BY <1>2, <2>2, <3>1, <3>2 DEF Strays
  <2> QED BY <2>1, <2>2
<1>9. WorkersAttended'
  <2>1. \A q \in Processes : proc'[q] \in {"working", "stuck"} => q # p /\ proc[q] \in {"working", "stuck"}
    BY <1>2
  <2> QED BY <1>5, <2>1 DEF WorkersAttended, Attended
<1>10. ProcessesServed'
  BY <1>2, <1>3 DEF ProcessesServed
<1> QED BY <1>2, <1>6, <1>7, <1>8, <1>9, <1>10 DEF Living

\* The call of an isolated agent.
LEMMA CallIsolatedKeeps == ASSUME SubInv, NEW a \in Agents, CallIsolated(a) PROVE SubInv'
<1> USE Ids DEF SubInv
<1>0. /\ MayCall(a) /\ a \in isolated /\ job' = [job EXCEPT !.todo = job.todo \ {a}]
      /\ troubled' = (troubled \/ Calling # {})
      /\ UNCHANGED <<isolated, team, bus, enlisted, status, got, waiting, mail, box, served, captured, faults>>
  BY DEF CallIsolated, busVars, SubTypes
<1>1. call[a] = "idle" /\ hand[a] = None /\ job # NoJob /\ job.kind # "none"
  BY <1>0, MayCallFacts
<1>2. /\ job' \in [kind : {"none", "one", "each", "all"}, todo : SUBSET Agents]
      /\ job'.kind = job.kind /\ job'.todo = job.todo \ {a}
  BY <1>0, TodoFacts DEF SubTypes
<1>3. job' # NoJob
  BY <1>1, <1>2 DEF NoJob
<1>4. troubled' \in BOOLEAN /\ (~troubled' => ~troubled /\ \A b \in Agents : call[b] = "idle")
  BY <1>0 DEF SubTypes, Calling
<1>5. CASE bus = "none"
  <2>1. UNCHANGED <<call, hand, proc, doubled>> /\ result' = [result EXCEPT ![a] = Outcome(FALSE, None, "error")]
    BY <1>5 DEF CallIsolated
  <2>2. \A b \in Agents : result'[b] = IF b = a THEN Outcome(FALSE, None, "error") ELSE result[b]
    BY <2>1 DEF SubTypes
  <2>3. Outcome(FALSE, None, "error") \in Outcomes /\ Outcome(FALSE, None, "error").why = "error"
    BY DEF Outcome, Outcomes
  <2>4. result' \in [Agents -> Outcomes]
    BY <2>1, <2>3 DEF SubTypes
  <2>5. SubTypes'
    BY <1>0, <1>2, <1>4, <2>1, <2>4 DEF SubTypes
  <2>6. CallsHeld'
    BY <1>0, <1>1, <1>2, <1>3, <2>1 DEF CallsHeld
  <2>7. TasksAttended' /\ Strays' /\ WorkersAttended' /\ ProcessesServed'
    BY <1>0, <1>4, <2>1, ProcessesRest
  <2>8. WaitersMatch'
    BY <1>0, <2>1 DEF WaitersMatch
  <2>9. InPlaceResults'
    <3>1. \A b \in Agents \ isolated : result'[b] = result[b] /\ call'[b] = call[b] /\ status'[b] = status[b]
      BY <1>0, <2>1, <2>2
    <3> QED BY <1>0, <3>1 DEF InPlaceResults
  <2>10. QuietCalls'
    BY <1>0, <1>4, <2>1 DEF QuietCalls
  <2>11. QuietRunsMatch'
    BY <1>0, <1>4, <2>1, <2>2, <2>3 DEF QuietRunsMatch, SubTypes
  <2> QED BY <2>5, <2>6, <2>7, <2>8, <2>9, <2>10, <2>11
<1>6. CASE bus # "none"
  <2>1. PICK p \in Unused(a) :
           /\ hand' = [hand EXCEPT ![a] = p] /\ proc' = [proc EXCEPT ![p] = "boot"]
           /\ call' = [call EXCEPT ![a] = "launching"] /\ result' = result
           /\ doubled' = IF Living(a) = {} THEN doubled ELSE doubled \cup {a}
    <3>1. PICK p \in Unused(a) : p = CHOOSE q \in Unused(a) : TRUE
      BY <1>6 DEF CallIsolated
    <3>2. hand' = [hand EXCEPT ![a] = p]
      BY <1>6, <3>1 DEF CallIsolated
    <3>3. hand'[a] = p
      BY <3>2 DEF SubTypes
    <3> QED BY <1>6, <3>2, <3>3 DEF CallIsolated
  <2>2. /\ TasksAttended' /\ Strays' /\ WorkersAttended' /\ ProcessesServed'
        /\ \A q \in Processes : q # p => proc'[q] = proc[q]
        /\ ~troubled => Living(a) = {}
    BY <1>0, <1>1, <2>1, StartFacts
  <2>3. p \in Processes /\ IdOf[p] = a
    BY DEF Unused
  <2>4. /\ \A b \in Agents : call'[b] = IF b = a THEN "launching" ELSE call[b]
        /\ \A b \in Agents : hand'[b] = IF b = a THEN p ELSE hand[b]
    BY <2>1 DEF SubTypes
  <2>5. SubTypes'
    <3>1. call' \in [Agents -> {"idle", "running"} \cup IsolatedCall]
      BY <2>1 DEF SubTypes, IsolatedCall
    <3>2. proc' \in [Processes -> {"dead"} \cup Alive] /\ hand' \in [Agents -> Processes \cup {None}]
      BY <2>1, <2>3 DEF SubTypes, Alive
    <3>3. doubled' \subseteq Agents
      BY <2>1 DEF SubTypes
    <3> QED BY <1>0, <1>2, <1>4, <2>1, <3>1, <3>2, <3>3 DEF SubTypes
  <2>6. CallsHeld'
    <3>1. "launching" \in IsolatedCall /\ "launching" # "running" /\ p # None
      BY <2>3 DEF IsolatedCall
    <3> QED BY <1>0, <1>1, <1>2, <1>3, <2>3, <2>4, <3>1 DEF CallsHeld
  <2>7. WaitersMatch'
    BY <1>0, <1>1, <2>4 DEF WaitersMatch
  <2>8. InPlaceResults'
    BY <1>0, <2>1, <2>4 DEF InPlaceResults
  <2>9. QuietCalls'
    <3> SUFFICES ASSUME ~troubled' PROVE QuietCalls'
      BY DEF QuietCalls
    <3>1. \A b \in Agents : call[b] = "idle"
      BY <1>4
    <3>2. \A i \in 1..Len(mail) : FALSE
      BY <1>4, <3>1, MailFacts DEF QuietCalls
    <3>3. Len(mail) <= 1
      BY <1>4 DEF QuietCalls
    <3> QED BY <1>0, <2>4, <3>1, <3>2, <3>3 DEF QuietCalls, IsolatedCall
  <2>10. QuietRunsMatch'
    BY <1>0, <1>4, <2>1, <2>2 DEF QuietRunsMatch
  <2> QED BY <2>2, <2>5, <2>6, <2>7, <2>8, <2>9, <2>10
<1> QED BY <1>5, <1>6

\* A call of an isolated agent that moves on with its process, or ends without one.
LEMMA MovesOn ==
    ASSUME CallsHeld, NEW a \in Agents, NEW c \in {"idle"} \cup IsolatedCall, call[a] \in IsolatedCall,
           \A b \in Agents : call'[b] = IF b = a THEN c ELSE call[b],
           \A b \in Agents : hand'[b] = IF b = a /\ c = "idle" THEN None ELSE hand[b],
           job' = job, isolated' = isolated, SubTypes
    PROVE  CallsHeld'
<1>1. a \in isolated /\ a \notin job.todo /\ job # NoJob /\ hand[a] # None
  BY DEF CallsHeld, IsolatedCall
<1>2. \A b \in job'.todo : call'[b] = "idle"
  BY <1>1 DEF CallsHeld, SubTypes
<1>3. \A b \in Agents : /\ call'[b] = "running" => b \notin isolated'
                        /\ call'[b] \in IsolatedCall => b \in isolated'
                        /\ (call'[b] \in IsolatedCall <=> hand'[b] # None)
                        /\ hand'[b] # None => hand'[b] \in Processes /\ IdOf[hand'[b]] = b
  BY <1>1 DEF CallsHeld, IsolatedCall
<1>4. job' # NoJob /\ (job'.kind = "none" => job'.todo = {})
  BY <1>1 DEF CallsHeld
<1> QED BY <1>2, <1>3, <1>4 DEF CallsHeld, NoJob

\* A process that is over is no longer in hand.
LEMMA LeavesHand ==
    ASSUME SubInv, NEW a \in Agents, call[a] \in IsolatedCall, proc[hand[a]] \notin Alive,
           \A b \in Agents : hand'[b] = IF b = a THEN None ELSE hand[b],
           \A b \in Agents : b # a => call'[b] = call[b],
           UNCHANGED <<proc, box, served, doubled>>, troubled => troubled'
    PROVE  TasksAttended' /\ Strays' /\ WorkersAttended' /\ ProcessesServed'
<1> USE Ids DEF SubInv
<1>1. hand[a] \in Processes /\ IdOf[hand[a]] = a
  BY DEF CallsHeld
<1>2. \A p \in Processes : p # hand[a] /\ Attended(p) => Attended(p)'
  BY <1>1 DEF Attended
<1>3. TasksAttended'
  <2>1. ~HasTask(hand[a])
    BY <1>1 DEF TasksAttended, HasTask, Alive
  <2> QED BY <1>2, <2>1 DEF TasksAttended, HasTask
<1>4. Strays'
  BY <1>1 DEF Strays
<1>5. WorkersAttended'
  BY <1>1, <1>2 DEF WorkersAttended, Attended, Alive, Connected
<1>6. ProcessesServed'
  BY DEF ProcessesServed
<1> QED BY <1>3, <1>4, <1>5, <1>6

\* launch() returns, or raises because the process is over.
LEMMA LaunchedKeeps == ASSUME SubInv, NEW a \in Agents, Launched(a) PROVE SubInv'
<1> USE Ids DEF SubInv
<1>0. /\ call[a] = "launching"
      /\ UNCHANGED <<isolated, team, bus, enlisted, status, job, got, waiting, mail,
                     proc, box, served, captured, doubled, faults, troubled>>
  BY DEF Launched, busVars, childVars, faultVars
<1>1. a \in isolated /\ a \notin job.todo /\ job # NoJob
  BY <1>0 DEF CallsHeld, IsolatedCall
<1>2. PICK c \in {"idle", "settling"} :
         /\ call' = [call EXCEPT ![a] = c]
         /\ IF c = "idle" THEN hand' = [hand EXCEPT ![a] = None] /\ proc[hand[a]] = "dead" ELSE hand' = hand
  BY DEF Launched
<1>3. /\ \A b \in Agents : call'[b] = IF b = a THEN c ELSE call[b]
      /\ call' \in [Agents -> {"idle", "running"} \cup IsolatedCall]
      /\ \A b \in Agents : hand'[b] = IF b = a /\ c = "idle" THEN None ELSE hand[b]
      /\ hand' \in [Agents -> Processes \cup {None}]
  BY <1>2 DEF SubTypes, IsolatedCall
<1>4. Outcome(FALSE, None, "error") \in Outcomes /\ Outcome(FALSE, None, "error").why = "error"
  BY DEF Outcome, Outcomes
<1>5. /\ result' \in [Agents -> Outcomes]
      /\ \A b \in Agents : result'[b] = result[b] \/ (b = a /\ result'[b] = Outcome(FALSE, None, "error"))
  <2>1. CASE result' = result
    BY <2>1 DEF SubTypes
  <2>2. CASE result' = [result EXCEPT ![a] = Outcome(FALSE, None, "error")]
    BY <1>4, <2>2 DEF SubTypes
  <2> QED BY <2>1, <2>2 DEF Launched
<1>6. SubTypes'
  BY <1>0, <1>3, <1>5 DEF SubTypes
<1>7. CallsHeld'
  BY <1>0, <1>3, MovesOn DEF IsolatedCall
<1>8. TasksAttended' /\ Strays' /\ WorkersAttended' /\ ProcessesServed'
  <2>1. CASE c = "idle"
    <3>1. proc[hand[a]] \notin Alive
      BY <1>2, <2>1 DEF Alive, Connected
    <3> QED BY <1>0, <1>3, <2>1, <3>1, LeavesHand DEF IsolatedCall
  <2>2. CASE c # "idle"
    BY <1>0, <1>2, <1>3, <2>2, ProcessesRest
  <2> QED BY <2>1, <2>2
<1>9. WaitersMatch'
  BY <1>0, <1>3 DEF WaitersMatch
<1>10. InPlaceResults'
  BY <1>0, <1>1, <1>3, <1>5 DEF InPlaceResults
<1>11. QuietCalls'
  BY <1>0, <1>3, MailFacts DEF QuietCalls, IsolatedCall
<1>12. QuietRunsMatch'
  <2> SUFFICES ASSUME ~troubled, NEW b \in isolated
               PROVE  /\ result'[b].why \in {"none", "error", "feedback"}
                      /\ result'[b].why = "feedback" => result'[b].from = b
    BY <1>0 DEF QuietRunsMatch
  <2>1. b \in Agents /\ result[b].why \in {"none", "error", "feedback"}
        /\ (result[b].why = "feedback" => result[b].from = b)
    BY DEF QuietRunsMatch, SubTypes
  <2>2. CASE result'[b] = result[b]
    BY <2>1, <2>2
  <2>3. CASE result'[b] = Outcome(FALSE, None, "error")
    BY <1>4, <2>3
  <2> QED BY <1>5, <2>1, <2>2, <2>3
<1> QED BY <1>6, <1>7, <1>8, <1>9, <1>10, <1>11, <1>12

\* The task is sent, and the call waits or gives up.
LEMMA SendTaskKeeps == ASSUME SubInv, NEW a \in Agents, SendTask(a) PROVE SubInv'
<1> USE Ids DEF SubInv
<1>0. /\ call[a] = "settling" /\ Publish("task", None, {a})
      /\ troubled' = (troubled \/ ~Heard)
      /\ UNCHANGED <<isolated, team, bus, enlisted, status, result, job,
                     hand, proc, served, captured, doubled, faults>>
  BY DEF SendTask, recordVars
<1>1. a \in isolated /\ a \notin job.todo /\ job # NoJob /\ hand[a] \in Processes /\ IdOf[hand[a]] = a
  BY <1>0 DEF CallsHeld, IsolatedCall
<1>2. /\ box' \in [Processes -> Seq({"task", "request"})] /\ mail' = mail
      /\ \A p \in Processes :
            box'[p] = box[p] \/ (IdOf[p] = a /\ proc[p] \in Connected /\ box'[p] = Append(box[p], "task"))
  <2> DEFINE T == {a}
  <2>1. Publish("task", None, T) /\ "task" \in {"task", "request"} /\ SubTypes
    BY <1>0
  <2>2. None \notin T /\ \A b \in Agents : b \in T <=> b = a
    OBVIOUS
  <2> HIDE DEF T
  <2>3. /\ box' \in [Processes -> Seq({"task", "request"})]
        /\ mail' = mail \/ (None \in T /\ mail' = Append(mail, [kind |-> "task", from |-> None]))
        /\ \A p \in Processes :
             box'[p] = box[p] \/ (IdOf[p] \in T /\ proc[p] \in Connected /\ box'[p] = Append(box[p], "task"))
    BY ONLY <2>1, PublishFacts
  <2> QED BY <2>2, <2>3
<1>3. PICK c \in {"waiting", "killing"} : call' = [call EXCEPT ![a] = c]
  BY DEF SendTask
<1>4. /\ \A b \in Agents : call'[b] = IF b = a THEN c ELSE call[b]
      /\ call' \in [Agents -> {"idle", "running"} \cup IsolatedCall]
  BY <1>3 DEF SubTypes, IsolatedCall
<1>5. CallsHeld'
  <2>1. c # "idle" /\ c \in IsolatedCall /\ call[a] \in IsolatedCall
    BY <1>0 DEF IsolatedCall
  <2> QED BY <1>0, <1>4, <2>1, MovesOn
<1>6. \A p \in Processes : proc[p] \in Alive /\ IdOf[p] = a => Attended(p)'
  <2> SUFFICES ASSUME NEW p \in Processes, proc[p] \in Alive, IdOf[p] = a PROVE Attended(p)'
    OBVIOUS
  <2>1. CASE hand[a] = p
    BY <1>0, <1>4, <2>1 DEF Attended
  <2>2. CASE hand[a] # p
    <3>1. hand[a] # None /\ a \in doubled
      BY <1>1, <2>2 DEF Strays
    <3> QED BY <1>0, <2>2, <3>1 DEF Attended
  <2> QED BY <2>1, <2>2
<1>7. \A p \in Processes : Attended(p) => Attended(p)'
  BY <1>0, <1>4 DEF Attended
<1>8. TasksAttended'
  <2> SUFFICES ASSUME NEW p \in Processes
               PROVE  /\ proc'[p] \notin Connected => box'[p] = <<>>
                      /\ HasTask(p)' => Attended(p)'
    BY DEF TasksAttended
  <2>1. CASE box'[p] = box[p]
    BY <1>0, <1>7, <2>1 DEF TasksAttended, HasTask
  <2>2. CASE IdOf[p] = a /\ proc[p] \in Connected
    BY <1>0, <1>6, <2>2 DEF Alive
  <2> QED BY <1>2, <2>1, <2>2
<1>9. Strays' /\ WorkersAttended' /\ ProcessesServed'
  <2>1. Strays'
    BY <1>0 DEF Strays
  <2>2. WorkersAttended'
    BY <1>0, <1>7 DEF WorkersAttended, Attended
  <2>3. ProcessesServed'
    BY <1>0 DEF ProcessesServed
  <2> QED BY <2>1, <2>2, <2>3
<1>10. InPlaceResults'
  BY <1>0, <1>4 DEF InPlaceResults
<1>11. QuietRunsMatch'
  BY <1>0 DEF QuietRunsMatch
<1>12. troubled' \in BOOLEAN
  BY <1>0 DEF SubTypes, Heard
<1>13. CASE c = "waiting"
  <2>1. waiting' = Append(waiting, a) /\ got' = got
    BY <1>4, <1>13 DEF SendTask, SubTypes
  <2>2. /\ waiting' \in Seq(Agents) /\ Len(waiting') = Len(waiting) + 1 /\ Len(waiting) \in Nat
        /\ \A i \in 1..Len(waiting) : waiting'[i] = waiting[i]
        /\ waiting'[Len(waiting) + 1] = a
    BY <2>1 DEF SubTypes
  <2>3. \A i \in 1..Len(waiting) : waiting[i] # a
    BY <1>0 DEF WaitersMatch
  <2>4. {waiting'[i] : i \in 1..Len(waiting')} = {waiting[i] : i \in 1..Len(waiting)} \cup {a}
    <3>1. 1..Len(waiting') = 1..Len(waiting) \cup {Len(waiting) + 1}
      BY <2>2
    <3> QED BY <2>2, <3>1
  <2>5. {b \in Agents : call'[b] = "waiting"} = {b \in Agents : call[b] = "waiting"} \cup {a}
    BY <1>4, <1>13
  <2>6. \A i, j \in 1..Len(waiting') : i # j => waiting'[i] # waiting'[j]
    BY <2>2, <2>3 DEF WaitersMatch
  <2>7. WaitersMatch'
    BY <2>4, <2>5, <2>6 DEF WaitersMatch
  <2>8. SubTypes'
    BY <1>0, <1>2, <1>4, <1>12, <2>1, <2>2 DEF SubTypes
  <2>9. QuietCalls'
    <3> SUFFICES ASSUME ~troubled' PROVE QuietCalls'
      BY DEF QuietCalls
    <3>1. ~troubled
      BY <1>0 DEF SubTypes
    <3>2. \A b, d \in Agents : call'[b] \in IsolatedCall /\ call'[d] \in IsolatedCall => b = d
      BY <1>0, <1>4, <3>1 DEF QuietCalls, IsolatedCall
    <3>3. \A b \in Agents : call'[b] # "killing"
      BY <1>0, <1>4, <1>13, <3>1 DEF QuietCalls, IsolatedCall
    <3>4. \A i \in 1..Len(mail) : mail[i].from \in Agents /\ mail[i].from # a
      BY <1>0, <3>1, MailFacts DEF QuietCalls
    <3> QED BY <1>0, <1>2, <1>4, <3>1, <3>2, <3>3, <3>4 DEF QuietCalls
  <2> QED BY <1>5, <1>8, <1>9, <1>10, <1>11, <2>7, <2>8, <2>9
<1>14. CASE c = "killing"
  <2>1. ~Heard /\ waiting' = waiting
        /\ \E why \in {"timeout", "error"} : got' = [got EXCEPT ![a] = Outcome(FALSE, None, why)]
    BY <1>4, <1>14 DEF SendTask, SubTypes
  <2>2. \A why \in {"timeout", "error"} : Outcome(FALSE, None, why) \in Outcomes
    BY DEF Outcome, Outcomes
  <2>3. got' \in [Agents -> Outcomes]
    <3>1. PICK why \in {"timeout", "error"} : got' = [got EXCEPT ![a] = Outcome(FALSE, None, why)]
      BY <2>1
    <3> DEFINE o == Outcome(FALSE, None, why)
    <3>2. o \in Outcomes /\ got' = [got EXCEPT ![a] = o]
      BY <2>2, <3>1
    <3> HIDE DEF o
    <3> QED BY <3>2 DEF SubTypes
  <2>4. SubTypes'
    BY <1>0, <1>2, <1>4, <1>12, <2>1, <2>3 DEF SubTypes
  <2>5. WaitersMatch'
    BY <1>0, <1>4, <1>14, <2>1 DEF WaitersMatch
  <2>6. QuietCalls'
    BY <1>0, <2>1 DEF QuietCalls
  <2> QED BY <1>5, <1>8, <1>9, <1>10, <1>11, <2>4, <2>5, <2>6
<1> QED BY <1>13, <1>14

\* A waiter takes the first message, whoever sent it.
LEMMA ReceiveKeeps == ASSUME SubInv, NEW a \in Agents, Receive(a) PROVE SubInv'
<1> USE DEF SubInv
<1>0. /\ call[a] = "waiting" /\ mail # <<>> /\ Head(waiting) = a
      /\ got' = [got EXCEPT ![a] = Outcome(FALSE, Head(mail).from, Head(mail).kind)]
      /\ mail' = Tail(mail) /\ waiting' = Tail(waiting)
      /\ call' = [call EXCEPT ![a] = "killing"]
      /\ UNCHANGED <<isolated, team, bus, enlisted, status, result, job,
                     hand, proc, box, served, captured, doubled, faults, troubled>>
  BY DEF Receive, recordVars, processVars, childVars, faultVars
<1>1. a \in isolated /\ a \notin job.todo /\ job # NoJob
  BY <1>0 DEF CallsHeld, IsolatedCall
<1>2. /\ \A b \in Agents : call'[b] = IF b = a THEN "killing" ELSE call[b]
      /\ call' \in [Agents -> {"idle", "running"} \cup IsolatedCall]
  BY <1>0 DEF SubTypes, IsolatedCall
<1> DEFINE M == [kind : {"request", "feedback"}, from : Agents]
<1>3. mail \in Seq(M)
  BY DEF SubTypes
<1> HIDE DEF M
<1>4. Head(mail) \in M /\ Head(mail) = mail[1] /\ 1 \in 1..Len(mail) /\ Tail(mail) \in Seq(M)
      /\ Len(Tail(mail)) = Len(mail) - 1 /\ Len(mail) \in Nat
  BY <1>0, <1>3
<1>5. /\ Head(mail).kind \in {"request", "feedback"} /\ Head(mail).from \in Agents
  BY <1>4 DEF M
<1>6. /\ Outcome(FALSE, Head(mail).from, Head(mail).kind) \in Outcomes
      /\ Outcome(FALSE, Head(mail).from, Head(mail).kind).from = mail[1].from
      /\ Outcome(FALSE, Head(mail).from, Head(mail).kind).why = mail[1].kind
  BY <1>4, <1>5 DEF Outcome, Outcomes
<1>7. /\ got' \in [Agents -> Outcomes]
      /\ \A b \in Agents : b # a => got'[b] = got[b]
      /\ got'[a].from = mail[1].from /\ got'[a].why = mail[1].kind
  BY <1>0, <1>6 DEF SubTypes
<1>8. waiting # <<>> /\ waiting \in Seq(Agents) /\ Len(waiting) \in Nat
  <2>1. a \in {waiting[i] : i \in 1..Len(waiting)}
    BY <1>0 DEF WaitersMatch
  <2> QED BY <2>1 DEF SubTypes
<1>9. /\ waiting' \in Seq(Agents) /\ Len(waiting') = Len(waiting) - 1 /\ waiting[1] = a
      /\ \A i \in 1..Len(waiting') : waiting'[i] = waiting[i + 1]
  BY <1>0, <1>8
<1>10. SubTypes'
  <2>1. mail' \in Seq([kind : {"request", "feedback"}, from : Agents])
    BY <1>0, <1>4 DEF M
  <2> QED BY <1>0, <1>2, <1>7, <1>9, <2>1 DEF SubTypes
<1>11. CallsHeld'
  BY <1>0, <1>2, MovesOn DEF IsolatedCall
<1>12. TasksAttended' /\ Strays' /\ WorkersAttended' /\ ProcessesServed'
  BY <1>0, <1>2, ProcessesRest
<1>13. WaitersMatch'
  <2>1. \A i, j \in 1..Len(waiting') : i # j => waiting'[i] # waiting'[j]
    BY <1>8, <1>9 DEF WaitersMatch
  <2>2. \A i \in 1..Len(waiting) : i # 1 => waiting[i] # a
    BY <1>8, <1>9 DEF WaitersMatch
  <2>3. ASSUME NEW i \in 1..Len(waiting')
        PROVE  waiting'[i] \in {b \in Agents : call'[b] = "waiting"}
    <3>1. i + 1 \in 1..Len(waiting) /\ i + 1 # 1 /\ waiting'[i] = waiting[i + 1]
      BY <1>8, <1>9
    <3>2. waiting[i + 1] \in {b \in Agents : call[b] = "waiting"}
      BY <3>1 DEF WaitersMatch
    <3> QED BY <1>2, <2>2, <3>1, <3>2
  <2>4. ASSUME NEW b \in Agents, call'[b] = "waiting"
        PROVE  b \in {waiting'[i] : i \in 1..Len(waiting')}
    <3>1. call[b] = "waiting" /\ b # a
      BY <1>2, <2>4
    <3>2. PICK k \in 1..Len(waiting) : waiting[k] = b
      BY <3>1 DEF WaitersMatch
    <3>3. k - 1 \in 1..Len(waiting') /\ waiting'[k - 1] = b
      BY <1>8, <1>9, <3>1, <3>2
    <3> QED BY <3>3
  <2>5. {waiting'[i] : i \in 1..Len(waiting')} = {b \in Agents : call'[b] = "waiting"}
    BY <2>3, <2>4
  <2> QED BY <2>1, <2>5 DEF WaitersMatch
<1>14. InPlaceResults' /\ QuietRunsMatch'
  BY <1>0, <1>2 DEF InPlaceResults, QuietRunsMatch
<1>15. QuietCalls'
  <2>1. SUFFICES ASSUME ~troubled PROVE QuietCalls'
    BY <1>0 DEF QuietCalls
  <2>2. /\ mail[1].kind = "feedback" /\ call[mail[1].from] = "waiting" /\ mail[1].from \in Agents /\ Len(mail) <= 1
        /\ \A p \in Processes : IdOf[p] = mail[1].from => proc[p] \notin Alive
    BY <1>4, <1>5, <2>1 DEF QuietCalls
  <2>3. mail[1].from = a
    BY <1>0, <2>1, <2>2 DEF QuietCalls, IsolatedCall
  <2>4. Len(mail') = 0
    BY <1>0, <1>4, <2>2
  <2>5. \A b, d \in Agents : call'[b] \in IsolatedCall /\ call'[d] \in IsolatedCall => b = d
    BY <1>0, <1>2, <2>1 DEF QuietCalls, IsolatedCall
  <2>6. \A b \in Agents : call'[b] = "killing" => b = a
    BY <1>0, <1>2, <2>1 DEF QuietCalls, IsolatedCall
  <2>7. got'[a].why = "feedback" /\ got'[a].from = a /\ \A p \in Processes : IdOf[p] = a => proc'[p] \notin Alive
    BY <1>0, <1>7, <2>2, <2>3
  <2>8. Len(mail') <= 1 /\ \A i \in 1..Len(mail') : FALSE
    BY <2>4
  <2> QED BY <2>5, <2>6, <2>7, <2>8 DEF QuietCalls
<1> QED BY <1>10, <1>11, <1>12, <1>13, <1>14, <1>15

\* ... or gives up.
LEMMA TimesOutKeeps == ASSUME SubInv, NEW a \in Agents, TimesOut(a) PROVE SubInv'
<1> USE DEF SubInv
<1>0. /\ call[a] = "waiting" /\ LeavesQueue(a)
      /\ got' = [got EXCEPT ![a] = Outcome(FALSE, None, "timeout")]
      /\ call' = [call EXCEPT ![a] = "killing"] /\ troubled' = TRUE
      /\ UNCHANGED <<isolated, team, bus, enlisted, status, result, job, mail,
                     hand, proc, box, served, captured, doubled, faults>>
  BY DEF TimesOut, recordVars, processVars, childVars
<1>1. a \in isolated /\ a \notin job.todo /\ job # NoJob
  BY <1>0 DEF CallsHeld, IsolatedCall
<1>2. /\ \A b \in Agents : call'[b] = IF b = a THEN "killing" ELSE call[b]
      /\ call' \in [Agents -> {"idle", "running"} \cup IsolatedCall]
  BY <1>0 DEF SubTypes, IsolatedCall
<1>3. Outcome(FALSE, None, "timeout") \in Outcomes
  BY DEF Outcome, Outcomes
<1>4. got' \in [Agents -> Outcomes]
  BY <1>0, <1>3 DEF SubTypes
<1>5. /\ waiting' \in Seq(Agents)
      /\ {waiting'[i] : i \in 1..Len(waiting')} = {waiting[i] : i \in 1..Len(waiting)} \ {a}
      /\ \A i, j \in 1..Len(waiting') : i # j => waiting'[i] # waiting'[j]
  BY <1>0, LeavesQueueFacts DEF SubTypes, WaitersMatch
<1>6. SubTypes'
  BY <1>0, <1>2, <1>4, <1>5 DEF SubTypes
<1>7. CallsHeld'
  BY <1>0, <1>2, MovesOn DEF IsolatedCall
<1>8. TasksAttended' /\ Strays' /\ WorkersAttended' /\ ProcessesServed'
  BY <1>0, <1>2, ProcessesRest
<1>9. WaitersMatch'
  <2>1. {b \in Agents : call'[b] = "waiting"} = {b \in Agents : call[b] = "waiting"} \ {a}
    BY <1>2
  <2> QED BY <1>5, <2>1 DEF WaitersMatch
<1>10. InPlaceResults' /\ QuietCalls' /\ QuietRunsMatch'
  BY <1>0, <1>2 DEF InPlaceResults, QuietCalls, QuietRunsMatch
<1> QED BY <1>6, <1>7, <1>8, <1>9, <1>10

\* The process of a call is ended, and its result recorded.
LEMMA TerminatedKeeps == ASSUME SubInv, NEW a \in Agents, Terminated(a) PROVE SubInv'
<1> USE Ids DEF SubInv
<1>0. /\ call[a] = "killing" /\ call' = [call EXCEPT ![a] = "idle"]
      /\ hand' = [hand EXCEPT ![a] = None]
      /\ got' = [got EXCEPT ![a] = NoOutcome]
      /\ result' = IF got[a] = NoOutcome THEN result ELSE [result EXCEPT ![a] = got[a]]
      /\ UNCHANGED <<isolated, team, bus, enlisted, status, job, waiting, mail, captured, doubled, faults, troubled>>
  BY DEF Terminated, busVars, faultVars
<1>1. a \in isolated
  BY <1>0 DEF CallsHeld, IsolatedCall
<1>2. /\ \A b \in Agents : call'[b] = IF b = a THEN "idle" ELSE call[b]
      /\ call' \in [Agents -> {"idle", "running"} \cup IsolatedCall]
      /\ \A b \in Agents : hand'[b] = IF b = a THEN None ELSE hand[b]
      /\ hand' \in [Agents -> Processes \cup {None}]
  BY <1>0 DEF SubTypes, IsolatedCall
<1>3. NoOutcome \in Outcomes
  BY DEF NoOutcome, Outcome, Outcomes
<1>4. /\ got' \in [Agents -> Outcomes] /\ result' \in [Agents -> Outcomes]
      /\ \A b \in Agents : /\ b # a => got'[b] = got[b] /\ result'[b] = result[b]
                           /\ result'[b] = result[b] \/ result'[b] = got[b]
  <2> HIDE DEF NoOutcome
  <2>1. got' \in [Agents -> Outcomes] /\ \A b \in Agents : b # a => got'[b] = got[b]
    BY <1>0, <1>3 DEF SubTypes
  <2>2. CASE got[a] = NoOutcome
    BY <1>0, <2>1, <2>2 DEF SubTypes
  <2>3. CASE got[a] # NoOutcome
    BY <1>0, <2>1, <2>3 DEF SubTypes
  <2> QED BY <2>2, <2>3
<1> DEFINE h == hand[a]
<1>5. h \in Processes /\ IdOf[h] = a
  BY <1>0 DEF CallsHeld, IsolatedCall
<1>6. /\ proc' \in [Processes -> {"dead"} \cup Alive]
      /\ box' \in [Processes -> Seq({"task", "request"})]
      /\ proc'[h] \notin Alive /\ box'[h] = <<>>
      /\ \A q \in Processes \ {h} : proc'[q] = proc[q] /\ box'[q] = box[q]
      /\ served' \subseteq Agents /\ served \ {a} \subseteq served'
      /\ a \notin served => a \notin served'
      /\ (proc[h] \notin Connected => served' = served)
  <2>1. CASE proc[h] \in Alive
    <3>1. EndProcess(h)
      BY <2>1 DEF Terminated
    <3>2. "dead" \notin Alive
      BY DEF Alive, Connected
    <3> HIDE DEF h
    <3>3. /\ proc' \in [Processes -> {"dead"} \cup Alive]
          /\ box' \in [Processes -> Seq({"task", "request"})]
          /\ proc'[h] = "dead" /\ box'[h] = <<>>
          /\ \A q \in Processes \ {h} : proc'[q] = proc[q] /\ box'[q] = box[q]
          /\ served' = IF proc[h] \in Connected THEN served \ {IdOf[h]} ELSE served
          /\ served' \subseteq Agents
      BY ONLY SubTypes, <1>5, <3>1, EndFacts
    <3> QED BY <1>5, <3>2, <3>3
  <2>2. CASE proc[h] \notin Alive
    <3>1. UNCHANGED <<proc, box, served>>
      BY <2>2 DEF Terminated, childVars
    <3>2. proc[h] \notin Connected
      BY <2>2 DEF Alive
    <3> QED BY <1>5, <2>2, <3>1, <3>2 DEF SubTypes, TasksAttended
  <2> QED BY <2>1, <2>2
<1> HIDE DEF h
<1>7. h = hand[a]
  BY DEF h
<1>8. SubTypes'
  BY <1>0, <1>2, <1>4, <1>6 DEF SubTypes
<1>9. \A p \in Processes : proc'[p] \in Alive => p # h /\ proc[p] \in Alive
  BY <1>6
<1>10. CallsHeld'
  BY <1>0, <1>2, MovesOn DEF IsolatedCall
<1>11. \A p \in Processes : p # h /\ Attended(p) => Attended(p)'
  BY <1>0, <1>2, <1>7 DEF Attended
<1>12. TasksAttended'
  <2>1. Len(box'[h]) = 0
    BY <1>6
  <2>2. \A i \in 1..Len(box'[h]) : FALSE
    BY <2>1
  <2>3. \A p \in Processes : HasTask(p)' => p # h /\ HasTask(p)
    BY <1>6, <2>2 DEF HasTask
  <2> QED BY <1>6, <1>11, <2>3 DEF TasksAttended
<1>13. Strays'
  <2>1. \A p \in Processes : proc'[p] \in Alive /\ hand'[IdOf[p]] # p => hand[IdOf[p]] # p
    BY <1>2, <1>7, <1>9
  <2>2. \A b \in Agents : hand'[b] = hand[b] \/ hand'[b] = None
    BY <1>2
  <2> QED BY <1>0, <1>9, <2>1, <2>2 DEF Strays
<1>14. WorkersAttended'
  <2>1. \A p \in Processes : proc'[p] \in {"working", "stuck"} => p # h /\ proc[p] \in {"working", "stuck"}
    BY <1>6, <1>9 DEF Alive, Connected
  <2> QED BY <1>11, <2>1 DEF WorkersAttended, Attended
<1>15. ProcessesServed'
  <2> SUFFICES ASSUME NEW p \in Processes, proc'[p] \in Connected
               PROVE  IdOf[p] \in served' \/ IdOf[p] \in doubled'
    BY DEF ProcessesServed
  <2>1. p # h /\ proc[p] \in Connected
    BY <1>6, <1>9 DEF Alive
  <2>2. CASE IdOf[p] # a
    BY <1>0, <1>6, <2>1, <2>2 DEF ProcessesServed
  <2>3. CASE IdOf[p] = a
    <3>1. CASE proc[h] \in Connected
      BY <1>0, <1>5, <2>1, <2>3, <3>1 DEF Strays, Alive
    <3>2. CASE proc[h] \notin Connected
      BY <1>0, <1>6, <2>1, <3>2 DEF ProcessesServed
    <3> QED BY <3>1, <3>2
  <2> QED BY <2>2, <2>3
<1>16. WaitersMatch'
  BY <1>0, <1>2 DEF WaitersMatch
<1>17. InPlaceResults'
  BY <1>0, <1>1, <1>4 DEF InPlaceResults
<1>18. QuietCalls'
  <2> SUFFICES ASSUME ~troubled PROVE QuietCalls'
    BY <1>0 DEF QuietCalls
  <2>1. \A b, d \in Agents : call'[b] \in IsolatedCall /\ call'[d] \in IsolatedCall => b = d
    BY <1>2 DEF QuietCalls, IsolatedCall
  <2>2. \A b \in Agents : call'[b] # "killing"
    BY <1>0, <1>2 DEF QuietCalls, IsolatedCall
  <2>3. \A i \in 1..Len(mail) : mail[i].from \in Agents /\ mail[i].from # a
    BY <1>0, MailFacts DEF QuietCalls
  <2> QED BY <1>0, <1>2, <1>9, <2>1, <2>2, <2>3 DEF QuietCalls
<1>19. QuietRunsMatch'
  <2> SUFFICES ASSUME ~troubled, NEW b \in isolated
               PROVE  /\ result'[b].why \in {"none", "error", "feedback"}
                      /\ result'[b].why = "feedback" => result'[b].from = b
    BY <1>0 DEF QuietRunsMatch
  <2>1. b \in Agents /\ result[b].why \in {"none", "error", "feedback"}
        /\ (result[b].why = "feedback" => result[b].from = b)
    BY DEF QuietRunsMatch, SubTypes
  <2>2. CASE result'[b] = result[b]
    BY <2>1, <2>2
  <2>3. CASE b = a /\ result'[b] = got[b]
    <3>1. got[a].why = "feedback" /\ got[a].from = a
      BY <1>0 DEF QuietCalls
    <3> QED BY <2>3, <3>1
  <2> QED BY <1>4, <2>1, <2>2, <2>3
<1> QED BY <1>8, <1>10, <1>12, <1>13, <1>14, <1>15, <1>16, <1>17, <1>18, <1>19

\* A run that is cancelled ends all its calls, and leaves the processes of those that
\* launch() has not returned.
LEMMA CancelCallsKeeps == ASSUME SubInv, CancelCalls, Fault PROVE SubInv'
<1> USE Ids DEF SubInv
<1>0. /\ faults' \in Nat /\ troubled' = TRUE /\ waiting' = <<>>
      /\ job' = [job EXCEPT !.todo = {}]
      /\ UNCHANGED <<isolated, team, bus, enlisted, result, mail, proc, box, served, captured, doubled>>
  BY DEF CancelCalls, Fault, childVars, SubTypes
<1>1. /\ status' = [a \in Agents |-> IF call[a] = "running" THEN "idle" ELSE status[a]]
      /\ call' = [a \in Agents |-> IF call[a] \in {"settling", "waiting", "killing"}
                                   THEN "killing" ELSE "idle"]
      /\ hand' = [a \in Agents |-> IF call[a] = "launching" THEN None ELSE hand[a]]
      /\ got' = [a \in Agents |-> IF call[a] = "killing" THEN got[a] ELSE NoOutcome]
  BY DEF CancelCalls
<1>2. NoOutcome \in Outcomes
  BY DEF NoOutcome, Outcome, Outcomes
<1>3. /\ job' \in [kind : {"none", "one", "each", "all"}, todo : SUBSET Agents]
      /\ job'.kind = job.kind /\ job'.todo = {}
  BY <1>0, {} \in SUBSET Agents, TodoFacts
<1>4. SubTypes'
  <2> HIDE DEF NoOutcome
  <2>1. status' \in [Agents -> {"created", "idle", "running", "completed", "failed"}]
    BY <1>1 DEF SubTypes
  <2>2. call' \in [Agents -> {"idle", "running"} \cup IsolatedCall]
    BY <1>1 DEF IsolatedCall
  <2>3. got' \in [Agents -> Outcomes]
    BY <1>1, <1>2 DEF SubTypes
  <2>4. hand' \in [Agents -> Processes \cup {None}]
    BY <1>1 DEF SubTypes
  <2> QED BY <1>0, <1>3, <2>1, <2>2, <2>3, <2>4 DEF SubTypes
<1>5. CallsHeld'
  <2>1. job' = NoJob => job = NoJob
    <3> SUFFICES ASSUME job'.kind = "none" PROVE job = NoJob
      BY DEF NoJob
    <3>1. job.kind = "none" /\ job.todo = {}
      BY <1>3 DEF CallsHeld
    <3> QED BY <3>1 DEF SubTypes, NoJob
  <2>2. \A a \in Agents : call'[a] \in {"idle", "killing"}
    BY <1>1
  <2>3. \A a \in Agents : call[a] = "idle" => call'[a] = "idle"
    BY <1>1
  <2>4. \A a \in Agents : call'[a] = "killing" => a \in isolated
    BY <1>1 DEF CallsHeld, IsolatedCall
  <2>5. \A a \in Agents : call[a] \in {"idle", "running"} \cup IsolatedCall
    BY DEF SubTypes
  <2>6. \A a \in Agents : /\ (call'[a] \in IsolatedCall <=> hand'[a] # None)
                          /\ hand'[a] # None => hand'[a] \in Processes /\ IdOf[hand'[a]] = a
    BY <1>1, <2>5 DEF CallsHeld, IsolatedCall
  <2> QED BY <1>0, <1>3, <2>1, <2>2, <2>3, <2>4, <2>6 DEF CallsHeld, IsolatedCall
<1>6. \A p \in Processes : Attended(p) => Attended(p)'
  <2> SUFFICES ASSUME NEW p \in Processes, Attended(p) PROVE Attended(p)'
    OBVIOUS
  <2>1. CASE hand[IdOf[p]] = p
    <3>1. call[IdOf[p]] \in {"waiting", "killing"}
      BY <2>1 DEF Attended
    <3>2. hand'[IdOf[p]] = p /\ call'[IdOf[p]] = "killing"
      BY <1>1, <2>1, <3>1
    <3> QED BY <3>2 DEF Attended
  <2>2. CASE hand[IdOf[p]] # p
    <3>1. IdOf[p] \in doubled' /\ hand'[IdOf[p]] # p
      BY <1>0, <1>1, <2>2 DEF Attended
    <3> QED BY <3>1 DEF Attended
  <2> QED BY <2>1, <2>2
<1>7. TasksAttended' /\ WorkersAttended' /\ ProcessesServed'
  <2>1. TasksAttended'
    BY <1>0, <1>6 DEF TasksAttended, HasTask
  <2>2. WorkersAttended'
    BY <1>0, <1>6 DEF WorkersAttended, Attended
  <2>3. ProcessesServed'
    BY <1>0 DEF ProcessesServed
  <2> QED BY <2>1, <2>2, <2>3
<1>8. Strays'
  <2>1. \A b \in Agents : hand'[b] = hand[b] \/ hand'[b] = None
    BY <1>1
  <2> QED BY <1>0, <2>1 DEF Strays
<1>9. WaitersMatch'
  <2>1. \A a \in Agents : call'[a] # "waiting"
    BY <1>1
  <2>2. Len(waiting') = 0
    BY <1>0
  <2> QED BY <2>1, <2>2 DEF WaitersMatch
<1>10. InPlaceResults'
  <2> SUFFICES ASSUME NEW a \in Agents \ isolated, result[a] # NoOutcome
               PROVE  /\ result[a].from = a
                      /\ status'[a] = IF result[a].ok THEN "completed" ELSE "failed"
                      /\ call'[a] # "running"
    BY <1>0 DEF InPlaceResults
  <2>1. /\ result[a].from = a /\ call[a] # "running"
        /\ status[a] = IF result[a].ok THEN "completed" ELSE "failed"
    BY DEF InPlaceResults
  <2> QED BY <1>1, <2>1
<1>11. QuietCalls' /\ QuietRunsMatch'
  BY <1>0 DEF QuietCalls, QuietRunsMatch
<1> QED BY <1>4, <1>5, <1>7, <1>8, <1>9, <1>10, <1>11

\* The agents are forgotten; a restart also leaves a server that spun in the old process.
LEMMA DropRecordsKeeps ==
    ASSUME SubInv, DropRecords,
           UNCHANGED <<isolated, team, bus, callVars, waiting, hand, childVars, doubled, faultVars>>,
           mail' = mail \/ mail' = <<>>, captured' \in BOOLEAN, captured' => captured
    PROVE  SubInv'
<1> USE DEF SubInv, callVars, childVars, faultVars
<1>0. /\ enlisted' = {} /\ status' = [a \in Agents |-> "created"]
      /\ result' = [a \in Agents |-> NoOutcome]
  BY DEF DropRecords
<1>1. NoOutcome \in Outcomes /\ NoOutcome.why = "none"
  BY DEF NoOutcome, Outcome, Outcomes
<1> HIDE DEF NoOutcome
<1>2. SubTypes'
  <2>1. mail' \in Seq([kind : {"request", "feedback"}, from : Agents])
    <3> DEFINE M == [kind : {"request", "feedback"}, from : Agents]
    <3>1. mail \in Seq(M)
      BY DEF SubTypes
    <3> HIDE DEF M
    <3>2. <<>> \in Seq(M)
      BY EmptySeq
    <3>3. mail' \in Seq(M)
      BY <3>1, <3>2
    <3> QED BY <3>3 DEF M
  <2>2. result' \in [Agents -> Outcomes]
    BY <1>0, <1>1
  <2> QED BY <1>0, <2>1, <2>2 DEF SubTypes
<1>3. CallsHeld' /\ WaitersMatch'
  BY DEF CallsHeld, WaitersMatch
<1>4. TasksAttended' /\ Strays' /\ WorkersAttended' /\ ProcessesServed'
  BY ProcessesRest
<1>5. InPlaceResults'
  BY <1>0 DEF InPlaceResults
<1>6. QuietCalls'
  <2>1. CASE mail' = mail
    BY <2>1 DEF QuietCalls
  <2>2. CASE mail' = <<>>
    <3>1. Len(mail') <= 1 /\ \A i \in 1..Len(mail') : FALSE
      BY <2>2
    <3> QED BY <3>1 DEF QuietCalls
  <2> QED BY <2>1, <2>2
<1>7. QuietRunsMatch'
  BY <1>0, <1>1 DEF QuietRunsMatch, SubTypes
<1> QED BY <1>2, <1>3, <1>4, <1>5, <1>6, <1>7

\* A process moves on or ends, keeping or losing what it has to read; the calls stay.
LEMMA ChildMoves ==
    ASSUME SubInv, NEW p \in Processes, proc[p] \in Alive,
           NEW st \in {"dead"} \cup Alive, proc' = [proc EXCEPT ![p] = st],
           NEW s \in Seq({"task", "request"}), box' = [box EXCEPT ![p] = s],
           st \notin Connected => s = <<>>,
           \A i \in 1..Len(s) : \E k \in 1..Len(box[p]) : s[i] = box[p][k],
           st \in {"working", "stuck"} => Attended(p),
           served' \subseteq Agents, served \ {IdOf[p]} \subseteq served',
           IdOf[p] \in served /\ IdOf[p] \notin served' => st = "dead",
           st \in Connected /\ proc[p] \notin Connected => IdOf[p] \in served',
           UNCHANGED <<isolated, team, bus, recordVars, callVars, busVars, hand, captured, doubled>>,
           faults' \in Nat, troubled' \in BOOLEAN, troubled => troubled'
    PROVE  SubInv'
<1> USE Ids DEF SubInv, recordVars, callVars, busVars
<1>1. /\ \A q \in Processes : proc'[q] = IF q = p THEN st ELSE proc[q]
      /\ \A q \in Processes : box'[q] = IF q = p THEN s ELSE box[q]
      /\ proc' \in [Processes -> {"dead"} \cup Alive]
      /\ box' \in [Processes -> Seq({"task", "request"})]
  BY DEF SubTypes
<1>2. SubTypes'
  BY <1>1 DEF SubTypes
<1>3. \A q \in Processes : proc'[q] \in Alive => proc[q] \in Alive
  BY <1>1
<1>4. CallsHeld'
  BY DEF CallsHeld
<1>5. \A q \in Processes : Attended(q)' <=> Attended(q)
  BY DEF Attended
<1>6. TasksAttended'
  <2>1. \A q \in Processes : proc'[q] \notin Connected => box'[q] = <<>>
    BY <1>1 DEF TasksAttended
  <2>2. \A q \in Processes : HasTask(q)' => HasTask(q)
    BY <1>1 DEF HasTask
  <2> QED BY <1>5, <2>1, <2>2 DEF TasksAttended
<1>7. Strays'
  BY <1>3 DEF Strays
<1>8. WorkersAttended'
  BY <1>1, <1>5 DEF WorkersAttended, Attended
<1>9. ProcessesServed'
  <2> SUFFICES ASSUME NEW q \in Processes, proc'[q] \in Connected
               PROVE  IdOf[q] \in served' \/ IdOf[q] \in doubled
    BY DEF ProcessesServed
  <2>1. CASE proc[q] \notin Connected
    BY <1>1, <2>1
  <2>2. CASE proc[q] \in Connected /\ (IdOf[q] # IdOf[p] \/ IdOf[p] \in served')
    BY <2>2 DEF ProcessesServed
  <2>3. CASE proc[q] \in Connected /\ IdOf[q] = IdOf[p] /\ IdOf[p] \notin served'
    <3>1. CASE IdOf[p] \in served
      <4>1. st = "dead" /\ "dead" \notin Connected
        BY <2>3, <3>1 DEF Connected
      <4>2. q # p
        BY <1>1, <4>1
      <4> QED BY <2>3, <4>2 DEF Strays, Alive
    <3>2. CASE IdOf[p] \notin served
      BY <2>3, <3>2 DEF ProcessesServed
    <3> QED BY <3>1, <3>2
  <2> QED BY <2>1, <2>2, <2>3
<1>10. WaitersMatch' /\ InPlaceResults'
  BY DEF WaitersMatch, InPlaceResults
<1>11. QuietCalls'
  BY <1>3, MailFacts DEF QuietCalls
<1>12. QuietRunsMatch'
  BY DEF QuietRunsMatch
<1> QED BY <1>2, <1>4, <1>6, <1>7, <1>8, <1>9, <1>10, <1>11, <1>12

\* A process that ends without a report.
LEMMA ChildEnds ==
    ASSUME SubInv, NEW p \in Processes, proc[p] \in Alive, EndProcess(p),
           UNCHANGED <<isolated, team, bus, recordVars, callVars, busVars, hand, captured, doubled>>,
           faults' \in Nat, troubled' \in BOOLEAN, troubled => troubled'
    PROVE  SubInv'
<1> DEFINE s == <<>>
<1>1. s \in Seq({"task", "request"}) /\ Len(s) = 0 /\ s = <<>>
  OBVIOUS
<1>2. proc' = [proc EXCEPT ![p] = "dead"] /\ box' = [box EXCEPT ![p] = s]
      /\ served' = IF proc[p] \in Connected THEN served \ {IdOf[p]} ELSE served
  BY DEF EndProcess
<1> HIDE DEF s
<1>3. \A i \in 1..Len(s) : \E k \in 1..Len(box[p]) : s[i] = box[p][k]
  BY <1>1
<1>4. "dead" \in {"dead"} \cup Alive /\ "dead" \notin {"working", "stuck"} /\ "dead" \notin Connected
  BY DEF Connected
<1>5. /\ served' \subseteq Agents /\ served \ {IdOf[p]} \subseteq served'
      /\ IdOf[p] \in served /\ IdOf[p] \notin served' => "dead" = "dead"
  BY <1>2 DEF SubInv, SubTypes
<1> QED BY <1>1, <1>2, <1>3, <1>4, <1>5, ChildMoves

\* A fault is counted.
LEMMA FaultFacts == ASSUME SubTypes, Fault PROVE faults' \in Nat /\ troubled' = TRUE
BY DEF Fault, SubTypes

\* What a process has to read, when it keeps it.
LEMMA SameBox ==
    ASSUME SubTypes, NEW p \in Processes, box' = box
    PROVE  box' = [box EXCEPT ![p] = box[p]] /\ box[p] \in Seq({"task", "request"})
BY DEF SubTypes

\* connect() and initialize(), or the end before anything is read.
LEMMA ConnectsKeeps == ASSUME SubInv, NEW p \in Processes, Connects(p) PROVE SubInv'
<1> USE Ids DEF SubInv
<1>0. /\ proc[p] = "boot" /\ proc[p] \in Alive /\ proc[p] \notin Connected /\ box' = box
      /\ UNCHANGED <<isolated, team, bus, recordVars, callVars, busVars, hand, captured, doubled>>
  BY DEF Connects, restVars, Alive, Connected
<1>1. box' = [box EXCEPT ![p] = box[p]] /\ box[p] \in Seq({"task", "request"})
  BY <1>0, SameBox
<1>2. box[p] = <<>>
  BY <1>0 DEF TasksAttended
<1>3. \A i \in 1..Len(box[p]) : \E k \in 1..Len(box[p]) : box[p][i] = box[p][k]
  OBVIOUS
<1>4. served \subseteq Agents /\ IdOf[p] \in Agents
  BY DEF SubTypes
<1>5. CASE proc' = [proc EXCEPT ![p] = "ready"] /\ served' = served \cup {IdOf[p]} /\ UNCHANGED faultVars
  <2>1. "ready" \in {"dead"} \cup Alive /\ "ready" \notin {"working", "stuck"}
    BY DEF Alive, Connected
  <2>2. faults' \in Nat /\ troubled' \in BOOLEAN /\ (troubled => troubled')
    BY <1>5 DEF faultVars, SubTypes
  <2>3. served' \subseteq Agents /\ served \ {IdOf[p]} \subseteq served' /\ IdOf[p] \in served'
    BY <1>4, <1>5
  <2> QED BY <1>0, <1>1, <1>2, <1>3, <1>5, <2>1, <2>2, <2>3, ChildMoves
<1>6. CASE /\ proc' = [proc EXCEPT ![p] = "dead"]
           /\ \/ captured /\ UNCHANGED <<served, faultVars>>
              \/ ~captured /\ Fault /\ served' \in {served, served \ {IdOf[p]}}
  <2>1. faults' \in Nat /\ troubled' \in BOOLEAN /\ (troubled => troubled')
    <3>1. faults \in Nat /\ troubled \in BOOLEAN
      BY DEF SubTypes
    <3> QED BY <1>6, <3>1, FaultFacts DEF faultVars
  <2>2. "dead" \in {"dead"} \cup Alive /\ "dead" \notin {"working", "stuck"} /\ "dead" \notin Connected
    BY DEF Connected
  <2>3. served' \subseteq Agents /\ served \ {IdOf[p]} \subseteq served'
    BY <1>4, <1>6
  <2>4. IdOf[p] \in served /\ IdOf[p] \notin served' => "dead" = "dead"
    OBVIOUS
  <2> QED BY <1>0, <1>1, <1>2, <1>3, <1>6, <2>1, <2>2, <2>3, <2>4, ChildMoves
<1> QED BY <1>5, <1>6 DEF Connects

\* The first message is taken for the task.
LEMMA TakesTaskKeeps == ASSUME SubInv, NEW p \in Processes, TakesTask(p) PROVE SubInv'
<1> USE Ids DEF SubInv
<1>0. /\ proc[p] = "ready" /\ proc[p] \in Alive /\ proc[p] \in Connected /\ box[p] # <<>>
      /\ UNCHANGED <<isolated, team, bus, recordVars, callVars, busVars, hand, captured, doubled>>
      /\ faults' \in Nat /\ troubled' \in BOOLEAN /\ (troubled => troubled')
  BY DEF TakesTask, restVars, Alive, Connected, faultVars, SubTypes
<1>1. CASE Head(box[p]) = "task"
  <2> DEFINE s == Tail(box[p])
  <2>1. box[p] \in Seq({"task", "request"})
    BY DEF SubTypes
  <2>2. /\ s \in Seq({"task", "request"}) /\ Len(s) = Len(box[p]) - 1 /\ Len(box[p]) \in Nat
        /\ \A i \in 1..Len(s) : s[i] = box[p][i + 1]
        /\ 1 \in 1..Len(box[p]) /\ box[p][1] = "task"
    BY <1>0, <1>1, <2>1
  <2>3. proc' = [proc EXCEPT ![p] = "working"] /\ box' = [box EXCEPT ![p] = s] /\ served' = served
    BY <1>1 DEF TakesTask
  <2> HIDE DEF s
  <2>4. Attended(p)
    BY <2>2 DEF TasksAttended, HasTask
  <2>5. \A i \in 1..Len(s) : \E k \in 1..Len(box[p]) : s[i] = box[p][k]
    <3>1. \A i \in 1..Len(s) : i + 1 \in 1..Len(box[p])
      BY <2>2
    <3> QED BY <2>2, <3>1
  <2>6. "working" \in {"dead"} \cup Alive /\ "working" \in Connected
    BY DEF Alive, Connected
  <2>7. served' \subseteq Agents /\ served \ {IdOf[p]} \subseteq served'
    BY <2>3 DEF SubTypes
  <2> QED BY <1>0, <2>2, <2>3, <2>4, <2>5, <2>6, <2>7, ChildMoves
<1>2. CASE Head(box[p]) # "task"
  <2>1. EndProcess(p)
    BY <1>2 DEF TakesTask
  <2> QED BY <1>0, <2>1, ChildEnds
<1> QED BY <1>1, <1>2

\* No task came.
LEMMA GivesUpKeeps == ASSUME SubInv, NEW p \in Processes, GivesUp(p) PROVE SubInv'
<1>1. /\ proc[p] \in Alive /\ EndProcess(p)
      /\ UNCHANGED <<isolated, team, bus, recordVars, callVars, busVars, hand, captured, doubled>>
  BY DEF GivesUp, restVars, Alive, Connected
<1>2. faults' \in Nat /\ troubled' \in BOOLEAN /\ (troubled => troubled')
  BY DEF GivesUp, faultVars, SubInv, SubTypes
<1> QED BY <1>1, <1>2, ChildEnds

\* A child dies or blocks.
LEMMA BreaksKeeps == ASSUME SubInv, NEW p \in Processes, Breaks(p) PROVE SubInv'
<1> USE Ids DEF SubInv
<1>0. /\ UNCHANGED <<isolated, team, bus, recordVars, callVars, busVars, hand, captured, doubled>>
      /\ faults' \in Nat /\ troubled' = TRUE
  BY FaultFacts DEF Breaks, restVars
<1>1. CASE proc[p] \in Connected /\ EndProcess(p)
  BY <1>0, <1>1, ChildEnds DEF Alive
<1>2. CASE proc[p] = "working" /\ proc' = [proc EXCEPT ![p] = "stuck"] /\ UNCHANGED <<box, served>>
  <2>1. box' = [box EXCEPT ![p] = box[p]] /\ box[p] \in Seq({"task", "request"})
    BY <1>2, SameBox
  <2>2. Attended(p)
    BY <1>2 DEF WorkersAttended, Attended
  <2>3. "stuck" \in {"dead"} \cup Alive /\ "stuck" \in Connected /\ proc[p] \in Alive /\ proc[p] \in Connected
    BY <1>2 DEF Alive, Connected
  <2>4. served' \subseteq Agents /\ served \ {IdOf[p]} \subseteq served'
    BY <1>2 DEF SubTypes
  <2>5. \A i \in 1..Len(box[p]) : \E k \in 1..Len(box[p]) : box[p][i] = box[p][k]
    OBVIOUS
  <2> QED BY <1>0, <1>2, <2>1, <2>2, <2>3, <2>4, <2>5, ChildMoves
<1> QED BY <1>1, <1>2 DEF Breaks

\* A tool request goes to everybody: that is a fault for the calls that wait.
LEMMA AsksForToolKeeps == ASSUME SubInv, NEW p \in Processes, AsksForTool(p) PROVE SubInv'
<1> USE Ids DEF SubInv
<1>0. /\ Publish("request", IdOf[p], (Agents \cup {None}) \ {IdOf[p]})
      /\ UNCHANGED <<isolated, team, bus, enlisted, status, result, job, call, got, waiting,
                     hand, proc, served, captured, doubled>>
      /\ faults' \in Nat /\ troubled' = TRUE
  BY FaultFacts DEF AsksForTool, restVars, recordVars, callVars
<1>1. /\ box' \in [Processes -> Seq({"task", "request"})]
      /\ mail' = mail \/ mail' = Append(mail, [kind |-> "request", from |-> IdOf[p]])
      /\ \A q \in Processes :
            box'[q] = box[q] \/ (proc[q] \in Connected /\ box'[q] = Append(box[q], "request"))
  <2> DEFINE T == (Agents \cup {None}) \ {IdOf[p]}
  <2>1. Publish("request", IdOf[p], T) /\ "request" \in {"task", "request"} /\ SubTypes
    BY <1>0
  <2> HIDE DEF T
  <2>2. /\ box' \in [Processes -> Seq({"task", "request"})]
        /\ mail' = mail \/ (None \in T /\ mail' = Append(mail, [kind |-> "request", from |-> IdOf[p]]))
        /\ \A q \in Processes :
             box'[q] = box[q] \/ (IdOf[q] \in T /\ proc[q] \in Connected /\ box'[q] = Append(box[q], "request"))
    BY ONLY <2>1, PublishFacts
  <2> QED BY <2>2
<1>2. mail' \in Seq([kind : {"request", "feedback"}, from : Agents])
  <2> DEFINE M == [kind : {"request", "feedback"}, from : Agents]
             m == [kind |-> "request", from |-> IdOf[p]]
  <2>1. mail \in Seq(M) /\ m \in M
    BY DEF SubTypes
  <2>2. mail' = mail \/ mail' = Append(mail, m)
    BY <1>1
  <2> HIDE DEF M, m
  <2>3. mail' \in Seq(M)
    BY <2>1, <2>2
  <2> QED BY <2>3 DEF M
<1>3. SubTypes'
  BY <1>0, <1>1, <1>2 DEF SubTypes
<1>4. CallsHeld'
  BY <1>0 DEF CallsHeld
<1>5. \A q \in Processes : Attended(q)' <=> Attended(q)
  BY <1>0 DEF Attended
<1>6. \A q \in Processes : HasTask(q)' => HasTask(q)
  <2> SUFFICES ASSUME NEW q \in Processes, NEW i \in 1..Len(box'[q]), box'[q][i] = "task"
               PROVE  \E k \in 1..Len(box[q]) : box[q][k] = "task"
    BY DEF HasTask
  <2>1. CASE box'[q] = box[q]
    BY <2>1
  <2>2. CASE box'[q] = Append(box[q], "request")
    <3>1. box[q] \in Seq({"task", "request"}) /\ "request" # "task"
      BY DEF SubTypes
    <3>2. i \in 1..Len(Append(box[q], "request")) /\ Append(box[q], "request")[i] = "task"
      BY <2>2
    <3> QED BY <3>1, <3>2, AppendedTask
  <2> QED BY <1>1, <2>1, <2>2
<1>7. TasksAttended'
  BY <1>0, <1>1, <1>5, <1>6 DEF TasksAttended
<1>8. Strays' /\ WorkersAttended' /\ ProcessesServed'
  <2>1. Strays'
    BY <1>0 DEF Strays
  <2>2. WorkersAttended'
    BY <1>0 DEF WorkersAttended
  <2>3. ProcessesServed'
    BY <1>0 DEF ProcessesServed
  <2> QED BY <2>1, <2>2, <2>3
<1>9. WaitersMatch' /\ InPlaceResults'
  BY <1>0 DEF WaitersMatch, InPlaceResults
<1>10. QuietCalls' /\ QuietRunsMatch'
  BY <1>0 DEF QuietCalls, QuietRunsMatch
<1> QED BY <1>3, <1>4, <1>7, <1>8, <1>9, <1>10

\* A push loop only spins where two processes of an agent have met.
LEMMA ServerSpinsKeeps == ASSUME SubInv, NEW p \in Processes, ServerSpins(p) PROVE SubInv'
<1> USE Ids DEF SubInv
<1>0. /\ proc[p] \in Connected /\ IdOf[p] \notin served /\ captured' = TRUE
      /\ UNCHANGED <<isolated, team, bus, enlisted, status, result, job, call, got, waiting, mail,
                     hand, proc, box, served, doubled, faults, troubled>>
  BY DEF ServerSpins, recordVars, callVars, busVars, childVars, faultVars
<1>1. troubled
  BY <1>0 DEF ProcessesServed, QuietRunsMatch
<1>2. SubTypes'
  BY <1>0 DEF SubTypes
<1>3. CallsHeld' /\ WaitersMatch' /\ InPlaceResults'
  BY <1>0 DEF CallsHeld, WaitersMatch, InPlaceResults
<1>4. TasksAttended' /\ Strays' /\ WorkersAttended' /\ ProcessesServed'
  BY <1>0, ProcessesRest
<1>5. QuietCalls' /\ QuietRunsMatch'
  BY <1>0, <1>1 DEF QuietCalls, QuietRunsMatch
<1> QED BY <1>2, <1>3, <1>4, <1>5

\* The feedback is published and the process ends.
LEMMA ReportsKeeps == ASSUME SubInv, NEW p \in Processes, Reports(p) PROVE SubInv'
<1> USE Ids DEF SubInv
<1>0. /\ proc[p] = "working" /\ EndProcess(p)
      /\ mail' = IF Heard THEN Append(mail, [kind |-> "feedback", from |-> IdOf[p]]) ELSE mail
      /\ UNCHANGED <<isolated, team, bus, enlisted, status, result, job, call, got, waiting,
                     hand, captured, doubled, faults, troubled>>
  BY DEF Reports, restVars, recordVars, callVars, faultVars
<1> DEFINE a == IdOf[p]
<1>1. proc[p] \in Alive /\ proc[p] \in Connected /\ a \in Agents
  BY <1>0 DEF Alive, Connected
<1> DEFINE M == [kind : {"request", "feedback"}, from : Agents]
           m == [kind |-> "feedback", from |-> a]
<1>2. mail \in Seq(M) /\ m \in M /\ m.kind = "feedback" /\ m.from = a
      /\ (mail' = mail \/ mail' = Append(mail, m))
  BY <1>0, <1>1 DEF SubTypes
<1> HIDE DEF m
<1>3. mail' \in Seq([kind : {"request", "feedback"}, from : Agents])
  <2> HIDE DEF M
  <2>1. mail' \in Seq(M)
    BY <1>2
  <2> QED BY <2>1 DEF M
<1> HIDE DEF M
<1>4. /\ proc' \in [Processes -> {"dead"} \cup Alive]
      /\ box' \in [Processes -> Seq({"task", "request"})]
      /\ proc'[p] = "dead" /\ box'[p] = <<>>
      /\ \A q \in Processes \ {p} : proc'[q] = proc[q] /\ box'[q] = box[q]
      /\ served' = served \ {a} /\ served' \subseteq Agents
  BY <1>0, <1>1, EndFacts
<1>5. SubTypes'
  BY <1>0, <1>3, <1>4 DEF SubTypes
<1>6. proc'[p] \notin Alive /\ \A q \in Processes : proc'[q] \in Alive => q # p /\ proc[q] \in Alive
  BY <1>4 DEF Alive, Connected
<1>7. CallsHeld'
  BY <1>0 DEF CallsHeld
<1>8. \A q \in Processes : Attended(q)' <=> Attended(q)
  BY <1>0 DEF Attended
<1>9. TasksAttended'
  <2>1. Len(box'[p]) = 0
    BY <1>4
  <2>2. ~HasTask(p)'
    BY <2>1 DEF HasTask
  <2> QED BY <1>4, <1>8, <2>2 DEF TasksAttended, HasTask
<1>10. Strays'
  BY <1>0, <1>6 DEF Strays
<1>11. WorkersAttended'
  <2>1. \A q \in Processes : proc'[q] \in {"working", "stuck"} => proc[q] \in {"working", "stuck"}
    BY <1>4
  <2> QED BY <1>8, <2>1 DEF WorkersAttended, Attended
<1>12. ProcessesServed'
  <2> SUFFICES ASSUME NEW q \in Processes, proc'[q] \in Connected
               PROVE  IdOf[q] \in served' \/ IdOf[q] \in doubled
    BY <1>0 DEF ProcessesServed
  <2>1. q # p /\ proc[q] \in Connected /\ proc[q] \in Alive
    BY <1>4, <1>6 DEF Alive
  <2>2. CASE IdOf[q] = a
    BY <1>1, <2>1, <2>2 DEF Strays
  <2>3. CASE IdOf[q] # a
    BY <1>4, <2>1, <2>3 DEF ProcessesServed
  <2> QED BY <2>2, <2>3
<1>13. WaitersMatch' /\ InPlaceResults'
  BY <1>0 DEF WaitersMatch, InPlaceResults
<1>14. QuietCalls'
  <2> SUFFICES ASSUME ~troubled PROVE QuietCalls'
    BY <1>0 DEF QuietCalls
  <2>1. hand[a] = p /\ \A q \in Processes \ {p} : IdOf[q] = a => proc[q] \notin Alive
    <3>1. hand[a] = p /\ doubled = {}
      BY <1>1 DEF Strays, QuietRunsMatch
    <3> QED BY <1>1, <3>1 DEF Strays
  <2>2. call[a] = "waiting"
    <3>1. call[a] \in {"waiting", "killing"}
      BY <1>0, <2>1 DEF WorkersAttended
    <3> QED BY <1>1, <3>1 DEF QuietCalls
  <2>3. \A b, d \in Agents : call[b] \in IsolatedCall /\ call[d] \in IsolatedCall => b = d
    BY DEF QuietCalls
  <2>4. \A i \in 1..Len(mail) : FALSE
    <3> SUFFICES ASSUME NEW i \in 1..Len(mail) PROVE FALSE
      OBVIOUS
    <3>1. /\ mail[i].from \in Agents /\ call[mail[i].from] = "waiting"
          /\ \A q \in Processes : IdOf[q] = mail[i].from => proc[q] \notin Alive
      BY MailFacts DEF QuietCalls
    <3>2. mail[i].from = a
      BY <2>2, <2>3, <3>1, <1>1 DEF IsolatedCall
    <3> QED BY <1>1, <3>1, <3>2
  <2>5. Len(mail) = 0
    BY <2>4, MailFacts
  <2>6. Len(mail') <= 1 /\ \A i \in 1..Len(mail') : mail'[i] = m
    <3>1. CASE mail' = mail
      BY <2>4, <2>5, <3>1
    <3>2. CASE mail' = Append(mail, m)
      <4>1. Len(mail') = 1 /\ mail'[1] = m
        BY <1>2, <2>5, <3>2
      <4> QED BY <4>1
    <3> QED BY <1>2, <3>1, <3>2
  <2>7. \A q \in Processes : IdOf[q] = a => proc'[q] \notin Alive
    BY <1>6, <2>1
  <2>8. \A i \in 1..Len(mail') : /\ mail'[i].kind = "feedback"
                                 /\ call'[mail'[i].from] = "waiting"
                                 /\ \A q \in Processes : IdOf[q] = mail'[i].from => proc'[q] \notin Alive
    BY <1>0, <1>2, <2>2, <2>6, <2>7
  <2>9. \A b \in Agents : call'[b] = "killing" =>
           /\ got'[b].why = "feedback" /\ got'[b].from = b
           /\ \A q \in Processes : IdOf[q] = b => proc'[q] \notin Alive
    BY <1>0, <1>6 DEF QuietCalls
  <2> QED BY <1>0, <2>3, <2>6, <2>8, <2>9 DEF QuietCalls
<1>15. QuietRunsMatch'
  BY <1>0 DEF QuietRunsMatch
<1> QED BY <1>5, <1>7, <1>9, <1>10, <1>11, <1>12, <1>13, <1>14, <1>15

-----------------------------------------------------------------------------
(* Memory: sequences of messages *)

\* The newest n elements of a sequence.
LEMMA NewestFacts ==
    ASSUME NEW S, NEW s \in Seq(S), NEW n \in Nat \ {0}, NEW r, r = Newest(s, n)
    PROVE  /\ r \in Seq(S) /\ Len(r) = IF Len(s) > n THEN n ELSE Len(s)
           /\ \A i \in 1..Len(r) : r[i] = s[Len(s) - Len(r) + i]
<1> DEFINE m == IF Len(s) > n THEN Len(s) - n + 1 ELSE 1
<1>1. Len(s) \in Nat /\ m \in 1..Len(s) + 1 /\ Len(s) - m + 1 = IF Len(s) > n THEN n ELSE Len(s)
  OBVIOUS
<1>2. r = SubSeq(s, m, Len(s))
  BY DEF Newest
<1> HIDE DEF m
<1>3. /\ r \in Seq(S) /\ Len(r) = IF m <= Len(s) THEN Len(s) - m + 1 ELSE 0
      /\ \A i \in 1..Len(s) - m + 1 : r[i] = s[m + i - 1]
  BY <1>1, <1>2, SubSeqProperties
<1>4. Len(r) = Len(s) - m + 1
  BY <1>1, <1>3
<1>5. \A i \in 1..Len(r) : m + i - 1 = Len(s) - Len(r) + i
  BY <1>1, <1>4
<1> QED BY <1>1, <1>3, <1>4, <1>5

\* ... are elements of the sequence, and as different as they were.
LEMMA NewestElems ==
    ASSUME NEW S, NEW s \in Seq(S), NEW n \in Nat \ {0}, NEW r, r = Newest(s, n)
    PROVE  Elems(r) \subseteq Elems(s) /\ (NoRepeats(s) => NoRepeats(r))
<1>1. /\ r \in Seq(S) /\ Len(r) = IF Len(s) > n THEN n ELSE Len(s)
      /\ \A i \in 1..Len(r) : r[i] = s[Len(s) - Len(r) + i]
  <2>1. r \in Seq(S) /\ Len(r) = IF Len(s) > n THEN n ELSE Len(s)
    BY NewestFacts
  <2>2. \A i \in 1..Len(r) : r[i] = s[Len(s) - Len(r) + i]
    BY NewestFacts
  <2> QED BY <2>1, <2>2
<1>2. \A i \in 1..Len(r) : Len(s) - Len(r) + i \in 1..Len(s)
  BY <1>1
<1>3. Elems(r) \subseteq Elems(s)
  <2> SUFFICES ASSUME NEW i \in 1..Len(r) PROVE r[i] \in Elems(s)
    BY DEF Elems
  <2>1. PICK k \in 1..Len(s) : k = Len(s) - Len(r) + i
    BY <1>2
  <2>2. r[i] = s[k]
    BY <1>1, <2>1
  <2> QED BY <2>2 DEF Elems
<1>4. ASSUME NoRepeats(s), NEW i \in 1..Len(r), NEW j \in 1..Len(r), i # j PROVE r[i] # r[j]
  <2>1. PICK k \in 1..Len(s) : k = Len(s) - Len(r) + i
    BY <1>2
  <2>2. PICK l \in 1..Len(s) : l = Len(s) - Len(r) + j
    BY <1>2
  <2>3. k # l /\ Len(s) \in Nat /\ Len(r) \in Nat
    BY <1>1, <1>4, <2>1, <2>2
  <2>4. r[i] = s[k] /\ r[j] = s[l]
    BY <1>1, <2>1, <2>2
  <2> QED BY <1>4, <2>3, <2>4 DEF NoRepeats
<1> QED BY <1>3, <1>4 DEF NoRepeats

\* An element is appended.
LEMMA AppendFacts ==
    ASSUME NEW S, NEW s \in Seq(S), NEW e \in S, NEW r, r = Append(s, e)
    PROVE  /\ r \in Seq(S) /\ Len(r) = Len(s) + 1 /\ r[Len(r)] = e
           /\ \A i \in 1..Len(s) : r[i] = s[i]
OBVIOUS

\* Its elements are those of the sequence and the new one,
LEMMA AppendElems ==
    ASSUME NEW S, NEW s \in Seq(S), NEW e \in S
    PROVE  Elems(Append(s, e)) = Elems(s) \cup {e}
<1> DEFINE r == Append(s, e)
<1>1. /\ r \in Seq(S) /\ Len(r) = Len(s) + 1 /\ r[Len(r)] = e /\ Len(s) \in Nat
      /\ \A i \in 1..Len(s) : r[i] = s[i]
  OBVIOUS
<1> HIDE DEF r
<1>2. \A i \in 1..Len(r) : i \in 1..Len(s) \/ i = Len(r)
  BY <1>1
<1>3. 1..Len(s) \subseteq 1..Len(r) /\ Len(r) \in 1..Len(r)
  BY <1>1
<1>4. Elems(r) \subseteq Elems(s) \cup {e}
  BY <1>1, <1>2 DEF Elems
<1>5. Elems(s) \cup {e} \subseteq Elems(r)
  BY <1>1, <1>3 DEF Elems
<1>6. Elems(r) = Elems(s) \cup {e}
  BY <1>4, <1>5
<1> QED BY <1>6 DEF r

\* ... and differ if they did.
LEMMA AppendDiffers ==
    ASSUME NEW S, NEW s \in Seq(S), NEW e \in S, NoRepeats(s), e \notin Elems(s)
    PROVE  NoRepeats(Append(s, e))
<1> DEFINE r == Append(s, e)
<1>1. /\ r \in Seq(S) /\ Len(r) = Len(s) + 1 /\ r[Len(r)] = e /\ Len(s) \in Nat
      /\ \A i \in 1..Len(s) : r[i] = s[i]
  OBVIOUS
<1> HIDE DEF r
<1>2. \A i \in 1..Len(r) : i \in 1..Len(s) \/ i = Len(r)
  BY <1>1
<1>3. \A i \in 1..Len(s) : s[i] # e
  BY DEF Elems
<1>4. NoRepeats(r)
  BY <1>1, <1>2, <1>3 DEF NoRepeats
<1> QED BY <1>4 DEF r

\* A sequence that counts up to the number of messages that have arrived.
Counting(s, n) == \A i \in 1..Len(s) : s[i] = n - Len(s) + i

\* ... is the one InOrder describes.
LEMMA CountingIs ==
    ASSUME NEW s \in Seq(Nat), NEW n \in Nat
    PROVE  s = [i \in 1..Len(s) |-> n - Len(s) + i] <=> Counting(s, n)
<1>1. s = [i \in 1..Len(s) |-> s[i]]
  OBVIOUS
<1> QED BY <1>1 DEF Counting

\* Its newest elements count up to the same number,
LEMMA CountingNewest ==
    ASSUME NEW s \in Seq(Nat), NEW n \in Nat, NEW k \in Nat \ {0}, NEW r, r = Newest(s, k),
           Counting(s, n)
    PROVE  Counting(r, n)
<1>1. /\ r \in Seq(Nat) /\ Len(r) = IF Len(s) > k THEN k ELSE Len(s)
      /\ \A i \in 1..Len(r) : r[i] = s[Len(s) - Len(r) + i]
  BY NewestFacts
<1>2. Len(s) \in Nat /\ Len(r) \in Nat /\ Len(r) <= Len(s)
  BY <1>1
<1>0. \A i \in 1..Len(r) : Len(s) - Len(r) + i \in 1..Len(s)
  BY <1>2
<1>3. ASSUME NEW i \in 1..Len(r) PROVE r[i] = n - Len(r) + i
  <2>1. PICK j \in 1..Len(s) : j = Len(s) - Len(r) + i
    BY <1>0
  <2>2. r[i] = s[j]
    BY <1>1, <2>1
  <2>3. s[j] = n - Len(s) + j
    BY DEF Counting
  <2> QED BY <1>2, <2>1, <2>2, <2>3
<1> QED BY <1>3 DEF Counting

\* ... and with the next message to the next.
LEMMA CountingAppend ==
    ASSUME NEW s \in Seq(Nat), NEW n \in Nat, Counting(s, n), NEW r, r = Append(s, n + 1)
    PROVE  Counting(r, n + 1)
<1>1. /\ r \in Seq(Nat) /\ Len(r) = Len(s) + 1 /\ r[Len(r)] = n + 1
      /\ \A i \in 1..Len(s) : r[i] = s[i]
  BY AppendFacts
<1>2. Len(s) \in Nat
  OBVIOUS
<1>3. ASSUME NEW i \in 1..Len(r) PROVE r[i] = n + 1 - Len(r) + i
  <2>1. CASE i = Len(r)
    BY <1>1, <1>2, <2>1
  <2>2. CASE i \in 1..Len(s)
    <3>1. r[i] = n - Len(s) + i
      BY <1>1, <2>2 DEF Counting
    <3> QED BY <1>1, <1>2, <2>2, <3>1
  <2> QED BY <1>1, <1>2, <2>1, <2>2
<1> QED BY <1>3 DEF Counting

\* No element of the short term repeats in the long term: what FiledOnce says.
LEMMA FiledIsOnce == ASSUME StrategyTypes, Filed PROVE FiledOnce
<1>1. messages \in Seq(Nat) /\ long \in Seq(Nat)
  BY DEF StrategyTypes
<1> DEFINE filed == messages \o long
<1>2. /\ Len(filed) = Len(messages) + Len(long) /\ Len(messages) \in Nat /\ Len(long) \in Nat
      /\ \A i \in 1..Len(messages) + Len(long) :
            filed[i] = IF i <= Len(messages) THEN messages[i] ELSE long[i - Len(messages)]
  BY <1>1, ConcatProperties
<1> HIDE DEF filed
<1>3. ASSUME NEW i \in 1..Len(filed), NEW j \in 1..Len(filed), i < j PROVE filed[i] # filed[j]
  <2>1. CASE j <= Len(messages)
    <3>1. i \in 1..Len(messages) /\ j \in 1..Len(messages) /\ filed[i] = messages[i] /\ filed[j] = messages[j]
      BY <1>2, <1>3, <2>1
    <3> QED BY <1>3, <3>1 DEF Filed, NoRepeats
  <2>2. CASE i > Len(messages)
    <3>1. /\ i - Len(messages) \in 1..Len(long) /\ j - Len(messages) \in 1..Len(long)
          /\ i - Len(messages) # j - Len(messages)
      BY <1>2, <1>3, <2>2
    <3>2. filed[i] = long[i - Len(messages)] /\ filed[j] = long[j - Len(messages)]
      BY <1>2, <1>3, <2>2
    <3> QED BY <3>1, <3>2 DEF Filed, NoRepeats
  <2>3. CASE i <= Len(messages) /\ j > Len(messages)
    <3>1. i \in 1..Len(messages) /\ filed[i] = messages[i]
      BY <1>2, <1>3, <2>3
    <3>2. j - Len(messages) \in 1..Len(long) /\ filed[j] = long[j - Len(messages)]
      BY <1>2, <1>3, <2>3
    <3>3. filed[i] \in Elems(messages) /\ filed[j] \in Elems(long)
      BY <3>1, <3>2 DEF Elems
    <3> QED BY <3>3 DEF Filed
  <2> QED BY <1>2, <2>1, <2>2, <2>3
<1>4. \A i, j \in 1..Len(filed) : i # j => filed[i] # filed[j]
  <2> SUFFICES ASSUME NEW i \in 1..Len(filed), NEW j \in 1..Len(filed), i # j
               PROVE  filed[i] # filed[j]
    OBVIOUS
  <2>1. i < j \/ j < i
    BY <1>2
  <2> QED BY <1>3, <2>1
<1> QED BY <1>4 DEF FiledOnce, filed

\* What is kept when a message is appended and the list cut to its cap.
LEMMA PushFacts ==
    ASSUME NEW s \in Seq(Nat), NEW e \in Nat, NEW n \in Nat \ {0}, NEW r, r = Newest(Append(s, e), n)
    PROVE  /\ r \in Seq(Nat)
           /\ Elems(r) \subseteq Elems(s) \cup {e}
           /\ (NoRepeats(s) /\ e \notin Elems(s) => NoRepeats(r))
<1>1. PICK q : q = Append(s, e)
  OBVIOUS
<1>2. q \in Seq(Nat) /\ Len(q) = Len(s) + 1 /\ Elems(q) = Elems(s) \cup {e}
  BY <1>1, AppendElems
<1>3. NoRepeats(s) /\ e \notin Elems(s) => NoRepeats(q)
  BY <1>1, AppendDiffers
<1>4. r = Newest(q, n)
  BY <1>1
<1>5. r \in Seq(Nat)
  BY ONLY <1>2, <1>4, n \in Nat \ {0}, NewestFacts
<1>6. Elems(r) \subseteq Elems(q) /\ (NoRepeats(q) => NoRepeats(r))
  BY ONLY <1>2, <1>4, n \in Nat \ {0}, NewestElems
<1> QED BY <1>2, <1>3, <1>5, <1>6

\* ... and how long that is.
LEMMA PushLength ==
    ASSUME NEW s \in Seq(Nat), NEW e \in Nat, NEW n \in Nat \ {0}
    PROVE  /\ Len(Newest(Append(s, e), n)) \in Nat
           /\ (Len(s) >= n => Len(Newest(Append(s, e), n)) = n)
           /\ (Len(s) < n => Len(Newest(Append(s, e), n)) = Len(s) + 1)
<1>1. PICK q : q = Append(s, e)
  OBVIOUS
<1>2. q \in Seq(Nat) /\ Len(q) = Len(s) + 1 /\ Len(s) \in Nat
  BY <1>1
<1>3. PICK r : r = Newest(q, n)
  OBVIOUS
<1>4. Len(r) = (IF Len(q) > n THEN n ELSE Len(q))
  BY ONLY <1>2, <1>3, n \in Nat \ {0}, NewestFacts
<1> QED BY <1>1, <1>2, <1>3, <1>4

\* ... counts on.
LEMMA PushCounting ==
    ASSUME NEW s \in Seq(Nat), NEW n \in Nat, Counting(s, n), NEW k \in Nat \ {0},
           NEW r, r = Newest(Append(s, n + 1), k)
    PROVE  Counting(r, n + 1)
<1> DEFINE q == Append(s, n + 1)
<1>1. q \in Seq(Nat)
  BY AppendFacts
<1>2. Counting(q, n + 1)
  BY CountingAppend
<1>3. r = Newest(q, k)
  OBVIOUS
<1> HIDE DEF q
<1> QED BY <1>1, <1>2, <1>3, CountingNewest

\* The element that counts m is m places before the end.
LEMMA CountingElem ==
    ASSUME NEW s \in Seq(Nat), NEW n \in Nat, Counting(s, n), NEW m \in Elems(s)
    PROVE  \E i \in 1..Len(s) : s[i] = m /\ m = n - Len(s) + i
BY DEF Elems, Counting

\* What is given to the model: all but the newest k.
LEMMA AllButFacts ==
    ASSUME NEW s \in Seq(Nat), NEW k \in Nat, NEW i \in 1..Len(s), i + k <= Len(s)
    PROVE  s[i] \in Elems(AllBut(s, k))
<1> DEFINE r == SubSeq(s, 1, Len(s) - k)
<1>1. AllBut(s, k) = r /\ Len(s) \in Nat /\ Len(s) > k
  BY DEF AllBut
<1>2. Len(r) = Len(s) - k /\ r[i] = s[i] /\ i \in 1..Len(s) - k
  BY <1>1, SubSeqProperties
<1> HIDE DEF r
<1> QED BY <1>1, <1>2 DEF Elems

\* It is part of the list.
LEMMA AllButElems ==
    ASSUME NEW s \in Seq(Nat), NEW k \in Nat
    PROVE  Elems(AllBut(s, k)) \subseteq Elems(s)
<1> DEFINE l == IF Len(s) > k THEN Len(s) - k ELSE 0
<1> DEFINE r == SubSeq(s, 1, l)
<1>1. AllBut(s, k) = r /\ Len(s) \in Nat /\ l \in 0..Len(s)
  BY DEF AllBut
<1> HIDE DEF l
<1>2. Len(r) = l /\ \A i \in 1..l : r[i] = s[i]
  BY <1>1, SubSeqProperties
<1> HIDE DEF r
<1>3. 1..l \subseteq 1..Len(s)
  BY <1>1
<1> QED BY <1>1, <1>2, <1>3 DEF Elems

\* The record of one caller.
Questions == [for : {"nothing", "summary", "all", "class"}, cover : SUBSET Nat, upto : Nat]

\* A caller that asks nothing.
LEMMA NotAskingFacts ==
    /\ NotAsking \in Questions
    /\ NotAsking.for = "nothing" /\ NotAsking.cover = {} /\ NotAsking.upto = 0
BY DEF NotAsking, Questions

\* An empty list.
LEMMA ElemsEmpty == Elems(<<>>) = {} /\ NoRepeats(<<>>) /\ \A n : Counting(<<>>, n)
BY DEF Elems, NoRepeats, Counting

\* The cap of the list is positive.
LEMMA Caps ==
    /\ Buffer \in Nat \ {0} /\ MaxTotal \in Nat \ {0} /\ Interval \in Nat \ {0} /\ KeepRecent \in Nat \ {0}
BY MemoryAssumption

\* InOrder as the recurring form of it.
LEMMA InOrderIs ==
    ASSUME StrategyTypes
    PROVE  InOrder <=> (strategy # "lstm" => Counting(messages, arrived))
BY CountingIs DEF InOrder, StrategyTypes

\* ... in the next state too.
LEMMA InOrderIsNext ==
    ASSUME StrategyTypes'
    PROVE  InOrder' <=> (strategy' # "lstm" => Counting(messages', arrived'))
<1>1. messages' \in Seq(Nat) /\ arrived' \in Nat
  BY DEF StrategyTypes
<1> QED BY <1>1, CountingIs DEF InOrder

\* Nothing of the strategy changes.
LEMMA StrategyStutter == ASSUME StrategyInv, UNCHANGED <<configVars, strategyVars>> PROVE StrategyInv'
<1> USE DEF configVars, strategyVars
<1>1. StrategyTypes' /\ Arrivals' /\ Asked'
  BY DEF StrategyInv, StrategyTypes, Arrivals, Asked
<1>2. InOrder' /\ NewestKept'
  BY DEF StrategyInv, InOrder, NewestKept
<1>3. Filed' /\ Covered'
  BY DEF StrategyInv, Filed, Covered
<1> QED BY <1>1, <1>2, <1>3 DEF StrategyInv

-----------------------------------------------------------------------------
(* Memory: the strategies *)

\* What a caller asks the model, or that it asks no more.
LEMMA AskingFacts ==
    ASSUME StrategyTypes, NEW c \in Callers, NEW q \in Questions, asking' = [asking EXCEPT ![c] = q]
    PROVE  /\ asking' \in [Callers -> Questions] /\ asking'[c] = q
           /\ \A d \in Callers \ {c} : asking'[d] = asking[d]
BY DEF StrategyTypes, Questions

\* The message that arrives is a new one.
LEMMA ArrivalIsNew ==
    ASSUME StrategyTypes, Arrivals, arrived' = arrived + 1
    PROVE  /\ arrived' \in Nat /\ arrived' \notin Elems(messages) /\ arrived' \notin Elems(long)
           /\ 0..arrived \subseteq 0..arrived' /\ arrived' \in 0..arrived'
           /\ \A c \in Callers : arrived' \notin asking[c].cover
BY DEF StrategyTypes, Arrivals

\* The list of the full and the summary strategy with the message that arrives.
LEMMA KeptFacts ==
    ASSUME StrategyInv, strategy # "lstm", arrived' = arrived + 1, NEW r,
           r = Newest(Append(messages, arrived'), MaxTotal)
    PROVE  /\ r \in Seq(Nat) /\ Len(r) = IF Len(messages) + 1 > MaxTotal THEN MaxTotal ELSE Len(messages) + 1
           /\ Elems(r) \subseteq Elems(messages) \cup {arrived'} /\ Elems(r) \subseteq 0..arrived'
           /\ NoRepeats(r) /\ Counting(r, arrived')
<1>1. StrategyTypes /\ Arrivals /\ InOrder /\ Filed
  BY DEF StrategyInv
<1>2. messages \in Seq(Nat) /\ arrived \in Nat /\ arrived + 1 \in Nat
  BY <1>1 DEF StrategyTypes
<1>3. arrived' \notin Elems(messages) /\ Elems(messages) \cup {arrived'} \subseteq 0..arrived' /\ NoRepeats(messages)
  BY <1>1, ArrivalIsNew DEF Arrivals, Filed
<1>4. Counting(messages, arrived)
  BY <1>1, InOrderIs
<1>5. r = Newest(Append(messages, arrived + 1), MaxTotal)
  OBVIOUS
<1>6. MaxTotal \in Nat \ {0}
  BY Caps
<1>7. /\ r \in Seq(Nat) /\ Len(r) = IF Len(messages) + 1 > MaxTotal THEN MaxTotal ELSE Len(messages) + 1
      /\ Elems(r) \subseteq Elems(messages) \cup {arrived'}
      /\ (NoRepeats(messages) /\ arrived' \notin Elems(messages) => NoRepeats(r))
  <2>1. PICK new \in Nat : new = arrived'
    BY <1>2
  <2>2. r = Newest(Append(messages, new), MaxTotal)
    BY <2>1
  <2>3. r \in Seq(Nat)
    BY ONLY <1>2, <1>6, <2>2, new \in Nat, PushFacts
  <2>4. Len(r) = IF Len(messages) + 1 > MaxTotal THEN MaxTotal ELSE Len(messages) + 1
    <3>1. Len(messages) \in Nat
      BY <1>2
    <3>2. (Len(messages) >= MaxTotal => Len(r) = MaxTotal) /\ (Len(messages) < MaxTotal => Len(r) = Len(messages) + 1)
      BY ONLY <1>2, <1>6, <2>2, new \in Nat, PushLength
    <3> QED BY <1>6, <3>1, <3>2
  <2>5. Elems(r) \subseteq Elems(messages) \cup {new}
    BY ONLY <1>2, <1>6, <2>2, new \in Nat, PushFacts
  <2>6. NoRepeats(messages) /\ new \notin Elems(messages) => NoRepeats(r)
    BY ONLY <1>2, <1>6, <2>2, new \in Nat, PushFacts
  <2> QED BY <2>1, <2>3, <2>4, <2>5, <2>6
<1>8. Counting(r, arrived + 1)
  BY ONLY <1>2, <1>4, <1>5, <1>6, PushCounting
<1> QED BY <1>3, <1>7, <1>8

\* It is as long as promised.
LEMMA KeptIsLong ==
    ASSUME StrategyInv, strategy # "lstm", arrived' = arrived + 1, strategy' = strategy, wiped' = wiped,
           Len(messages') = IF Len(messages) + 1 > MaxTotal THEN MaxTotal ELSE Len(messages) + 1
    PROVE  NewestKept'
<1>1. Buffer \in Nat /\ MaxTotal \in Nat /\ Len(messages) \in Nat /\ arrived \in Nat /\ wiped \in Nat /\ wiped <= arrived
  BY Caps DEF StrategyInv, StrategyTypes, Arrivals
<1> DEFINE promised == IF strategy = "full" \/ MaxTotal < Buffer THEN MaxTotal ELSE Buffer
<1>2. Len(messages) >= IF arrived - wiped < promised THEN arrived - wiped ELSE promised
  BY DEF StrategyInv, NewestKept
<1>3. promised \in Nat /\ promised <= MaxTotal
  BY <1>1
<1> HIDE DEF promised
<1>4. Len(messages') >= IF arrived' - wiped' < promised THEN arrived' - wiped' ELSE promised
  BY <1>1, <1>2, <1>3
<1> QED BY <1>4 DEF NewestKept, promised

\* Without the lstm strategy nothing is classified.
LEMMA NoClasses ==
    ASSUME Asked, strategy # "lstm", NEW c \in Callers
    PROVE  asking[c].for # "class"
BY DEF Asked

\* FullMemoryStrategy.on_message.
LEMMA RememberAllKeeps ==
    ASSUME StrategyInv, strategy = "full", arrived' = arrived + 1, NEW c \in Callers, RememberAll(c),
           UNCHANGED <<configVars, wiped>>
    PROVE  StrategyInv'
<1>1. StrategyTypes /\ Arrivals /\ Asked /\ InOrder /\ NewestKept /\ Filed /\ Covered
  BY DEF StrategyInv
<1>2. /\ messages' = Newest(Append(messages, arrived'), MaxTotal)
      /\ UNCHANGED <<strategy, hasModel, wiped, long, summary, asking>>
  BY DEF RememberAll, configVars
<1>3. /\ messages' \in Seq(Nat)
      /\ Len(messages') = IF Len(messages) + 1 > MaxTotal THEN MaxTotal ELSE Len(messages) + 1
      /\ Elems(messages') \subseteq 0..arrived' /\ NoRepeats(messages') /\ Counting(messages', arrived')
  BY <1>2, KeptFacts
<1>4. arrived' \in Nat /\ 0..arrived \subseteq 0..arrived' /\ arrived <= arrived'
  BY <1>1, ArrivalIsNew DEF StrategyTypes
<1>5. StrategyTypes'
  BY <1>1, <1>2, <1>3, <1>4 DEF StrategyTypes
<1>6. Arrivals'
  <2>1. Elems(messages') \subseteq 0..arrived' /\ Elems(long') \subseteq 0..arrived' /\ summary' \subseteq 0..arrived'
    BY <1>1, <1>2, <1>3, <1>4 DEF Arrivals
  <2>2. \A d \in Callers : asking'[d].cover \subseteq 0..arrived' /\ asking'[d].upto <= arrived'
    BY <1>1, <1>2, <1>4 DEF Arrivals, StrategyTypes
  <2>3. wiped' <= arrived'
    BY <1>1, <1>2, <1>4 DEF Arrivals, StrategyTypes
  <2> QED BY <2>1, <2>2, <2>3 DEF Arrivals
<1>7. Asked' /\ Covered'
  BY <1>1, <1>2 DEF Asked, Covered
<1>8. InOrder'
  BY <1>3, <1>5, InOrderIsNext
<1>9. NewestKept'
  BY <1>2, <1>3, KeptIsLong
<1>10. Filed'
  <2>1. long' = <<>> /\ NoRepeats(long') /\ Elems(long') = {}
    BY <1>1, <1>2, ElemsEmpty DEF Filed
  <2>2. \A d \in Callers : asking'[d].for # "class"
    BY <1>1, <1>2, NoClasses
  <2> QED BY <1>3, <2>1, <2>2 DEF Filed
<1> QED BY <1>5, <1>6, <1>7, <1>8, <1>9, <1>10 DEF StrategyInv

\* SummaryMemoryStrategy.on_message.
LEMMA RememberSummarisedKeeps ==
    ASSUME StrategyInv, strategy = "summary", arrived' = arrived + 1, NEW c \in Callers, Idle(c),
           RememberSummarised(c), UNCHANGED <<configVars, wiped>>
    PROVE  StrategyInv'
<1>1. StrategyTypes /\ Arrivals /\ Asked /\ InOrder /\ NewestKept /\ Filed /\ Covered
  BY DEF StrategyInv
<1>2. /\ messages' = Newest(Append(messages, arrived'), MaxTotal)
      /\ UNCHANGED <<strategy, hasModel, wiped, long, summary>>
  BY DEF RememberSummarised, configVars
<1>3. /\ messages' \in Seq(Nat)
      /\ Len(messages') = IF Len(messages) + 1 > MaxTotal THEN MaxTotal ELSE Len(messages) + 1
      /\ Elems(messages') \subseteq 0..arrived' /\ NoRepeats(messages') /\ Counting(messages', arrived')
      /\ Elems(messages') \subseteq Elems(messages) \cup {arrived'}
  BY <1>2, KeptFacts
<1>4. arrived' \in Nat /\ 0..arrived \subseteq 0..arrived' /\ arrived <= arrived'
  BY <1>1, ArrivalIsNew DEF StrategyTypes
<1> DEFINE asks == hasModel /\ Len(messages') >= Interval /\ Len(messages') > Buffer
<1> DEFINE cover == Elems(AllBut(messages', Buffer)) \cup summary
<1> DEFINE q == [for |-> "summary", cover |-> cover, upto |-> arrived']
<1>6. asking' = IF asks THEN [asking EXCEPT ![c] = q] ELSE asking
  BY <1>2 DEF RememberSummarised, Ask
<1>5. asks => hasModel
  OBVIOUS
<1> HIDE DEF asks
<1>7. cover \subseteq 0..arrived' /\ q \in Questions /\ q.for = "summary" /\ q.cover = cover /\ q.upto = arrived'
  <2>1. Elems(AllBut(messages', Buffer)) \subseteq Elems(messages')
    BY <1>3, Caps, AllButElems
  <2>2. summary \subseteq 0..arrived'
    BY <1>1, <1>4 DEF Arrivals
  <2>3. cover \subseteq 0..arrived'
    BY <1>3, <2>1, <2>2
  <2>4. 0..arrived' \subseteq Nat
    BY <1>4
  <2> HIDE DEF cover
  <2> QED BY <1>4, <2>3, <2>4 DEF Questions
<1> HIDE DEF q
<1>8. /\ asking' \in [Callers -> Questions]
      /\ \A d \in Callers : \/ asking'[d] = asking[d]
                            \/ d = c /\ asks /\ asking'[d] = q
      /\ (asks => asking'[c] = q)
  BY <1>1, <1>6, <1>7, AskingFacts DEF StrategyTypes, Questions
<1> HIDE DEF cover
<1>9. StrategyTypes'
  BY <1>1, <1>2, <1>3, <1>4, <1>8 DEF StrategyTypes, Questions
<1>10. Arrivals'
  <2>1. Elems(messages') \subseteq 0..arrived' /\ Elems(long') \subseteq 0..arrived' /\ summary' \subseteq 0..arrived'
    BY <1>1, <1>2, <1>3, <1>4 DEF Arrivals
  <2>2. ASSUME NEW d \in Callers PROVE asking'[d].cover \subseteq 0..arrived' /\ asking'[d].upto <= arrived'
    <3>1. CASE asking'[d] = asking[d]
      BY <1>1, <1>4, <3>1 DEF Arrivals, StrategyTypes
    <3>2. CASE asking'[d] = q
      BY <1>4, <1>7, <3>2
    <3> QED BY <1>8, <3>1, <3>2
  <2>3. wiped' <= arrived'
    BY <1>1, <1>2, <1>4 DEF Arrivals, StrategyTypes
  <2> QED BY <2>1, <2>2, <2>3 DEF Arrivals
<1>11. Asked'
  <2>1. asks => hasModel
    BY <1>5
  <2> QED BY <1>1, <1>2, <1>7, <1>8, <2>1 DEF Asked
<1>12. InOrder' /\ NewestKept'
  BY <1>2, <1>3, <1>9, InOrderIsNext, KeptIsLong
<1>13. Filed'
  <2>1. long' = <<>> /\ NoRepeats(long') /\ Elems(long') = {}
    BY <1>1, <1>2, ElemsEmpty DEF Filed
  <2>2. \A d \in Callers : asking'[d].for # "class"
    BY <1>1, <1>7, <1>8, NoClasses
  <2> QED BY <1>3, <2>1, <2>2 DEF Filed
<1>14. ASSUME NEW d \in Callers, asking'[d].for = "all", NEW m \in Elems(messages'), m <= asking'[d].upto
       PROVE  m \in asking'[d].cover
  <2>1. asking'[d] = asking[d]
    BY <1>7, <1>8, <1>14
  <2>2. m \in Nat /\ asking[d].upto <= arrived /\ asking[d].upto \in Nat
    BY <1>1, <1>3, <1>4 DEF Arrivals, StrategyTypes
  <2>3. m # arrived'
    BY <1>1, <1>14, <2>1, <2>2 DEF StrategyTypes
  <2> QED BY <1>1, <1>3, <1>14, <2>1, <2>3 DEF Covered
<1>15. ASSUME asks, NEW m \in Elems(messages'), m + Buffer <= arrived'
       PROVE  m \in asking'[c].cover
  <2>1. PICK i \in 1..Len(messages') : messages'[i] = m /\ m = arrived' - Len(messages') + i
    BY <1>3, <1>4, CountingElem
  <2>2. i + Buffer <= Len(messages') /\ Buffer \in Nat
    BY <1>3, <1>4, <1>15, <2>1, Caps
  <2>3. messages'[i] \in Elems(AllBut(messages', Buffer))
    BY <1>3, <2>2, AllButFacts
  <2> QED BY <1>7, <1>8, <1>15, <2>1, <2>3 DEF cover
<1>16. hasModel' /\ Len(messages') > Buffer /\ Len(messages') >= Interval => asks
  BY <1>2 DEF asks
<1>17. Covered'
  BY <1>14, <1>15, <1>16 DEF Covered
<1> QED BY <1>9, <1>10, <1>11, <1>12, <1>13, <1>17 DEF StrategyInv

\* A message is filed in the short or in the long term.
LEMMA FileFacts ==
    ASSUME StrategyTypes, NoRepeats(messages), NoRepeats(long), Elems(messages) \cap Elems(long) = {},
           NEW m \in Nat, m \notin Elems(messages), m \notin Elems(long), NEW isLong \in BOOLEAN, File(m, isLong)
    PROVE  /\ messages' \in Seq(Nat) /\ long' \in Seq(Nat)
           /\ NoRepeats(messages') /\ NoRepeats(long') /\ Elems(messages') \cap Elems(long') = {}
           /\ Elems(messages') \subseteq Elems(messages) \cup {m} /\ Elems(long') \subseteq Elems(long) \cup {m}
<1>1. messages \in Seq(Nat) /\ long \in Seq(Nat) /\ MaxTotal \in Nat \ {0}
  BY Caps DEF StrategyTypes
<1>2. CASE isLong
  <2>1. long' = Newest(Append(long, m), MaxTotal) /\ messages' = messages
    BY <1>2 DEF File
  <2>2. /\ long' \in Seq(Nat)
        /\ Elems(long') \subseteq Elems(long) \cup {m}
        /\ (NoRepeats(long) /\ m \notin Elems(long) => NoRepeats(long'))
    BY <1>1, <2>1, PushFacts
  <2> QED BY <1>1, <2>1, <2>2
<1>3. CASE ~isLong
  <2>1. messages' = Newest(Append(messages, m), MaxTotal) /\ long' = long
    BY <1>3 DEF File
  <2>2. /\ messages' \in Seq(Nat)
        /\ Elems(messages') \subseteq Elems(messages) \cup {m}
        /\ (NoRepeats(messages) /\ m \notin Elems(messages) => NoRepeats(messages'))
    BY <1>1, <2>1, PushFacts
  <2> QED BY <1>1, <2>1, <2>2
<1> QED BY <1>2, <1>3

\* With the lstm strategy there is no order to keep and no summary.
LEMMA LstmHas ==
    ASSUME strategy' = "lstm", Asked'
    PROVE  InOrder' /\ NewestKept' /\ Covered'
<1>1. InOrder' /\ NewestKept'
  BY DEF InOrder, NewestKept
<1>2. \A c \in Callers : asking'[c].for \notin {"summary", "all"}
  BY DEF Asked
<1>3. Covered'
  BY <1>2 DEF Covered
<1> QED BY <1>1, <1>3

\* LSTMMemoryStrategy.on_message.
LEMMA RememberClassifiedKeeps ==
    ASSUME StrategyInv, strategy = "lstm", arrived' = arrived + 1, NEW c \in Callers, Idle(c),
           RememberClassified(c), UNCHANGED <<configVars, wiped>>
    PROVE  StrategyInv'
<1>1. StrategyTypes /\ Arrivals /\ Asked /\ Filed
  BY DEF StrategyInv
<1>2. UNCHANGED <<strategy, hasModel, wiped, summary>>
  BY DEF RememberClassified, configVars
<1>3. /\ arrived' \in Nat /\ arrived <= arrived' /\ arrived' \notin Elems(messages) /\ arrived' \notin Elems(long)
      /\ 0..arrived \subseteq 0..arrived' /\ arrived' \in 0..arrived'
      /\ \A d \in Callers : arrived' \notin asking[d].cover
  BY <1>1, ArrivalIsNew DEF StrategyTypes
<1>4. Arrivals /\ wiped <= arrived'
  BY <1>1, <1>3 DEF Arrivals, StrategyTypes
<1>5. CASE hasModel
  <2> DEFINE q == [for |-> "class", cover |-> {arrived'}, upto |-> arrived']
  <2>1. asking' = [asking EXCEPT ![c] = q] /\ UNCHANGED <<messages, long>>
    BY <1>5 DEF RememberClassified, Ask
  <2>2. q \in Questions /\ q.for = "class" /\ q.cover = {arrived'} /\ q.upto = arrived'
    BY <1>3 DEF Questions
  <2> HIDE DEF q
  <2>3. /\ asking' \in [Callers -> Questions] /\ asking'[c] = q
        /\ \A d \in Callers \ {c} : asking'[d] = asking[d]
    BY <1>1, <2>1, <2>2, AskingFacts
  <2>4. StrategyTypes'
    BY <1>1, <1>2, <1>3, <2>1, <2>3 DEF StrategyTypes, Questions
  <2>5. Arrivals'
    <3>1. Elems(messages') \subseteq 0..arrived' /\ Elems(long') \subseteq 0..arrived' /\ summary' \subseteq 0..arrived'
      BY <1>1, <1>2, <1>3, <2>1 DEF Arrivals
    <3>2. ASSUME NEW d \in Callers PROVE asking'[d].cover \subseteq 0..arrived' /\ asking'[d].upto <= arrived'
      <4>1. CASE d = c
        BY <1>3, <2>2, <2>3, <4>1
      <4>2. CASE d # c
        BY <1>1, <1>3, <2>3, <4>2 DEF Arrivals, StrategyTypes
      <4> QED BY <4>1, <4>2
    <3> QED BY <1>2, <1>4, <3>1, <3>2 DEF Arrivals
  <2>6. Asked'
    BY <1>1, <1>2, <2>2, <2>3 DEF Asked
  <2>7. InOrder' /\ NewestKept' /\ Covered'
    BY <1>2, <2>6, LstmHas
  <2>8. Filed'
    <3>1. NoRepeats(messages') /\ NoRepeats(long') /\ Elems(messages') \cap Elems(long') = {}
      BY <1>1, <2>1 DEF Filed
    <3>2. ASSUME NEW d \in Callers, asking'[d].for = "class"
          PROVE  /\ asking'[d].cover \cap (Elems(messages') \cup Elems(long')) = {}
                 /\ \A m, n \in asking'[d].cover : m = n
                 /\ \A e \in Callers \ {d} : asking'[e].for = "class" => asking'[d].cover \cap asking'[e].cover = {}
      <4>1. CASE d = c
        <5>1. asking'[d].cover = {arrived'}
          BY <2>2, <2>3, <4>1
        <5>2. \A e \in Callers \ {d} : asking'[e] = asking[e]
          BY <2>3, <4>1
        <5> QED BY <1>3, <2>1, <5>1, <5>2
      <4>2. CASE d # c
        <5>1. asking'[d] = asking[d]
          BY <2>3, <4>2
        <5>2. ASSUME NEW e \in Callers \ {d}, asking'[e].for = "class" PROVE asking'[d].cover \cap asking'[e].cover = {}
          <6>1. CASE e = c
            BY <1>3, <2>2, <2>3, <5>1, <6>1
          <6>2. CASE e # c
            BY <1>1, <2>3, <3>2, <5>1, <5>2, <6>2 DEF Filed
          <6> QED BY <6>1, <6>2
        <5> QED BY <1>1, <2>1, <3>2, <5>1, <5>2 DEF Filed
      <4> QED BY <4>1, <4>2
    <3> QED BY <1>2, <3>1, <3>2 DEF Filed
  <2> QED BY <2>4, <2>5, <2>6, <2>7, <2>8 DEF StrategyInv
<1>6. CASE ~hasModel
  <2>1. PICK isLong \in BOOLEAN : File(arrived', isLong)
    BY <1>6 DEF RememberClassified
  <2>2. asking' = asking
    BY <1>6 DEF RememberClassified
  <2>3. NoRepeats(messages) /\ NoRepeats(long) /\ Elems(messages) \cap Elems(long) = {}
    BY <1>1 DEF Filed
  <2>4. /\ messages' \in Seq(Nat) /\ long' \in Seq(Nat)
        /\ NoRepeats(messages') /\ NoRepeats(long') /\ Elems(messages') \cap Elems(long') = {}
        /\ Elems(messages') \subseteq Elems(messages) \cup {arrived'} /\ Elems(long') \subseteq Elems(long) \cup {arrived'}
    BY <1>1, <1>3, <2>1, <2>3, FileFacts
  <2>5. StrategyTypes'
    BY <1>1, <1>2, <1>3, <2>2, <2>4 DEF StrategyTypes
  <2>6. Arrivals'
    <3>1. Elems(messages') \subseteq 0..arrived' /\ Elems(long') \subseteq 0..arrived' /\ summary' \subseteq 0..arrived'
      BY <1>1, <1>2, <1>3, <2>4 DEF Arrivals
    <3>2. \A d \in Callers : asking'[d].cover \subseteq 0..arrived' /\ asking'[d].upto <= arrived'
      BY <1>1, <1>3, <2>2 DEF Arrivals, StrategyTypes
    <3> QED BY <1>2, <1>4, <3>1, <3>2 DEF Arrivals
  <2>7. Asked'
    BY <1>1, <1>2, <2>2 DEF Asked
  <2>8. InOrder' /\ NewestKept' /\ Covered'
    BY <1>2, <2>7, LstmHas
  <2>9. Filed'
    <3>1. ASSUME NEW d \in Callers, asking'[d].for = "class"
          PROVE  /\ asking'[d].cover \cap (Elems(messages') \cup Elems(long')) = {}
                 /\ \A m, n \in asking'[d].cover : m = n
                 /\ \A e \in Callers \ {d} : asking'[e].for = "class" => asking'[d].cover \cap asking'[e].cover = {}
      <4>1. asking[d].cover \cap (Elems(messages) \cup Elems(long)) = {}
        BY <1>1, <2>2, <3>1 DEF Filed
      <4>2. asking'[d].cover \cap (Elems(messages') \cup Elems(long')) = {}
        BY <1>3, <2>2, <2>4, <4>1
      <4> QED BY <1>1, <2>2, <3>1, <4>2 DEF Filed
    <3> QED BY <1>2, <2>4, <3>1 DEF Filed
  <2> QED BY <2>5, <2>6, <2>7, <2>8, <2>9 DEF StrategyInv
<1> QED BY <1>5, <1>6

\* A message arrives.
LEMMA OnMessageKeeps ==
    ASSUME StrategyInv, NEW c \in Callers, OnMessage(c)
    PROVE  StrategyInv' /\ summary' = summary /\ UNCHANGED <<configVars, sessionVars, talkVars>>
<1>1. strategy \in {"full", "summary", "lstm"}
  BY DEF StrategyInv, StrategyTypes
<1>2. Idle(c) /\ arrived' = arrived + 1 /\ UNCHANGED <<configVars, wiped, sessionVars, talkVars>>
  BY DEF OnMessage
<1>3. CASE strategy = "full"
  <2>1. RememberAll(c)
    BY <1>3 DEF OnMessage
  <2> QED BY <1>2, <1>3, <2>1, RememberAllKeeps DEF RememberAll
<1>4. CASE strategy = "summary"
  <2>1. RememberSummarised(c)
    BY <1>4 DEF OnMessage
  <2> QED BY <1>2, <1>4, <2>1, RememberSummarisedKeeps DEF RememberSummarised
<1>5. CASE strategy = "lstm"
  <2>1. RememberClassified(c)
    BY <1>5 DEF OnMessage
  <2> QED BY <1>2, <1>5, <2>1, RememberClassifiedKeeps DEF RememberClassified
<1> QED BY <1>1, <1>3, <1>4, <1>5

\* A caller gets its answer.
LEMMA AnswerFacts ==
    ASSUME StrategyTypes, NEW c \in Callers, asking' = [asking EXCEPT ![c] = NotAsking]
    PROVE  /\ asking' \in [Callers -> Questions] /\ asking'[c] = NotAsking
           /\ \A d \in Callers \ {c} : asking'[d] = asking[d]
           /\ \A d \in Callers : asking'[d].for # "nothing" => d # c /\ asking'[d] = asking[d]
BY AskingFacts, NotAskingFacts

\* What the answer leaves of the parts that speak of the questions.
LEMMA AnswerKeeps ==
    ASSUME StrategyInv, NEW c \in Callers, asking' = [asking EXCEPT ![c] = NotAsking],
           UNCHANGED <<configVars, arrived>>,
           messages' \in Seq(Nat), long' \in Seq(Nat), summary' \subseteq 0..arrived, wiped' \in 0..arrived,
           Elems(messages') \subseteq 0..arrived, Elems(long') \subseteq 0..arrived
    PROVE  StrategyTypes' /\ Arrivals' /\ Asked'
<1>1. StrategyTypes /\ Arrivals /\ Asked
  BY DEF StrategyInv
<1>2. UNCHANGED <<strategy, hasModel, arrived>>
  BY DEF configVars
<1>3. /\ asking' \in [Callers -> Questions] /\ asking'[c] = NotAsking
      /\ \A d \in Callers \ {c} : asking'[d] = asking[d]
  BY <1>1, AnswerFacts
<1>4. StrategyTypes'
  BY <1>1, <1>2, <1>3 DEF StrategyTypes, Questions
<1>5. Arrivals'
  <2>1. ASSUME NEW d \in Callers PROVE asking'[d].cover \subseteq 0..arrived' /\ asking'[d].upto <= arrived'
    <3>1. CASE d = c
      BY <1>1, <1>2, <1>3, <3>1, NotAskingFacts DEF StrategyTypes
    <3>2. CASE d # c
      BY <1>1, <1>2, <1>3, <3>2 DEF Arrivals
    <3> QED BY <3>1, <3>2
  <2>2. wiped' <= arrived'
    BY <1>1, <1>2 DEF StrategyTypes
  <2> QED BY <1>2, <2>1, <2>2 DEF Arrivals
<1>6. Asked'
  <2>1. ASSUME NEW d \in Callers
        PROVE  /\ asking'[d].for = "nothing" => asking'[d] = NotAsking
               /\ asking'[d].for = "class" => strategy' = "lstm"
               /\ (asking'[d].for \in {"summary", "all"} => strategy' = "summary" /\ hasModel')
               /\ asking'[d].for = "all" => d = "run"
    <3>1. CASE d = c
      BY <1>3, <3>1, NotAskingFacts
    <3>2. CASE d # c
      BY <1>1, <1>2, <1>3, <3>2 DEF Asked
    <3> QED BY <3>1, <3>2
  <2> QED BY <2>1 DEF Asked
<1> QED BY <1>4, <1>5, <1>6

\* _classify returns.
LEMMA ClassifiedKeeps ==
    ASSUME StrategyInv, NEW c \in Callers, Classified(c), asking' = [asking EXCEPT ![c] = NotAsking],
           UNCHANGED <<configVars, arrived>>
    PROVE  StrategyInv'
<1>1. StrategyTypes /\ Arrivals /\ Asked /\ Filed
  BY DEF StrategyInv
<1>2. asking[c].for = "class" /\ UNCHANGED <<summary, wiped, strategy, arrived>>
  BY DEF Classified, configVars
<1>3. PICK m \in asking[c].cover, isLong \in BOOLEAN : File(m, isLong)
  BY DEF Classified
<1>4. strategy = "lstm"
  BY <1>1, <1>2 DEF Asked
<1>5. m \in Nat /\ m \in 0..arrived /\ m \notin Elems(messages) /\ m \notin Elems(long)
  BY <1>1, <1>2, <1>3 DEF Filed, Arrivals, StrategyTypes
<1>6. NoRepeats(messages) /\ NoRepeats(long) /\ Elems(messages) \cap Elems(long) = {}
  BY <1>1 DEF Filed
<1>7. /\ messages' \in Seq(Nat) /\ long' \in Seq(Nat)
      /\ NoRepeats(messages') /\ NoRepeats(long') /\ Elems(messages') \cap Elems(long') = {}
      /\ Elems(messages') \subseteq Elems(messages) \cup {m} /\ Elems(long') \subseteq Elems(long) \cup {m}
  BY <1>1, <1>3, <1>5, <1>6, FileFacts
<1>8. /\ Elems(messages') \subseteq 0..arrived /\ Elems(long') \subseteq 0..arrived
      /\ summary' \subseteq 0..arrived /\ wiped' \in 0..arrived
  BY <1>1, <1>2, <1>5, <1>7 DEF Arrivals, StrategyTypes
<1>9. StrategyTypes' /\ Arrivals' /\ Asked'
  BY <1>7, <1>8, AnswerKeeps
<1>10. InOrder' /\ NewestKept' /\ Covered'
  BY <1>2, <1>4, <1>9, LstmHas
<1>11. Filed'
  <2>1. ASSUME NEW d \in Callers, asking'[d].for = "class"
        PROVE  /\ asking'[d].cover \cap (Elems(messages') \cup Elems(long')) = {}
               /\ \A k, n \in asking'[d].cover : k = n
               /\ \A e \in Callers \ {d} : asking'[e].for = "class" => asking'[d].cover \cap asking'[e].cover = {}
    <3>1. d # c /\ asking'[d] = asking[d]
      BY <1>1, <2>1, AnswerFacts
    <3>2. asking[d].cover \cap (Elems(messages) \cup Elems(long)) = {} /\ asking[d].cover \cap asking[c].cover = {}
      BY <1>1, <1>2, <2>1, <3>1 DEF Filed
    <3>3. asking'[d].cover \cap (Elems(messages') \cup Elems(long')) = {}
      BY <1>3, <1>7, <3>1, <3>2
    <3>4. \A k, n \in asking'[d].cover : k = n
      BY <1>1, <2>1, <3>1 DEF Filed
    <3>5. ASSUME NEW e \in Callers \ {d}, asking'[e].for = "class" PROVE asking'[d].cover \cap asking'[e].cover = {}
      <4>1. asking'[e] = asking[e]
        BY <1>1, <3>5, AnswerFacts
      <4> QED BY <1>1, <2>1, <3>1, <3>5, <4>1 DEF Filed
    <3> QED BY <3>3, <3>4, <3>5
  <2> QED BY <1>2, <1>4, <1>7, <2>1 DEF Filed
<1> QED BY <1>9, <1>10, <1>11 DEF StrategyInv

\* A question about a summary.
LEMMA SummaryAsked ==
    ASSUME StrategyInv, NEW c \in Callers, asking[c].for \in {"summary", "all"}, summary' \in {asking[c].cover, summary}
    PROVE  /\ strategy = "summary" /\ hasModel /\ summary' \subseteq 0..arrived
           /\ long = <<>> /\ Elems(long) = {} /\ NoRepeats(long) /\ wiped \in 0..arrived /\ arrived \in Nat
           /\ Counting(messages, arrived) /\ messages \in Seq(Nat) /\ NoRepeats(messages)
<1>1. strategy = "summary" /\ hasModel
  BY DEF StrategyInv, Asked
<1>2. summary' \subseteq 0..arrived /\ wiped \in 0..arrived /\ arrived \in Nat
  BY DEF StrategyInv, Arrivals, StrategyTypes
<1>3. long = <<>> /\ Elems(long) = {} /\ NoRepeats(long) /\ NoRepeats(messages)
  BY <1>1, ElemsEmpty DEF StrategyInv, Filed
<1>4. Counting(messages, arrived) /\ messages \in Seq(Nat)
  BY <1>1, InOrderIs DEF StrategyInv, StrategyTypes
<1> QED BY <1>1, <1>2, <1>3, <1>4

\* _generate_summary returns.
LEMMA SummarisedKeeps ==
    ASSUME StrategyInv, NEW c \in Callers, Summarised(c), asking' = [asking EXCEPT ![c] = NotAsking],
           UNCHANGED <<configVars, arrived>>
    PROVE  StrategyInv'
<1>1. StrategyTypes /\ Arrivals /\ Asked /\ InOrder /\ NewestKept /\ Filed /\ Covered
  BY DEF StrategyInv
<1>2. /\ asking[c].for = "summary" /\ summary' \in {asking[c].cover, summary}
      /\ messages' = Newest(messages, Buffer) /\ UNCHANGED <<long, wiped, strategy, hasModel, arrived>>
  BY DEF Summarised, configVars
<1>3. /\ strategy = "summary" /\ hasModel /\ summary' \subseteq 0..arrived
      /\ long = <<>> /\ Elems(long) = {} /\ NoRepeats(long) /\ wiped \in 0..arrived /\ arrived \in Nat
      /\ Counting(messages, arrived) /\ messages \in Seq(Nat) /\ NoRepeats(messages)
  BY <1>2, SummaryAsked
<1>4. Buffer \in Nat \ {0} /\ MaxTotal \in Nat /\ Len(messages) \in Nat
  BY <1>3, Caps
<1>5. messages' \in Seq(Nat) /\ Len(messages') = (IF Len(messages) > Buffer THEN Buffer ELSE Len(messages))
  BY <1>2, <1>3, <1>4, NewestFacts
<1>6. Elems(messages') \subseteq Elems(messages) /\ NoRepeats(messages')
  BY <1>2, <1>3, <1>4, NewestElems
<1>7. Counting(messages', arrived)
  BY <1>2, <1>3, <1>4, CountingNewest
<1>8. Elems(messages') \subseteq 0..arrived /\ Elems(long') \subseteq 0..arrived
  BY <1>1, <1>2, <1>3, <1>6 DEF Arrivals
<1>14. long' \in Seq(Nat) /\ wiped' \in 0..arrived
  BY <1>2, <1>3
<1>9. StrategyTypes' /\ Arrivals' /\ Asked'
  BY <1>3, <1>5, <1>8, <1>14, AnswerKeeps
<1>10. InOrder'
  BY <1>2, <1>7, <1>9, InOrderIsNext
<1>11. NewestKept'
  <2>1. Len(messages) >= IF arrived - wiped < (IF MaxTotal < Buffer THEN MaxTotal ELSE Buffer)
                         THEN arrived - wiped ELSE (IF MaxTotal < Buffer THEN MaxTotal ELSE Buffer)
    BY <1>1, <1>3 DEF NewestKept
  <2>2. Len(messages') >= IF arrived - wiped < (IF MaxTotal < Buffer THEN MaxTotal ELSE Buffer)
                         THEN arrived - wiped ELSE (IF MaxTotal < Buffer THEN MaxTotal ELSE Buffer)
    BY <1>3, <1>4, <1>5, <2>1
  <2> QED BY <1>2, <1>3, <2>2 DEF NewestKept
<1>12. Filed'
  <2>1. \A d \in Callers : asking'[d].for # "class"
    BY <1>2, <1>3, <1>9, NoClasses DEF Asked
  <2> QED BY <1>2, <1>3, <1>6, <2>1 DEF Filed
<1>13. Covered'
  <2>1. ASSUME NEW d \in Callers, asking'[d].for = "all", NEW m \in Elems(messages'), m <= asking'[d].upto
        PROVE  m \in asking'[d].cover
    <3>1. asking'[d] = asking[d]
      BY <1>1, <2>1, AnswerFacts
    <3> QED BY <1>1, <1>6, <2>1, <3>1 DEF Covered
  <2>2. ASSUME NEW m \in Elems(messages'), m + Buffer <= arrived PROVE FALSE
    <3>1. PICK i \in 1..Len(messages') : m = arrived - Len(messages') + i
      BY <1>3, <1>5, <1>7, CountingElem
    <3> QED BY <1>3, <1>4, <1>5, <2>2, <3>1
  <2> QED BY <1>2, <2>1, <2>2 DEF Covered
<1> QED BY <1>9, <1>10, <1>11, <1>12, <1>13 DEF StrategyInv

\* A list that is emptied, with no question about the rest of it.
LEMMA WipedHas ==
    ASSUME StrategyTypes', strategy' # "lstm", messages' = <<>>, wiped' = arrived', long' = <<>>, Asked'
    PROVE  InOrder' /\ NewestKept' /\ Filed' /\ Covered'
<1>1. Elems(messages') = {} /\ NoRepeats(messages') /\ Elems(long') = {} /\ NoRepeats(long')
      /\ Counting(messages', arrived')
  BY ElemsEmpty
<1>2. InOrder'
  BY <1>1, InOrderIsNext
<1>3. NewestKept'
  <2>1. arrived' \in Nat /\ wiped' \in Nat /\ wiped' = arrived'
    BY DEF StrategyTypes
  <2>2. \A k, l \in Nat, promised \in Nat : k = l => 0 >= (IF k - l < promised THEN k - l ELSE promised)
    OBVIOUS
  <2>3. Len(messages') = 0
    OBVIOUS
  <2>4. MaxTotal \in Nat /\ Buffer \in Nat
    BY Caps
  <2> QED BY <2>1, <2>2, <2>3, <2>4 DEF NewestKept
<1>4. Filed'
  <2>1. \A d \in Callers : asking'[d].for # "class"
    BY DEF Asked
  <2> QED BY <1>1, <2>1 DEF Filed
<1>5. Covered'
  BY <1>1 DEF Covered
<1> QED BY <1>2, <1>3, <1>4, <1>5

\* ... at the end of a session.
LEMMA SummarisedAllKeeps ==
    ASSUME StrategyInv, NEW c \in Callers, SummarisedAll(c), asking' = [asking EXCEPT ![c] = NotAsking],
           UNCHANGED <<configVars, arrived>>
    PROVE  StrategyInv'
<1>1. /\ asking[c].for = "all" /\ summary' \in {asking[c].cover, summary}
      /\ messages' = <<>> /\ wiped' = arrived /\ UNCHANGED <<long, strategy, arrived>>
  BY DEF SummarisedAll, configVars
<1>2. /\ strategy = "summary" /\ summary' \subseteq 0..arrived
      /\ long = <<>> /\ Elems(long) = {} /\ arrived \in Nat
  BY <1>1, SummaryAsked
<1>3. messages' \in Seq(Nat) /\ long' \in Seq(Nat) /\ Elems(messages') = {} /\ Elems(long') = {} /\ wiped' \in 0..arrived
  BY <1>1, <1>2, ElemsEmpty
<1>4. StrategyTypes' /\ Arrivals' /\ Asked'
  BY <1>2, <1>3, AnswerKeeps
<1>5. InOrder' /\ NewestKept' /\ Filed' /\ Covered'
  BY <1>1, <1>2, <1>4, WipedHas
<1> QED BY <1>4, <1>5 DEF StrategyInv

\* The model answers or fails.
LEMMA ModelReturnsKeeps ==
    ASSUME StrategyInv, NEW c \in Callers, ModelReturns(c)
    PROVE  StrategyInv' /\ UNCHANGED <<configVars, sessionVars, talkVars>>
<1>1. asking' = [asking EXCEPT ![c] = NotAsking] /\ UNCHANGED <<configVars, arrived, sessionVars, talkVars>>
  BY DEF ModelReturns
<1>2. Classified(c) \/ Summarised(c) \/ SummarisedAll(c)
  BY DEF ModelReturns
<1> QED BY <1>1, <1>2, ClassifiedKeeps, SummarisedKeeps, SummarisedAllKeeps

-----------------------------------------------------------------------------
(* Memory: sessions *)

\* on_session_end of the strategy.
LEMMA EndStrategyKeeps ==
    ASSUME StrategyInv, EndStrategy
    PROVE  StrategyInv' /\ summary' = summary /\ UNCHANGED <<configVars, sessionVars, talkVars>>
<1>1. StrategyTypes /\ Arrivals /\ Asked /\ InOrder /\ NewestKept /\ Filed /\ Covered
  BY DEF StrategyInv
<1>2. /\ asking["run"] = NotAsking
      /\ UNCHANGED <<configVars, arrived, long, summary, sessionVars, talkVars>>
      /\ UNCHANGED <<strategy, hasModel>>
  BY DEF EndStrategy, Idle, configVars
<1>3. CASE strategy = "full"
  <2>1. UNCHANGED <<configVars, strategyVars>>
    BY <1>2, <1>3 DEF EndStrategy, strategyVars
  <2> QED BY <1>2, <2>1, StrategyStutter
<1>4. CASE strategy = "lstm"
  <2>1. messages' = <<>> /\ wiped' = arrived /\ asking' = asking
    BY <1>4 DEF EndStrategy
  <2>2. messages' \in Seq(Nat) /\ Elems(messages') = {} /\ NoRepeats(messages') /\ wiped' \in Nat /\ wiped' <= arrived
    BY <1>1, <2>1, ElemsEmpty DEF StrategyTypes
  <2>3. StrategyTypes'
    BY <1>1, <1>2, <2>1, <2>2 DEF StrategyTypes
  <2>4. Arrivals' /\ Asked'
    BY <1>1, <1>2, <2>1, <2>2 DEF Arrivals, Asked
  <2>5. InOrder' /\ NewestKept' /\ Covered'
    BY <1>2, <1>4, <2>4, LstmHas
  <2>6. Filed'
    <3>1. NoRepeats(long') /\ Elems(long') = Elems(long)
      BY <1>1, <1>2 DEF Filed
    <3>2. \A c \in Callers : asking'[c].for = "class" =>
            /\ asking'[c].cover \cap Elems(long) = {}
            /\ \A m, n \in asking'[c].cover : m = n
            /\ \A d \in Callers \ {c} : asking'[d].for = "class" => asking'[c].cover \cap asking'[d].cover = {}
      BY <1>1, <2>1 DEF Filed
    <3> QED BY <1>2, <1>4, <2>2, <3>1, <3>2 DEF Filed
  <2> QED BY <1>2, <2>3, <2>4, <2>5, <2>6 DEF StrategyInv
<1>5. CASE strategy = "summary" /\ ~(hasModel /\ messages # <<>>)
  <2>1. UNCHANGED <<configVars, strategyVars>>
    BY <1>2, <1>5 DEF EndStrategy, strategyVars
  <2> QED BY <1>2, <2>1, StrategyStutter
<1>6. CASE strategy = "summary" /\ hasModel /\ messages # <<>>
  <2> DEFINE cover == Elems(messages) \cup summary
  <2> DEFINE q == [for |-> "all", cover |-> cover, upto |-> arrived]
  <2>1. asking' = [asking EXCEPT !["run"] = q] /\ UNCHANGED <<messages, wiped>>
    BY <1>6 DEF EndStrategy
  <2>12. arrived \in Nat
    BY <1>1 DEF StrategyTypes
  <2>13. Elems(messages) \subseteq 0..arrived /\ summary \subseteq 0..arrived
    BY <1>1 DEF Arrivals
  <2>14. 0..arrived \subseteq Nat
    BY <2>12
  <2>2. cover \subseteq 0..arrived /\ 0..arrived \subseteq Nat /\ arrived \in Nat
    BY <2>12, <2>13, <2>14
  <2>3. q \in Questions /\ q.for = "all" /\ q.cover = cover /\ q.upto = arrived
    <3> HIDE DEF cover
    <3> QED BY <2>2 DEF Questions
  <2> HIDE DEF q
  <2>4. "run" \in Callers
    BY DEF Callers
  <2>5. /\ asking' \in [Callers -> Questions] /\ asking'["run"] = q
        /\ \A d \in Callers \ {"run"} : asking'[d] = asking[d]
    BY <1>1, <2>1, <2>3, <2>4, AskingFacts
  <2>6. StrategyTypes'
    BY <1>1, <1>2, <2>1, <2>5 DEF StrategyTypes, Questions
  <2>7. Arrivals'
    <3>1. ASSUME NEW d \in Callers PROVE asking'[d].cover \subseteq 0..arrived' /\ asking'[d].upto <= arrived'
      <4>1. CASE d = "run"
        BY <1>2, <2>2, <2>3, <2>5, <4>1
      <4>2. CASE d # "run"
        BY <1>1, <1>2, <2>5, <4>2 DEF Arrivals
      <4> QED BY <4>1, <4>2
    <3> QED BY <1>1, <1>2, <2>1, <3>1 DEF Arrivals
  <2>8. Asked'
    BY <1>1, <1>2, <1>6, <2>3, <2>5 DEF Asked
  <2>9. InOrder' /\ NewestKept'
    BY <1>1, <1>2, <2>1 DEF InOrder, NewestKept
  <2>10. Filed'
    <3>1. \A d \in Callers : asking'[d].for # "class"
      BY <1>2, <1>6, <2>8 DEF Asked
    <3> QED BY <1>1, <1>2, <1>6, <2>1, <3>1 DEF Filed
  <2>11. Covered'
    <3>1. ASSUME NEW d \in Callers, asking'[d].for = "all", NEW m \in Elems(messages)
          PROVE  m \in asking'[d].cover
      <4>1. d = "run"
        BY <2>8, <3>1 DEF Asked
      <4> QED BY <2>3, <2>5, <3>1, <4>1
    <3>2. ASSUME NEW m, \E e \in Callers : m \in asking[e].cover
          PROVE  \E e \in Callers : m \in asking'[e].cover
      <4>1. PICK e \in Callers : m \in asking[e].cover
        BY <3>2
      <4>2. e # "run"
        BY <1>2, <4>1, NotAskingFacts
      <4> QED BY <2>5, <4>1, <4>2
    <3>3. ASSUME Len(messages) > Buffer, Len(messages) >= Interval, NEW m \in Elems(messages), m + Buffer <= arrived
          PROVE  \E e \in Callers : m \in asking'[e].cover
      BY <1>1, <1>6, <2>12, <3>2, <3>3 DEF Covered
    <3> QED BY <1>2, <2>1, <3>1, <3>3 DEF Covered
  <2> QED BY <1>2, <2>6, <2>7, <2>8, <2>9, <2>10, <2>11 DEF StrategyInv
<1>7. strategy \in {"full", "summary", "lstm"}
  BY <1>1 DEF StrategyTypes
<1> QED BY <1>3, <1>4, <1>5, <1>6, <1>7

\* A memory with nothing in it.
LEMMA EmptyMemory ==
    ASSUME strategy' \in {"full", "summary", "lstm"}, hasModel' \in BOOLEAN, arrived' \in Nat,
           messages' = <<>>, long' = <<>>, summary' = {}, wiped' = arrived',
           asking' = [c \in Callers |-> NotAsking]
    PROVE  StrategyInv'
<1>1. /\ asking' \in [Callers -> Questions]
      /\ \A c \in Callers : asking'[c] = NotAsking /\ asking'[c].for = "nothing"
                            /\ asking'[c].cover = {} /\ asking'[c].upto = 0
  BY NotAskingFacts
<1>2. messages' \in Seq(Nat) /\ long' \in Seq(Nat) /\ Elems(messages') = {} /\ Elems(long') = {}
      /\ NoRepeats(messages') /\ NoRepeats(long')
  BY ElemsEmpty
<1>3. StrategyTypes'
  BY <1>1, <1>2 DEF StrategyTypes, Questions
<1>4. Arrivals' /\ Asked'
  BY <1>1, <1>2 DEF Arrivals, Asked
<1>5. InOrder' /\ NewestKept' /\ Filed' /\ Covered'
  <2>1. CASE strategy' = "lstm"
    <3>1. Filed'
      BY <1>1, <1>2 DEF Filed
    <3> QED BY <1>4, <2>1, <3>1, LstmHas
  <2>2. CASE strategy' # "lstm"
    BY <1>3, <1>4, <2>2, WipedHas
  <2> QED BY <2>1, <2>2
<1> QED BY <1>3, <1>4, <1>5 DEF StrategyInv

\* The stored sessions as rows.
Rows == [id : Nat, context : Contexts]

\* What save_session stores: every other session as it was, and this one at the end.
LEMMA StoredFacts ==
    ASSUME SessionTypes, SessionsSound, session # 0, NEW context \in Contexts, NEW r, r = Stored(context)
    PROVE  /\ r \in Seq(Rows)
           /\ \A i, j \in 1..Len(r) : i < j => r[i].id < r[j].id
           /\ \A i \in 1..Len(r) : r[i].id <= session
<1> DEFINE row == {i \in 1..Len(disk) : disk[i].id = session}
<1> DEFINE others == IF row = {} THEN disk ELSE RemoveAt(disk, CHOOSE i \in row : TRUE)
<1> DEFINE new == [id |-> session, context |-> context]
<1>1. r = Append(others, new)
  BY DEF Stored
<1>2. /\ disk \in Seq(Rows) /\ session \in Nat /\ Len(disk) \in Nat
      /\ \A i, j \in 1..Len(disk) : i < j => disk[i].id < disk[j].id
      /\ \A i \in 1..Len(disk) : disk[i].id <= session
      /\ \A i \in 1..Len(disk) : disk[i].id \in Nat
  <2>1. disk \in Seq(Rows) /\ session \in Nat
    BY DEF SessionTypes, Rows
  <2>2. Len(disk) \in Nat /\ \A i \in 1..Len(disk) : disk[i] \in Rows
    BY <2>1
  <2>3. \A i \in 1..Len(disk) : disk[i].id \in Nat
    BY <2>2 DEF Rows
  <2> QED BY <2>1, <2>2, <2>3 DEF SessionsSound
<1>3. /\ others \in Seq(Rows)
      /\ \A i, j \in 1..Len(others) : i < j => others[i].id < others[j].id
      /\ \A i \in 1..Len(others) : others[i].id < session
  <2>1. CASE row = {}
    <3>1. others = disk
      BY <2>1
    <3>2. \A i \in 1..Len(disk) : disk[i].id < session
      BY <1>2, <2>1
    <3> HIDE DEF others
    <3> QED BY <1>2, <3>1, <3>2
  <2>2. CASE row # {}
    <3>1. PICK n \in 1..Len(disk) : disk[n].id = session /\ others = RemoveAt(disk, n)
      BY <2>2
    <3> HIDE DEF others, row
    <3>2. /\ others \in Seq(Rows) /\ Len(others) = Len(disk) - 1
          /\ \A i \in 1..Len(others) : others[i] = disk[IF i < n THEN i ELSE i + 1]
      BY <1>2, <3>1, RemoveAtFacts
    <3>3. \A i \in 1..Len(disk) : i # n => disk[i].id < session
      BY <1>2, <3>1
    <3>7. \A i \in 1..Len(others) : /\ (IF i < n THEN i ELSE i + 1) \in 1..Len(disk)
                                    /\ (IF i < n THEN i ELSE i + 1) # n
      BY <1>2, <3>1, <3>2
    <3>4. \A i \in 1..Len(others) : \E k \in 1..Len(disk) :
            others[i] = disk[k] /\ k = (IF i < n THEN i ELSE i + 1) /\ k # n
      BY <3>2, <3>7
    <3>5. ASSUME NEW i \in 1..Len(others), NEW j \in 1..Len(others), i < j PROVE others[i].id < others[j].id
      <4>1. PICK k \in 1..Len(disk) : others[i] = disk[k] /\ k = (IF i < n THEN i ELSE i + 1)
        BY <3>4
      <4>2. PICK l \in 1..Len(disk) : others[j] = disk[l] /\ l = (IF j < n THEN j ELSE j + 1)
        BY <3>4
      <4>3. k < l
        BY <1>2, <3>1, <3>2, <3>5, <4>1, <4>2
      <4> QED BY <1>2, <4>1, <4>2, <4>3
    <3>6. \A i \in 1..Len(others) : others[i].id < session
      BY <3>3, <3>4
    <3> QED BY <3>2, <3>5, <3>6
  <2> QED BY <2>1, <2>2
<1>4. new \in Rows /\ new.id = session
  BY <1>2 DEF Rows
<1> HIDE DEF others, row, new
<1>5. /\ r \in Seq(Rows) /\ Len(r) = Len(others) + 1 /\ r[Len(r)] = new /\ Len(others) \in Nat
      /\ \A i \in 1..Len(others) : r[i] = others[i]
  BY <1>1, <1>3, <1>4
<1>9. \A i \in 1..Len(r) : r[i] \in Rows
  BY <1>5
<1>6. \A i \in 1..Len(r) : r[i].id \in Nat
  BY <1>9 DEF Rows
<1>7. ASSUME NEW i \in 1..Len(r), NEW j \in 1..Len(r), i < j PROVE r[i].id < r[j].id
  <2>1. i \in 1..Len(others) /\ (j \in 1..Len(others) \/ j = Len(r))
    BY <1>5, <1>7
  <2> QED BY <1>3, <1>4, <1>5, <1>7, <2>1
<1>8. ASSUME NEW i \in 1..Len(r) PROVE r[i].id <= session
  <2>1. i \in 1..Len(others) \/ i = Len(r)
    BY <1>5
  <2>2. \A k \in 1..Len(others) : r[k].id < session
    BY <1>3, <1>5
  <2> QED BY <1>2, <1>4, <1>5, <1>6, <2>1, <2>2
<1> QED BY <1>5, <1>7, <1>8

\* What the strategy remembers can be stored.
LEMMA ContextFacts == ASSUME StrategyTypes PROVE Context \in Contexts
<1>1. Elems(long) \subseteq Nat
  BY DEF StrategyTypes, Elems
<1>2. Newest(messages, Buffer) \in Seq(Nat)
  <2>1. PICK r : r = Newest(messages, Buffer)
    OBVIOUS
  <2>2. messages \in Seq(Nat) /\ Buffer \in Nat \ {0}
    BY Caps DEF StrategyTypes
  <2> QED BY <2>1, <2>2, NewestFacts
<1> QED BY <1>1, <1>2 DEF Context, Contexts, StrategyTypes

\* Nothing of the sessions changes.
LEMMA SessionStutter ==
    ASSUME SessionInv, UNCHANGED <<backend, sessionVars>>, torn => pc' = pc
    PROVE  SessionInv'
<1> USE DEF sessionVars
<1>1. SessionTypes' /\ SessionsSound'
  BY DEF SessionInv, SessionTypes, SessionsSound
<1>2. Saved'
  BY DEF SessionInv, Saved
<1> QED BY <1>1, <1>2 DEF SessionInv

\* No session is stored, and the current one becomes a later one or one of the latest.
LEMMA SessionMoves ==
    ASSUME SessionInv, UNCHANGED <<backend, disk, torn>>, session' \in Nat, lastId' \in Nat,
           session' <= lastId', lastId <= lastId',
           session' # 0 => \A i \in 1..Len(disk) : disk[i].id <= session',
           torn => pc' = "new"
    PROVE  SessionInv'
<1>1. SessionTypes' /\ SessionsSound'
  BY DEF SessionInv, SessionTypes, SessionsSound
<1>2. disk \in Seq(Rows) /\ lastId \in Nat /\ Len(disk) \in Nat
  BY DEF SessionInv, SessionTypes, Rows
<1>3. \A i \in 1..Len(disk) : disk[i] \in Rows
  BY <1>2
<1>4. \A i \in 1..Len(disk) : disk[i].id \in Nat /\ disk[i].id <= lastId
  BY <1>3 DEF Rows, SessionInv, Saved
<1>5. \A i \in 1..Len(disk) : disk[i].id <= lastId'
  BY <1>2, <1>4
<1>6. Saved'
  BY <1>5 DEF SessionInv, Saved
<1> QED BY <1>1, <1>6 DEF SessionInv

\* The current session is stored.
LEMMA SessionIsStored ==
    ASSUME SessionInv, StrategyTypes, session # 0, disk' = Stored(Context), torn' = FALSE,
           UNCHANGED <<backend, session, lastId>>
    PROVE  SessionInv'
<1>1. SessionTypes /\ SessionsSound /\ Saved
  BY DEF SessionInv
<1>2. /\ disk' \in Seq(Rows)
      /\ \A i, j \in 1..Len(disk') : i < j => disk'[i].id < disk'[j].id
      /\ \A i \in 1..Len(disk') : disk'[i].id <= session
  BY <1>1, ContextFacts, StoredFacts
<1>3. SessionTypes'
  BY <1>1, <1>2 DEF SessionTypes, Rows
<1>4. SessionsSound'
  BY <1>2 DEF SessionsSound
<1>5. Saved'
  <2>1. session <= lastId /\ session \in Nat /\ lastId \in Nat
    BY <1>1 DEF Saved, SessionTypes
  <2>2. \A i \in 1..Len(disk') : disk'[i] \in Rows
    BY <1>2
  <2>3. \A i \in 1..Len(disk') : disk'[i].id \in Nat
    BY <2>2 DEF Rows
  <2>4. \A i \in 1..Len(disk') : disk'[i].id <= lastId
    BY <1>2, <2>1, <2>3
  <2> QED BY <2>1, <2>4 DEF Saved
<1> QED BY <1>3, <1>4, <1>5 DEF SessionInv

\* What the memory has when only the conversation goes on.
LEMMA MemoryRests ==
    ASSUME MemoryInv, UNCHANGED <<configVars, strategyVars, sessionVars>>, torn => pc' = pc, TalkTypes'
    PROVE  MemoryInv'
<1>1. UNCHANGED backend
  BY DEF configVars
<1> QED BY <1>1, StrategyStutter, SessionStutter DEF MemoryInv

\* Nothing of the memory changes.
LEMMA MemoryStutter == ASSUME MemoryInv, UNCHANGED memoryVars, torn => pc' = pc PROVE MemoryInv'
<1>1. UNCHANGED <<configVars, strategyVars, sessionVars>> /\ TalkTypes'
  BY DEF memoryVars, talkVars, MemoryInv, TalkTypes
<1> QED BY <1>1, MemoryRests

\* Only a session that is being saved, or was, is half written.
LEMMA NotTorn == ASSUME MemoryInv, pc \notin {"saving", "new"} PROVE ~torn
BY DEF MemoryInv, SessionInv, Saved

\* What a conversation message leaves.
LEMMA TalkGrows == ASSUME TalkTypes, said' = said + 2, UNCHANGED <<before, digest>> PROVE TalkTypes'
BY DEF TalkTypes

\* initialize(): the session that is resumed is the latest.
LEMMA InitializeKeeps == ASSUME MemoryInv, Initialize PROVE MemoryInv'
<1>1. StrategyInv'
  BY StrategyStutter DEF Initialize, MemoryInv
<1>2. TalkTypes'
  BY DEF Initialize, MemoryInv, TalkTypes, talkVars
<1>3. SessionInv'
  <2>1. UNCHANGED <<backend, disk, torn, lastId>> /\ ~torn /\ RestoreSession
    BY DEF Initialize, configVars
  <2>2. SessionInv /\ session \in Nat /\ lastId \in Nat /\ disk \in Seq(Rows) /\ session <= lastId
    BY DEF MemoryInv, SessionInv, SessionTypes, Saved, Rows
  <2>3. CASE session' = session
    BY <2>1, <2>2, <2>3, SessionMoves DEF SessionInv, SessionsSound
  <2>4. CASE session' # session
    <3>1. disk # <<>> /\ session' = disk[Len(disk)].id
      BY <2>1, <2>4 DEF RestoreSession, Latest
    <3>2. Len(disk) \in 1..Len(disk) /\ \A i \in 1..Len(disk) : disk[i] \in Rows /\ (i < Len(disk) \/ i = Len(disk))
      BY <2>2, <3>1
    <3>3. \A i \in 1..Len(disk) : disk[i].id \in Nat /\ disk[i].id <= lastId
      BY <2>2, <3>2 DEF Rows, SessionInv, Saved
    <3>4. \A i \in 1..Len(disk) : disk[i].id <= session'
      <4>1. \A i \in 1..Len(disk) : i < Len(disk) => disk[i].id < disk[Len(disk)].id
        BY <2>2, <3>2 DEF SessionInv, SessionsSound
      <4> QED BY <3>1, <3>2, <3>3, <4>1
    <3> QED BY <2>1, <2>2, <3>1, <3>2, <3>3, <3>4, SessionMoves
  <2> QED BY <2>3, <2>4
<1> QED BY <1>1, <1>2, <1>3 DEF MemoryInv

\* run(): the session is new, and later than every stored one.
LEMMA BeginRunKeeps == ASSUME MemoryInv, BeginRun PROVE MemoryInv'
<1>1. StrategyInv'
  BY StrategyStutter DEF BeginRun, MemoryInv
<1>2. TalkTypes'
  BY DEF BeginRun, MemoryInv, TalkTypes
<1>3. SessionInv'
  <2>1. UNCHANGED <<backend, disk, torn>> /\ ~torn /\ StartSession
    BY NotTorn DEF BeginRun, configVars
  <2>2. SessionInv /\ session \in Nat /\ lastId \in Nat /\ session <= lastId /\ disk \in Seq(Rows)
    BY DEF MemoryInv, SessionInv, SessionTypes, Saved, Rows
  <2>3. CASE UNCHANGED <<session, lastId>>
    BY <2>1, <2>2, <2>3, SessionMoves DEF SessionInv, SessionsSound
  <2>4. CASE session' = lastId + 1 /\ lastId' = lastId + 1
    <3>1. \A i \in 1..Len(disk) : disk[i] \in Rows
      BY <2>2
    <3>2. \A i \in 1..Len(disk) : disk[i].id \in Nat /\ disk[i].id <= lastId
      BY <2>2, <3>1 DEF Rows, SessionInv, Saved
    <3>3. \A i \in 1..Len(disk) : disk[i].id <= session'
      BY <2>2, <2>4, <3>2
    <3>4. session' \in Nat /\ lastId' \in Nat /\ session' <= lastId' /\ lastId <= lastId'
      BY <2>2, <2>4
    <3> QED BY <2>1, <2>2, <3>3, <3>4, SessionMoves
  <2> QED BY <2>1, <2>3, <2>4 DEF StartSession
<1> QED BY <1>1, <1>2, <1>3 DEF MemoryInv

\* A message, and what the agent does meanwhile.
LEMMA MessageKeeps ==
    ASSUME MemoryInv, NEW c \in Callers, OnMessage(c), torn => pc' = pc
    PROVE  MemoryInv'
<1>1. StrategyInv' /\ UNCHANGED <<configVars, sessionVars, talkVars>>
  BY OnMessageKeeps DEF MemoryInv
<1>2. SessionInv'
  BY <1>1, SessionStutter DEF MemoryInv, configVars
<1>3. TalkTypes'
  BY <1>1 DEF MemoryInv, TalkTypes, talkVars
<1> QED BY <1>1, <1>2, <1>3 DEF MemoryInv

\* The answer of the model, whatever the run does meanwhile.
LEMMA AnswerStepKeeps == ASSUME MemoryInv, NEW c \in Callers, Answer(c) PROVE MemoryInv'
<1>1. ModelReturns(c) /\ pc' = pc
  BY DEF Answer
<1>2. StrategyInv' /\ UNCHANGED <<configVars, sessionVars, talkVars>>
  BY <1>1, ModelReturnsKeeps DEF MemoryInv
<1>3. SessionInv'
  BY <1>1, <1>2, SessionStutter DEF MemoryInv, configVars
<1>4. TalkTypes'
  BY <1>2 DEF MemoryInv, TalkTypes, talkVars
<1> QED BY <1>2, <1>3, <1>4 DEF MemoryInv

\* The prompt of one iteration is compacted.
LEMMA ObserveKeeps == ASSUME MemoryInv, Observe PROVE MemoryInv'
<1>1. Compact /\ ~torn
  BY NotTorn DEF Observe
<1>2. UNCHANGED <<configVars, strategyVars, sessionVars, before, said>>
  BY <1>1 DEF Compact
<1>3. TalkTypes'
  <2>1. before \in Nat /\ said \in Nat /\ digest \subseteq Nat
    BY DEF MemoryInv, TalkTypes
  <2>2. before + 1 .. said \subseteq Nat
    BY <2>1
  <2>3. ToCompact \subseteq Nat
    BY <2>2 DEF ToCompact
  <2> QED BY <1>1, <1>2, <2>1, <2>3 DEF Compact, TalkTypes
<1> QED BY <1>1, <1>2, <1>3, MemoryRests

\* on_session_end: the strategy's part,
LEMMA EndSessionKeeps == ASSUME MemoryInv, EndSession PROVE MemoryInv'
<1>1. EndStrategy /\ ~torn
  BY NotTorn DEF EndSession
<1>2. StrategyInv' /\ UNCHANGED <<configVars, sessionVars, talkVars>>
  BY <1>1, EndStrategyKeeps DEF MemoryInv
<1>3. SessionInv'
  BY <1>1, <1>2, SessionStutter DEF MemoryInv, configVars
<1>4. TalkTypes'
  BY <1>2 DEF MemoryInv, TalkTypes, talkVars
<1> QED BY <1>2, <1>3, <1>4 DEF MemoryInv

\* ... and the store's, in one transaction or by emptying the file and writing it.
LEMMA SaveSessionKeeps == ASSUME MemoryInv, SaveSession PROVE MemoryInv'
<1>1. SessionInv /\ StrategyInv /\ StrategyTypes /\ pc = "saving"
  BY DEF MemoryInv, StrategyInv, SaveSession
<1>2. torn => backend = "file" /\ session # 0
  BY <1>1 DEF SessionInv, Saved
<1>3. torn \in BOOLEAN /\ backend \in {"none", "sqlite", "file"}
  BY <1>1 DEF SessionInv, SessionTypes
<1>4. CASE SaveRow
  <2>1. /\ session # 0 /\ disk' = Stored(Context) /\ torn' = FALSE
        /\ UNCHANGED <<configVars, strategyVars, session, lastId, talkVars, backend>>
    BY <1>2, <1>3, <1>4 DEF SaveRow, configVars
  <2>2. SessionInv'
    BY <1>1, <2>1, SessionIsStored
  <2>3. StrategyInv' /\ TalkTypes'
    BY <1>1, <2>1, StrategyStutter DEF MemoryInv, TalkTypes, talkVars
  <2> QED BY <2>2, <2>3 DEF MemoryInv
<1>5. CASE WriteFile
  <2>1. /\ session # 0 /\ disk' = Stored(Context) /\ torn' = FALSE
        /\ UNCHANGED <<configVars, strategyVars, session, lastId, talkVars, backend>>
    BY <1>2, <1>5 DEF WriteFile, configVars
  <2>2. SessionInv'
    BY <1>1, <2>1, SessionIsStored
  <2>3. StrategyInv' /\ TalkTypes'
    BY <1>1, <2>1, StrategyStutter DEF MemoryInv, TalkTypes, talkVars
  <2> QED BY <2>2, <2>3 DEF MemoryInv
<1>6. CASE OpenFile /\ pc' = pc
  <2>1. /\ session # 0 /\ backend = "file" /\ torn' = TRUE
        /\ UNCHANGED <<configVars, strategyVars, session, lastId, disk, talkVars, backend>>
    BY <1>6 DEF OpenFile, configVars
  <2>2. SessionTypes' /\ SessionsSound' /\ Saved'
    BY <1>1, <1>6, <2>1 DEF SessionInv, SessionTypes, SessionsSound, Saved
  <2>3. StrategyInv' /\ TalkTypes'
    BY <1>1, <2>1, StrategyStutter DEF MemoryInv, TalkTypes, talkVars
  <2> QED BY <2>2, <2>3 DEF MemoryInv, SessionInv
<1>7. CASE (backend = "none" \/ session = 0) /\ UNCHANGED memoryVars
  <2>1. ~torn
    BY <1>2, <1>7
  <2> QED BY <1>7, <2>1, MemoryStutter
<1> QED BY <1>4, <1>5, <1>6, <1>7 DEF SaveSession

\* A process that starts again remembers nothing but the sessions.
LEMMA RestartKeeps == ASSUME MemoryInv, Restart PROVE MemoryInv'
<1>1. Forget /\ pc' = "new" /\ UNCHANGED <<configVars, arrived, lastId, disk, torn, said>>
  BY DEF Restart
<1>2. StrategyTypes /\ SessionInv
  BY DEF MemoryInv, StrategyInv
<1>3. StrategyInv'
  BY <1>1, <1>2, EmptyMemory DEF StrategyTypes, Forget, configVars
<1>4. SessionInv'
  <2>1. session' = 0 /\ backend' = backend
    BY <1>1 DEF Forget, configVars
  <2>2. lastId \in Nat
    BY <1>2 DEF SessionInv, SessionTypes
  <2> QED BY <1>1, <1>2, <2>1, <2>2, SessionMoves
<1>5. TalkTypes'
  BY <1>1 DEF Forget, MemoryInv, TalkTypes
<1> QED BY <1>3, <1>4, <1>5 DEF MemoryInv

\* Initially nothing is remembered.
LEMMA MemoryStarts == Init => MemoryInv
<1> SUFFICES ASSUME Init PROVE MemoryInv
  OBVIOUS
<1>1. PICK s \in Setups : strategy = s.strategy /\ hasModel = s.model /\ backend = s.backend
  BY DEF Init
<1>2. strategy \in {"full", "summary", "lstm"} /\ hasModel \in BOOLEAN /\ backend \in {"none", "sqlite", "file"}
  BY <1>1, MasterRunAssumption
<1>3. MemoryInit
  BY DEF Init
<1>4. StrategyInv
  <2>1. /\ asking \in [Callers -> Questions]
        /\ \A c \in Callers : asking[c] = NotAsking /\ asking[c].for = "nothing"
                              /\ asking[c].cover = {} /\ asking[c].upto = 0
    BY <1>3, NotAskingFacts DEF MemoryInit
  <2>2. messages \in Seq(Nat) /\ long \in Seq(Nat) /\ Elems(messages) = {} /\ Elems(long) = {}
        /\ NoRepeats(messages) /\ NoRepeats(long) /\ Counting(messages, arrived)
    BY <1>3, ElemsEmpty DEF MemoryInit
  <2>3. StrategyTypes
    BY <1>2, <1>3, <2>1, <2>2 DEF StrategyTypes, Questions, MemoryInit
  <2>4. Arrivals
    BY <1>3, <2>1, <2>2 DEF Arrivals, MemoryInit
  <2>5. Asked
    BY <2>1 DEF Asked
  <2>6. InOrder
    BY <2>2, <2>3, InOrderIs
  <2>7. NewestKept
    <3>1. \A promised \in Nat : 0 >= (IF 0 - 0 < promised THEN 0 - 0 ELSE promised)
      OBVIOUS
    <3>2. MaxTotal \in Nat /\ Buffer \in Nat /\ Len(messages) = 0 /\ arrived = 0 /\ wiped = 0
      BY <1>3, Caps DEF MemoryInit
    <3> QED BY <3>1, <3>2 DEF NewestKept
  <2>8. Filed
    BY <1>3, <2>1, <2>2 DEF Filed, MemoryInit
  <2>9. Covered
    BY <2>1, <2>2 DEF Covered
  <2> QED BY <2>3, <2>4, <2>5, <2>6, <2>7, <2>8, <2>9 DEF StrategyInv
<1>5. SessionInv
  <2>1. session = 0 /\ lastId = 0 /\ disk = <<>> /\ torn = FALSE /\ Len(disk) = 0
    BY <1>3 DEF MemoryInit
  <2>2. disk \in Seq([id : Nat, context : Contexts])
    BY <2>1
  <2>3. SessionTypes
    BY <1>2, <2>1, <2>2 DEF SessionTypes
  <2>4. SessionsSound /\ Saved
    BY <2>1 DEF SessionsSound, Saved
  <2> QED BY <2>3, <2>4 DEF SessionInv
<1>6. TalkTypes
  BY <1>3 DEF MemoryInit, TalkTypes
<1> QED BY <1>4, <1>5, <1>6 DEF MemoryInv

-----------------------------------------------------------------------------
(* A run of a master *)

\* The invariant holds initially,
LEMMA MasterStarts == Init => IInv
BY SubStarts, MemoryStarts DEF IInv

\* ... nothing that leaves the sub-agents alone breaks their part,
LEMMA TalkKeeps ==
    ASSUME IInv, UNCHANGED subVars, MemoryInv' PROVE IInv'
BY SubStutter DEF IInv

\* ... nor what leaves the memory alone the memory's,
LEMMA WorkKeeps ==
    ASSUME IInv, UNCHANGED memoryVars, pc \notin {"saving", "new"} \/ pc' = pc, SubInv' PROVE IInv'
<1>1. torn => pc' = pc
  BY NotTorn DEF IInv
<1> QED BY <1>1, MemoryStutter DEF IInv

\* ... and a job begins when none is in progress.
LEMMA StartJobKeeps == ASSUME IInv, StartJob PROVE IInv'
<1>1. SubInv'
  <2>1. ASSUME NEW a \in Agents, RunTool(a) PROVE SubInv'
    <3>1. {a} \in SUBSET Agents
      OBVIOUS
    <3> QED BY <2>1, <3>1, JobBegins DEF RunTool, IInv
  <2>2. ASSUME NEW kind \in {"each", "all"}, RunAll(kind) PROVE SubInv'
    <3> DEFINE pending == {a \in enlisted : result[a] = NoOutcome /\ status[a] \in {"created", "idle"}}
    <3>1. pending \in SUBSET Agents
      BY DEF IInv, SubInv, SubTypes
    <3>2. /\ job = NoJob /\ job' = [kind |-> kind, todo |-> pending]
          /\ UNCHANGED <<isolated, team, bus, recordVars, call, got, busVars, processVars, faultVars>>
      BY <2>2 DEF RunAll
    <3> HIDE DEF pending
    <3> QED BY <3>1, <3>2, JobBegins DEF IInv
  <2> QED BY <2>1, <2>2 DEF StartJob
<1> QED BY <1>1, WorkKeeps DEF StartJob

\* Every step of a sub-agent's call,
LEMMA SubStepKeeps == ASSUME IInv, NEW a \in Agents, SubStep(a) PROVE IInv'
<1>1. SubInv /\ Job(a)
  BY DEF IInv, SubStep
<1>2. SubInv'
  BY <1>1, CallInPlaceKeeps, CallIsolatedKeeps, InPlaceReturnsKeeps, LaunchedKeeps, SendTaskKeeps,
     ReceiveKeeps, TimesOutKeeps, TerminatedKeeps DEF Job
<1> QED BY <1>2, WorkKeeps DEF SubStep

\* ... and of a process or the server that it is connected to.
LEMMA ChildStepKeeps == ASSUME IInv, ChildStep PROVE IInv'
<1>1. PICK p \in Processes : Child(p)
  BY DEF ChildStep
<1>2. SubInv
  BY DEF IInv
<1>3. SubInv'
  BY <1>1, <1>2, ConnectsKeeps, TakesTaskKeeps, GivesUpKeeps, AsksForToolKeeps, ReportsKeeps, BreaksKeeps,
     ServerSpinsKeeps DEF Child
<1> QED BY <1>3, WorkKeeps DEF ChildStep

\* Every step of a run keeps the invariant.
LEMMA MasterInductive == ASSUME IInv, [Next]_vars PROVE IInv'
<1> USE DEF Callers
<1>1. SubInv /\ MemoryInv
  BY DEF IInv
<1>2. CASE UNCHANGED vars
  <2>1. SubInv' /\ UNCHANGED memoryVars /\ pc' = pc
    BY <1>1, <1>2, SubStutter DEF vars
  <2> QED BY <2>1, WorkKeeps
<1>3. CASE Initialize
  BY <1>1, <1>3, InitializeKeeps, TalkKeeps DEF Initialize
<1>4. CASE BeginRun
  BY <1>1, <1>4, BeginRunKeeps, TalkKeeps DEF BeginRun
<1>5. CASE Tell("task", "loop") \/ Tell("thinking", "stopping")
  <2>1. OnMessage("run") /\ pc \notin {"saving", "new"} /\ UNCHANGED subVars
    BY <1>5 DEF Tell
  <2>2. torn => pc' = pc
    BY <1>1, <2>1, NotTorn
  <2> QED BY <1>1, <2>1, <2>2, MessageKeeps, TalkKeeps
<1>6. CASE Observe
  BY <1>1, <1>6, ObserveKeeps, TalkKeeps DEF Observe
<1>7. CASE CallTool
  BY <1>1, <1>7, SubStutter, WorkKeeps DEF CallTool
<1>8. CASE Create
  BY <1>1, <1>8, EnlistKeeps, WorkKeeps DEF Create
<1>9. CASE StartJob
  BY <1>9, StartJobKeeps
<1>10. CASE OtherTool
  <2>1. UNCHANGED <<configVars, strategyVars, sessionVars, before, digest>> /\ said' = said + 2 /\ ~torn
    BY <1>1, <1>10, NotTorn DEF OtherTool
  <2>2. MemoryInv'
    BY <1>1, <2>1, TalkGrows, MemoryRests DEF MemoryInv
  <2> QED BY <1>10, <2>2, TalkKeeps DEF OtherTool
<1>11. CASE ToolReturns
  <2>1. UNCHANGED <<configVars, strategyVars, sessionVars, before, digest>> /\ said' = said + 2 /\ ~torn
    BY <1>1, <1>11, NotTorn DEF ToolReturns
  <2>2. MemoryInv'
    BY <1>1, <2>1, TalkGrows, MemoryRests DEF MemoryInv
  <2> QED BY <1>1, <1>11, <2>2, EndJobKeeps DEF ToolReturns, IInv
<1>12. CASE Fails \/ Stop
  <2>1. UNCHANGED <<memoryVars, subVars>> /\ pc \notin {"saving", "new"}
    BY <1>12 DEF Fails, Stop
  <2> QED BY <1>1, <2>1, SubStutter, WorkKeeps
<1>13. CASE EndSession
  BY <1>1, <1>13, EndSessionKeeps, TalkKeeps DEF EndSession
<1>14. CASE SaveSession
  BY <1>1, <1>14, SaveSessionKeeps, TalkKeeps DEF SaveSession
<1>15. CASE Reset
  <2>1. SubInv'
    <3>1. /\ DropRecords /\ captured' = captured /\ mail' = mail
          /\ UNCHANGED <<isolated, team, bus, callVars, waiting, hand, childVars, doubled, faultVars>>
      BY <1>15 DEF Reset, DropSubAgents, busVars, processVars
    <3>2. captured' \in BOOLEAN
      BY <1>1, <3>1 DEF SubInv, SubTypes
    <3> QED BY <1>1, <3>1, <3>2, DropRecordsKeeps
  <2> QED BY <1>15, <2>1, WorkKeeps DEF Reset
<1>16. CASE Note
  BY <1>1, <1>16, MessageKeeps, TalkKeeps DEF Note
<1>17. CASE Cancel
  <2>1. SubInv'
    BY <1>1, <1>17, CancelCallsKeeps DEF Cancel
  <2>2. UNCHANGED memoryVars /\ pc \notin {"saving", "new"}
    BY <1>17 DEF Cancel
  <2> QED BY <2>1, <2>2, WorkKeeps
<1>18. CASE Cancelled
  BY <1>1, <1>18, EndJobKeeps, WorkKeeps DEF Cancelled
<1>19. CASE Restart
  <2>1. SubInv'
    <3>1. captured' \in BOOLEAN /\ (captured' => captured)
      BY <1>1, <1>19 DEF Restart, SubInv, SubTypes
    <3> QED BY <1>1, <1>19, <3>1, DropRecordsKeeps DEF Restart
  <2> QED BY <1>1, <1>19, <2>1, RestartKeeps DEF IInv
<1>20. ASSUME NEW c \in Callers, Answer(c) PROVE IInv'
  BY <1>1, <1>20, AnswerStepKeeps, TalkKeeps DEF Answer
<1>21. ASSUME NEW a \in Agents, SubStep(a) PROVE IInv'
  BY <1>21, SubStepKeeps
<1>22. CASE ChildStep
  BY <1>22, ChildStepKeeps
<1> HIDE DEF Callers
<1>23. CASE MasterStep
  BY <1>3, <1>4, <1>5, <1>6, <1>7, <1>8, <1>9, <1>10, <1>11, <1>12, <1>13, <1>14, <1>15, <1>16, <1>17,
     <1>18, <1>20, <1>21, <1>23 DEF MasterStep
<1> QED BY <1>2, <1>19, <1>22, <1>23 DEF Next

\* It holds in every state of every behaviour.
LEMMA MasterInvariant == Spec => []IInv
BY MasterStarts, MasterInductive, PTL DEF Spec

\* Except for agents that were called while an earlier process of theirs lived, every
\* process that works is attended by its call and every connected one has a queue; a call
\* that is over has left the queue of waiters, and what is recorded is the agent's own
\* result as far as the code can tell.
THEOREM SubAgentsAreSound == Spec => []SubAgentsSound
<1>1. ASSUME IInv PROVE SubAgentsSound
  <2>1. SubTypes /\ InPlaceResults /\ WorkersAttended /\ ProcessesServed /\ WaitersMatch /\ QuietRunsMatch
    BY <1>1 DEF IInv, SubInv
  <2>2. InPlaceHonest
    BY <2>1 DEF InPlaceHonest, InPlaceResults, SubTypes
  <2> QED BY <2>1, <2>2 DEF SubAgentsSound
<1> QED BY <1>1, MasterInvariant, PTL

\* The list is the newest messages in order and as many as promised, nothing is filed
\* twice, and the stored sessions are in the order of their last save.
THEOREM MemoryIsSound == Spec => []MemorySound
<1>1. ASSUME IInv PROVE MemorySound
  <2>1. InOrder /\ NewestKept /\ SessionsSound /\ StrategyTypes /\ Filed
    BY <1>1 DEF IInv, MemoryInv, StrategyInv, SessionInv
  <2> QED BY <2>1, FiledIsOnce DEF MemorySound
<1> QED BY <1>1, MasterInvariant, PTL

\* The two halves of SummariesCover: what a summary replaces, ...
SummaryCovers ==
    \A c \in Callers : (~Idle(c) /\ asking'[c] = NotAsking /\ summary' # summary) =>
       \A m \in Elems(messages) \ Elems(messages') :
          \/ asking[c].for = "summary" /\ Len(messages) < Interval
          \/ asking[c].for = "all" /\ m > asking[c].upto
          \/ m \in summary' \/ \E d \in Callers : m \in asking'[d].cover

\* ... and of the compactor's summary.
DigestCovers ==
    digest' # digest => \A m \in before + 1 .. said : m \in digest' \/ said - m < KeepRecent

\* The answer that brings a summary.
LEMMA AnswerCovers == ASSUME IInv, NEW d \in Callers, ModelReturns(d) PROVE SummaryCovers
<1>0. StrategyInv /\ StrategyTypes /\ Asked /\ Covered
  BY DEF IInv, MemoryInv, StrategyInv
<1> SUFFICES ASSUME NEW c \in Callers, ~Idle(c), asking'[c] = NotAsking, summary' # summary,
                    NEW m \in Elems(messages), m \notin Elems(messages'),
                    asking[c].for = "summary" => ~(Len(messages) < Interval),
                    asking[c].for = "all" => ~(m > asking[c].upto)
             PROVE  m \in summary' \/ \E e \in Callers : m \in asking'[e].cover
  BY DEF SummaryCovers
<1>1. asking' = [asking EXCEPT ![d] = NotAsking]
  BY DEF ModelReturns
<1>3. asking[c] # NotAsking
  BY DEF Idle
<1>4. c = d
  BY <1>0, <1>1, <1>3, AnswerFacts
<1>5. \A e \in Callers \ {c} : asking'[e] = asking[e]
  BY <1>0, <1>1, <1>4, AnswerFacts
<1>6. summary' = asking[c].cover
  BY <1>4 DEF ModelReturns, Classified, Summarised, SummarisedAll
<1>2. asking[c].for \in {"summary", "all"}
  BY <1>4 DEF ModelReturns, Classified, Summarised, SummarisedAll
<1>7. m \in Nat /\ asking[c].upto \in Nat /\ Interval \in Nat
  BY <1>0, Caps DEF StrategyTypes, Elems
<1>9. CASE asking[c].for = "all"
  BY <1>0, <1>6, <1>7, <1>9 DEF Covered
<1>10. CASE asking[c].for = "summary"
  <2>1. messages' = Newest(messages, Buffer)
    BY <1>4, <1>10 DEF ModelReturns, Classified, Summarised, SummarisedAll
  <2>2. messages \in Seq(Nat) /\ arrived \in Nat /\ Counting(messages, arrived)
    BY <1>0, <1>2, <1>6, SummaryAsked
  <2>3. Buffer \in Nat \ {0}
    BY Caps
  <2>4. m + Buffer <= arrived
    <3>1. PICK i \in 1..Len(messages) : messages[i] = m /\ m = arrived - Len(messages) + i
      BY <2>2, CountingElem
    <3>2. /\ messages' \in Seq(Nat) /\ Len(messages') = (IF Len(messages) > Buffer THEN Buffer ELSE Len(messages))
          /\ \A k \in 1..Len(messages') : messages'[k] = messages[Len(messages) - Len(messages') + k]
      <4>1. PICK kept : kept = messages'
        OBVIOUS
      <4>2. kept = Newest(messages, Buffer)
        BY <2>1, <4>1
      <4>3. /\ kept \in Seq(Nat) /\ Len(kept) = (IF Len(messages) > Buffer THEN Buffer ELSE Len(messages))
            /\ \A k \in 1..Len(kept) : kept[k] = messages[Len(messages) - Len(kept) + k]
        <5>1. kept \in Seq(Nat) /\ Len(kept) = (IF Len(messages) > Buffer THEN Buffer ELSE Len(messages))
          BY ONLY <2>2, <2>3, <4>2, NewestFacts
        <5>2. \A k \in 1..Len(kept) : kept[k] = messages[Len(messages) - Len(kept) + k]
          BY ONLY <2>2, <2>3, <4>2, NewestFacts
        <5> QED BY <5>1, <5>2
      <4> QED BY <4>1, <4>3
    <3>3. ASSUME i > Len(messages) - Len(messages') PROVE FALSE
      <4>1. PICK k \in 1..Len(messages') : i = Len(messages) - Len(messages') + k
        <5>1. i - (Len(messages) - Len(messages')) \in 1..Len(messages')
          BY <2>2, <2>3, <3>1, <3>2, <3>3
        <5>2. i = Len(messages) - Len(messages') + (i - (Len(messages) - Len(messages')))
          BY <2>2, <3>2
        <5> QED BY <5>1, <5>2
      <4>2. messages'[k] = m
        BY <3>1, <3>2, <4>1
      <4> QED BY <4>2 DEF Elems
    <3> QED BY <2>2, <2>3, <3>1, <3>2, <3>3
  <2>5. Len(messages) \in Nat /\ Len(messages) >= Interval /\ Len(messages) > Buffer
    <3>1. Len(messages) \in Nat /\ Len(messages) >= Interval
      BY <1>7, <1>10, <2>2
    <3>2. PICK i \in 1..Len(messages) : m = arrived - Len(messages) + i
      BY <2>2, CountingElem
    <3> QED BY <1>7, <2>2, <2>3, <2>4, <3>1, <3>2
  <2>6. strategy = "summary" /\ hasModel
    BY <1>0, <1>10 DEF Asked
  <2>7. PICK e \in Callers : m \in asking[e].cover
    BY <1>0, <2>4, <2>5, <2>6 DEF Covered
  <2> QED BY <1>5, <1>6, <2>7
<1> QED BY <1>2, <1>9, <1>10

\* The compactor leaves no gap before what it keeps.
LEMMA CompactCovers == ASSUME IInv, Compact PROVE DigestCovers
<1> SUFFICES ASSUME digest' # digest, NEW m \in before + 1 .. said PROVE m \in digest' \/ said - m < KeepRecent
  BY DEF DigestCovers
<1>1. digest' = digest \cup ToCompact
  BY DEF Compact
<1>2. said \in Nat /\ before \in Nat
  BY DEF IInv, MemoryInv, TalkTypes
<1>3. m \in Nat /\ KeepRecent \in Nat
  BY <1>2, Caps
<1>4. said - m >= KeepRecent => m \in ToCompact
  BY DEF ToCompact
<1> QED BY <1>1, <1>2, <1>3, <1>4

\* A step that changes no summary.
LEMMA NothingToCover ==
    ASSUME summary' = summary, digest' = digest
    PROVE  SummaryCovers /\ DigestCovers
BY DEF SummaryCovers, DigestCovers

\* Every step but a restart keeps what SummariesCover says.
LEMMA StepCovers ==
    ASSUME IInv, restarts \in Nat, Next
    PROVE  restarts' = restarts => SummaryCovers /\ DigestCovers
<1> USE DEF strategyVars, talkVars
<1>0. StrategyInv
  BY DEF IInv, MemoryInv
<1>1. CASE Initialize \/ BeginRun \/ OtherTool \/ ToolReturns
  <2>1. summary' = summary /\ digest' = digest
    BY <1>1 DEF Initialize, BeginRun, OtherTool, ToolReturns
  <2> QED BY <2>1, NothingToCover
<1>2. CASE Tell("task", "loop") \/ Tell("thinking", "stopping") \/ Note
  <2>1. \E c \in Callers : OnMessage(c)
    BY <1>2 DEF Tell, Note, Callers
  <2> QED BY <1>0, <2>1, OnMessageKeeps, NothingToCover
<1>3. CASE Observe
  <2>1. Compact /\ summary' = summary
    BY <1>3 DEF Observe, Compact
  <2> QED BY <2>1, CompactCovers DEF SummaryCovers
<1>4. CASE EndSession
  BY <1>0, <1>4, EndStrategyKeeps, NothingToCover DEF EndSession
<1>5. CASE SaveSession
  <2>1. summary' = summary /\ digest' = digest
    BY <1>5 DEF SaveSession, SaveRow, OpenFile, WriteFile, memoryVars
  <2> QED BY <2>1, NothingToCover
<1>6. CASE Restart
  BY <1>6 DEF Restart
<1>7. ASSUME NEW c \in Callers, Answer(c) PROVE SummaryCovers /\ DigestCovers
  <2>1. ModelReturns(c)
    BY <1>7 DEF Answer
  <2>2. digest' = digest
    BY <2>1 DEF ModelReturns
  <2> QED BY <2>1, <2>2, AnswerCovers DEF DigestCovers
<1>8. ASSUME UNCHANGED memoryVars PROVE SummaryCovers /\ DigestCovers
  BY <1>8, NothingToCover DEF memoryVars
<1>9. CASE CallTool \/ Create \/ StartJob \/ Fails \/ Stop \/ Reset \/ Cancel \/ Cancelled
           \/ \E a \in Agents : SubStep(a)
  BY <1>8, <1>9 DEF CallTool, Create, StartJob, Fails, Stop, Reset, Cancel, Cancelled, SubStep
<1>10. CASE ChildStep
  BY <1>8, <1>10 DEF ChildStep
<1> QED BY <1>1, <1>2, <1>3, <1>4, <1>5, <1>6, <1>7, <1>9, <1>10 DEF Next, MasterStep

\* A restart is counted, so that a step that counts none is none.
LEMMA RestartsCounted == Spec => [](restarts \in Nat)
<1>1. Init => restarts \in Nat
  BY DEF Init
<1>2. ASSUME restarts \in Nat, [Next]_vars PROVE (restarts \in Nat)'
  <2>1. restarts' = restarts \/ restarts' = restarts + 1
    BY <1>2 DEF Next, vars, countVars, Initialize, BeginRun, Tell, Observe, CallTool, Create, StartJob, OtherTool,
       ToolReturns, Fails, Stop, EndSession, SaveSession, Reset, Note, Cancel, Cancelled, Restart, Answer, SubStep,
       MasterStep, ChildStep
  <2> QED BY <1>2, <2>1
<1> QED BY <1>1, <1>2, PTL DEF Spec

\* Whatever the interval and the buffer: with every answer of the model that brings a
\* summary, what leaves the list is in it, in what the other caller asks about, or excepted
\* as SummariesCover says; the compactor leaves no gap either.
THEOREM SummariesAreCovered == Spec => SummariesCover
<1>1. IInv /\ restarts \in Nat /\ [Next]_vars
        => [restarts' = restarts =>
        /\ \A c \in Callers : (~Idle(c) /\ asking'[c] = NotAsking /\ summary' # summary) =>
              \A m \in Elems(messages) \ Elems(messages') :
                 \/ asking[c].for = "summary" /\ Len(messages) < Interval
                 \/ asking[c].for = "all" /\ m > asking[c].upto
                 \/ m \in summary' \/ \E d \in Callers : m \in asking'[d].cover
        /\ digest' # digest
              => \A m \in before + 1 .. said : m \in digest' \/ said - m < KeepRecent
      ]_vars
  BY StepCovers DEF SummaryCovers, DigestCovers
<1> QED BY <1>1, MasterInvariant, RestartsCounted, PTL DEF Spec, SummariesCover
=============================================================================
