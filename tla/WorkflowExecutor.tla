-------------------------- MODULE WorkflowExecutor --------------------------
(***************************************************************************)
(* WorkflowExecutor (youmi/coordinator/plan.py): the layers of a valid     *)
(* plan one after the other, the steps of a layer in parallel or serially, *)
(* each with retries and backoff.  PlanGraph shows that the layers are the *)
(* ones computed by Frontier below.                                        *)
(***************************************************************************)
EXTENDS Naturals, FiniteSets

CONSTANTS Steps,
          RetryCount  \* WorkflowStep.retry_count

VARIABLES
    deps,      \* WorkflowStep.depends_on
    parallel, failFast,  \* constructor arguments
    phase,     \* execute(): new, running, returned or cancelled
    past,      \* the steps of the layers already awaited
    layer,     \* the layer being executed
    at,        \* where _execute_step is for a step
    status,    \* StepResult.status
    attempt    \* attempts made

planVars == <<deps, parallel, failFast>>
vars     == <<planVars, phase, past, layer, at, status, attempt>>

Active == {"running", "backoff"}
Bad    == {"FAILED", "SKIPPED"}

\* The next layer of get_execution_order.
Frontier(p) == {s \in Steps \ p : deps[s] \subseteq p}

Acyclic(g) == \A S \in SUBSET Steps : S # {} => \E s \in S : g[s] \cap S = {}
-----------------------------------------------------------------------------
\* execute() enters its loop over the layers of a plan that validate() passed; a
\* plan without steps has none.
BeginRun ==
    /\ phase = "new" /\ Acyclic(deps)
    /\ layer' = Frontier({})
    /\ phase' = IF layer' = {} THEN "returned" ELSE "running"
    /\ UNCHANGED <<planVars, past, at, status, attempt>>

\* gather(), or the loop of the serial case, has come to its end.
LayerDone == \A s \in layer : at[s] = "finished"

\* The loop over the layers goes on, or execute() returns the results.
NextLayer ==
    /\ phase = "running" /\ LayerDone
    /\ past' = past \cup layer
    /\ layer' = Frontier(past')
    /\ phase' = IF layer' = {} THEN "returned" ELSE "running"
    /\ UNCHANGED <<planVars, at, status, attempt>>

\* Whether _execute_step may be entered: at once under gather(), one after
\* the other in a serial layer.
Turn(s) == s \in layer /\ (parallel \/ \A t \in layer : at[t] \notin Active)

\* Mutant: only a FAILED dependency blocks, a SKIPPED one does not.
Blocked_FailedOnly(s) == failFast /\ \E d \in deps[s] : status[d] = "FAILED"

\* The dependency check of _execute_step.
Blocked(s) == failFast /\ \E d \in deps[s] : status[d] \in Bad

\* _execute_step up to its first attempt: skip, or start.
BeginStep(s) ==
    /\ phase = "running" /\ at[s] = "waiting" /\ Turn(s)
    /\ \/ /\ Blocked(s)
          /\ status' = [status EXCEPT ![s] = "SKIPPED"]
          /\ at' = [at EXCEPT ![s] = "finished"]
          /\ UNCHANGED attempt
       \/ /\ ~Blocked(s)
          /\ status' = [status EXCEPT ![s] = "RUNNING"]
          /\ at' = [at EXCEPT ![s] = "running"]
          /\ attempt' = [attempt EXCEPT ![s] = 1]
    /\ UNCHANGED <<planVars, phase, past, layer>>

\* The sub-agent's run() returns a successful TaskResult.
AttemptSucceeds(s) ==
    /\ phase = "running" /\ at[s] = "running"
    /\ status' = [status EXCEPT ![s] = "COMPLETED"]
    /\ at' = [at EXCEPT ![s] = "finished"]
    /\ UNCHANGED <<planVars, phase, past, layer, attempt>>

\* for attempt in range(retry_count + 1)
RetriesLeft(s) == attempt[s] <= RetryCount

\* The attempt fails: run() reports a failure, which marks the step FAILED
\* at once, or it times out or raises, which leaves the status; only the
\* last attempt makes it final.
AttemptFails(s) ==
    /\ phase = "running" /\ at[s] = "running"
    /\ \/ /\ RetriesLeft(s)
          /\ at' = [at EXCEPT ![s] = "backoff"]
          /\ \/ status' = [status EXCEPT ![s] = "FAILED"]
             \/ UNCHANGED status
       \/ /\ ~RetriesLeft(s)
          /\ at' = [at EXCEPT ![s] = "finished"]
          /\ status' = [status EXCEPT ![s] = "FAILED"]
    /\ UNCHANGED <<planVars, phase, past, layer, attempt>>

\* Mutant: the attempt counter is not advanced.
Retry_NotCounted(s) ==
    /\ phase = "running" /\ at[s] = "backoff"
    /\ at' = [at EXCEPT ![s] = "running"]
    /\ UNCHANGED <<planVars, phase, past, layer, status, attempt>>

\* The backoff sleep ends: a new sub-agent is created for the next attempt
\* (the status is not set back to RUNNING).
Retry(s) ==
    /\ phase = "running" /\ at[s] = "backoff"
    /\ at' = [at EXCEPT ![s] = "running"]
    /\ attempt' = [attempt EXCEPT ![s] = @ + 1]
    /\ UNCHANGED <<planVars, phase, past, layer, status>>

\* The caller of execute() is cancelled: so is everything below it.
CancelExecute ==
    /\ phase = "running"
    /\ phase' = "cancelled"
    /\ UNCHANGED <<planVars, past, layer, at, status, attempt>>
-----------------------------------------------------------------------------
Init ==
    /\ deps \in [Steps -> SUBSET Steps]
    /\ parallel \in BOOLEAN /\ failFast \in BOOLEAN
    /\ phase = "new" /\ past = {} /\ layer = {}
    /\ at = [s \in Steps |-> "waiting"]
    /\ status = [s \in Steps |-> "PENDING"]
    /\ attempt = [s \in Steps |-> 0]

\* Another executor, as the planner's caller makes it: parallel and fail_fast.
Replace(d) ==
    /\ deps' = d /\ parallel' = TRUE /\ failFast' = TRUE
    /\ phase' = "new" /\ past' = {} /\ layer' = {}
    /\ at' = [s \in Steps |-> "waiting"]
    /\ status' = [s \in Steps |-> "PENDING"]
    /\ attempt' = [s \in Steps |-> 0]

Next ==
    \/ BeginRun \/ NextLayer \/ CancelExecute
    \/ \E s \in Steps : BeginStep(s) \/ AttemptSucceeds(s) \/ AttemptFails(s) \/ Retry(s)

Spec == Init /\ [][Next]_vars
-----------------------------------------------------------------------------
(* Properties; Workflow lists them for TLC. *)

\* Every variable stays in its range; a step makes at most retry_count + 1
\* attempts.
TypeOK ==
    /\ deps \in [Steps -> SUBSET Steps] /\ parallel \in BOOLEAN /\ failFast \in BOOLEAN
    /\ phase \in {"new", "running", "returned", "cancelled"}
    /\ past \subseteq Steps /\ layer \subseteq Steps
    /\ at \in [Steps -> {"waiting", "finished"} \cup Active]
    /\ status \in [Steps -> {"PENDING", "RUNNING", "COMPLETED", "FAILED", "SKIPPED"}]
    /\ attempt \in [Steps -> 0..(RetryCount + 1)]

\* "Dependent steps wait for their predecessors": a step is under way only
\* when every step it depends on has its final result, so the FAILED a
\* dependency shows between two attempts is never acted on.
DepsSettled ==
    \A s \in Steps : at[s] # "waiting" => \A d \in deps[s] : at[d] = "finished"

\* When execute() returns, every step of the plan has a final result.
AllSettled ==
    phase = "returned" => \A s \in Steps : status[s] \in {"COMPLETED"} \cup Bad

\* parallel=False: never two steps under way.
SerialMeansOne ==
    ~parallel => Cardinality({s \in Steps : at[s] \in Active}) <= 1

\* The result a step has in the abstract workflow: final ones only.
Result == [s \in Steps |-> IF at[s] = "finished" THEN status[s] ELSE "PENDING"]

Abstract == INSTANCE WorkflowResult WITH result <- Result

\* Layers, gather, retries and timeouts implement the workflow's promise:
\* one final result per step, after its dependencies', and skipped exactly
\* when fail_fast says so.
ImplementsResult == Abstract!Spec


=============================================================================
