------------------------------ MODULE Workflow ------------------------------
(***************************************************************************)
(* A conversation of a MasterAgent with a planner (conversation_loop and   *)
(* _run_plan_then_execute of youmi/coordinator/master.py): for each task   *)
(* the planner (planner.py) adapts a plan that PlanMemory finds or asks    *)
(* the model for one, the plan is validated and layered (PlanGraph) and    *)
(* executed layer by layer (WorkflowExecutor), and it is saved with its    *)
(* outcome.  Other masters may save plans in the same memory meanwhile.    *)
(* WorkflowExecutor.execute() of a plan given by its caller is the same    *)
(* without planner and memory.                                             *)
(***************************************************************************)
EXTENDS PlanMemory, Sequences

CONSTANTS Steps, RetryCount,
          MaxTimes,    \* how often one depends_on may list the same step
          MaxRepeats,  \* how many dependencies are listed more than once
          MaxRetries,  \* WorkflowPlanner max_retries
          Plans,       \* what the model may answer with: [times, bad]
          Setups,      \* planner, lookup, model, and the tasks an earlier process saved
          MaxActs      \* bound: messages of the user and plans saved by other masters

\* A plan as the parser leaves it: how often each step lists each other one, and
\* whether ids are repeated or unknown.
Shapes == [times : [Steps -> [Steps -> Nat]], bad : BOOLEAN]

ASSUME WorkflowAssumption ==
    /\ IsFiniteSet(Steps) /\ RetryCount \in Nat /\ MaxTimes \in Nat
    /\ Plans \subseteq Shapes
    /\ \A s \in Setups : s.lookup \in {"none", "keywords", "json", "vec0"}

VARIABLES
    times, badIds, planPhase, visited, path, todo, cycle,
    inDegree, frontier, layers,                    \* PlanGraph
    deps, parallel, failFast, runPhase, past, layer, at, status, attempt,
    hasPlanner, hasModel,
    asked,    \* bound: the tasks that come up
    pc,       \* where the conversation is
    task,     \* the user's message
    plan,     \* the plan it is about, or the template for it
    source,   \* metadata["source"] of the plan
    tries,    \* attempts of _plan_from_llm
    acts,     \* what the bound counts
    kept      \* history: plans that have ever been saved

graphVars == <<times, badIds, planPhase, visited, path, todo, cycle,
               inDegree, frontier, layers>>
runVars   == <<deps, parallel, failFast, runPhase, past, layer, at, status, attempt>>
rowVars   == <<rows, vectors, kept>>
turnVars  == <<task, plan, source, tries>>
fixedVars == <<lookup, hasPlanner, hasModel, asked>>
vars      == <<graphVars, runVars, rowVars, turnVars, fixedVars, pc, acts>>

Graph == INSTANCE PlanGraph WITH phase <- planPhase
Exec  == INSTANCE WorkflowExecutor WITH phase <- runPhase

NoPlan == [times |-> [s \in Steps |-> [d \in Steps |-> 0]], bad |-> FALSE]
DepsOf(p) == [s \in Steps |-> {d \in Steps : p.times[s][d] > 0}]

\* A plan that can be executed, by the definition of PlanGraph.
Cyclic(p) == \E S \in SUBSET Steps : S # {} /\ \A s \in S : DepsOf(p)[s] \cap S # {}
Valid(p) == ~p.bad /\ ~Cyclic(p)

\* execute() of any plan, by a caller of its own.
InitAlone ==
    /\ Graph!Init
    /\ Cardinality({p \in Steps \X Steps : times[p[1]][p[2]] > 1}) <= MaxRepeats
    /\ deps = [s \in Steps |-> Graph!Deps(s)]
    /\ Exec!Init
    /\ rows = <<>> /\ vectors = {}
    /\ pc = "check" /\ source = "caller"

\* conversation_loop() with the plans an earlier process may have left.
InitConversation(old) ==
    /\ times = NoPlan.times /\ badIds = FALSE /\ Graph!InitAt("none")
    /\ deps = DepsOf(NoPlan) /\ parallel = TRUE /\ failFast = TRUE /\ Exec!Init
    /\ \E p \in {p \in Plans : Valid(p)}, ok, v \in BOOLEAN :
          /\ rows = [u \in old |-> [plan |-> p, ok |-> ok]]
          /\ vectors = IF v /\ lookup \in {"json", "vec0"} THEN old ELSE {}
    /\ pc = "input" /\ source = "none"

Init ==
    /\ \E s \in Setups : /\ lookup = s.lookup /\ hasModel = s.model /\ hasPlanner = s.planner
                         /\ asked = s.asked
                         /\ IF hasPlanner THEN InitConversation(s.old) ELSE InitAlone
    /\ task = NoTask /\ plan = NoPlan /\ tries = 0 /\ acts = 0
    /\ kept = {rows[t].plan : t \in Stored}

Same == UNCHANGED fixedVars
-----------------------------------------------------------------------------
(* The planner *)

\* The plan at hand from now on.
TakePlan(p, from) ==
    /\ Graph!Replace(p.times, p.bad, "validate") /\ Exec!Replace(DepsOf(p))
    /\ plan' = p /\ source' = from /\ pc' = "check"

\* The executor and its plan are dropped and the loop waits for the user.
NextTurn ==
    /\ Graph!Replace(NoPlan.times, FALSE, "none") /\ Exec!Replace(DepsOf(NoPlan))
    /\ task' = NoTask /\ plan' = NoPlan /\ source' = "none" /\ tries' = 0 /\ pc' = "input"

\* A new message: a task, unless it is short or small talk, which chat_turn answers.
Input ==
    /\ pc = "input" /\ acts < MaxActs
    /\ acts' = acts + 1
    /\ \/ \E t \in asked : task' = t /\ pc' = "search"
       \/ UNCHANGED <<task, pc>>
    /\ UNCHANGED <<graphVars, runVars, rowVars, plan, source, tries>> /\ Same

\* None, an exit keyword, or max_turns.
Exit ==
    /\ pc = "input"
    /\ pc' = "ended"
    /\ UNCHANGED <<graphVars, runVars, rowVars, turnVars, acts>> /\ Same

\* search_plan returns; what it found is kept while the model adapts it.
Search ==
    /\ pc = "search"
    /\ \E u \in SearchPlan(task) :
          IF u = NoTask THEN pc' = "ask" /\ UNCHANGED plan
                        ELSE pc' = "adapt" /\ plan' = rows[u].plan
    /\ UNCHANGED <<graphVars, runVars, rowVars, task, source, tries, acts>> /\ Same

\* Mutant: the steps of the adapted plan are taken, not those of the template.
Adapt_Steps ==
    /\ pc = "adapt"
    /\ \/ \E p \in Plans : TakePlan(p, "memory")
       \/ hasModel /\ pc' = "ask" /\ plan' = NoPlan /\ UNCHANGED <<graphVars, runVars, source>>
    /\ UNCHANGED <<rowVars, task, tries, acts>> /\ Same

\* _apply_plan_template: the tasks are replaced and the steps stay; without a model
\* only the first task is.  When the model fails the planner asks it for a plan.
Adapt ==
    /\ pc = "adapt"
    /\ \/ TakePlan(plan, "memory")
       \/ hasModel /\ pc' = "ask" /\ plan' = NoPlan /\ UNCHANGED <<graphVars, runVars, source>>
    /\ UNCHANGED <<rowVars, task, tries, acts>> /\ Same

\* max_retries + 1 attempts; then ValueError, and the message is for chat_turn.
Again ==
    IF tries < MaxRetries
    THEN /\ pc' = "ask" /\ tries' = tries + 1 /\ plan' = NoPlan
         /\ Graph!Replace(NoPlan.times, FALSE, "none") /\ Exec!Replace(DepsOf(NoPlan))
         /\ source' = "none" /\ UNCHANGED task
    ELSE NextTurn

\* One attempt of _plan_from_llm.  No plan comes back when the call or the parsing
\* of the answer raises.
Ask ==
    /\ pc = "ask"
    /\ \/ ~hasModel /\ NextTurn
       \/ hasModel /\ Again
       \/ hasModel /\ (\E p \in Plans : TakePlan(p, "llm")) /\ UNCHANGED <<task, tries>>
    /\ UNCHANGED <<rowVars, acts>> /\ Same

\* validate(), and the layers of a plan that passes.
PlanStep ==
    /\ pc = "check"
    /\ Graph!Next
    /\ UNCHANGED <<runVars, rowVars, turnVars, pc, acts>> /\ Same

\* execute() or the planner looks at the errors: a caller of execute() gets a
\* ValueError, the planner asks again.
Checked ==
    /\ pc = "check"
    /\ \/ planPhase = "done" /\ pc' = "execute" /\ UNCHANGED <<graphVars, runVars, turnVars>>
       \/ /\ planPhase = "rejected"
          /\ IF source = "caller" THEN pc' = "ended" /\ UNCHANGED <<graphVars, runVars, turnVars>>
                                  ELSE Again
    /\ UNCHANGED <<rowVars, acts>> /\ Same

\* The executor's loops.
RunStep ==
    /\ pc = "execute"
    /\ Exec!Next
    /\ UNCHANGED <<graphVars, rowVars, turnVars, pc, acts>> /\ Same

\* execute() has returned, or the caller was cancelled, which ends the conversation.
Executed ==
    /\ pc = "execute" /\ runPhase \in {"returned", "cancelled"}
    /\ pc' = IF source = "caller" \/ runPhase = "cancelled" THEN "ended" ELSE "save"
    /\ UNCHANGED <<graphVars, runVars, rowVars, turnVars, acts>> /\ Same

\* get_summary() counts a step as completed.
AnySuccess == \E s \in Steps : status[s] = "COMPLETED"

\* save_plan: the row, unless the database raises, ...
Save ==
    /\ pc = "save"
    /\ \/ /\ lookup # "none"
          /\ Upsert(task, plan, AnySuccess)
          /\ kept' = kept \cup {plan}
          /\ IF lookup = "keywords" THEN NextTurn
             ELSE pc' = "vector" /\ UNCHANGED <<graphVars, runVars, turnVars>>
       \/ NextTurn /\ UNCHANGED <<rows, kept>>
    /\ UNCHANGED <<vectors, acts>> /\ Same

\* ... then its vector, unless the embedding fails.
Vector ==
    /\ pc = "vector"
    /\ SaveVector(task) \/ UNCHANGED vectors
    /\ NextTurn
    /\ UNCHANGED <<rows, kept, acts>> /\ Same

\* Another master saves the outcome of a plan, with or without a vector; not while
\* this one validates or executes, when it would not notice.
OtherSaves ==
    /\ hasPlanner /\ lookup # "none" /\ acts < MaxActs
    /\ pc \notin {"check", "execute", "ended"}
    /\ acts' = acts + 1
    /\ \E t \in asked, p \in {p \in Plans : Valid(p)}, ok \in BOOLEAN :
          /\ Upsert(t, p, ok)
          /\ kept' = kept \cup {p}
          /\ (lookup # "keywords" /\ SaveVector(t)) \/ UNCHANGED vectors
    /\ UNCHANGED <<graphVars, runVars, turnVars, fixedVars, pc>>

Next ==
    \/ Input \/ Exit \/ Search \/ Adapt \/ Ask \/ PlanStep \/ Checked
    \/ RunStep \/ Executed \/ Save \/ Vector \/ OtherSaves

\* Validation, layering and the loops are straight-line code between awaits;
\* attempts end, because wait_for bounds run() (default_timeout) and
\* initialize() before it waits for nothing without a timeout of its own; the
\* model's calls have the client's timeout.
FairSpec ==
    /\ Init /\ [][Next]_vars
    /\ WF_vars(Search \/ Adapt \/ Ask \/ PlanStep \/ Checked \/ Executed \/ Save \/ Vector)
    /\ WF_vars(RunStep /\ Exec!BeginRun)
    /\ WF_vars(RunStep /\ Exec!NextLayer)
    /\ \A s \in Steps :
          /\ WF_vars(RunStep /\ Exec!BeginStep(s)) /\ WF_vars(RunStep /\ Exec!Retry(s))
          /\ WF_vars(RunStep /\ (Exec!AttemptSucceeds(s) \/ Exec!AttemptFails(s)))
-----------------------------------------------------------------------------
(* Properties *)

\* Every variable of the run stays in its range; a step makes at most
\* retry_count + 1 attempts.
TypeOK == Exec!TypeOK

\* validate() rejects exactly the plans that cannot be executed: repeated or
\* unknown ids and cyclic dependencies.
RejectsExactlyBadPlans == Graph!RejectsExactlyBadPlans

\* The cycle validate() reports is one: each step depends on the next, and
\* it returns to where it began.
CycleIsReal == Graph!CycleIsReal

\* get_execution_order places every step exactly once, after all of its
\* dependencies and no later than necessary.
LayersCorrect == Graph!LayersCorrect

\* execute() runs the layers that get_execution_order computed, in order.
FollowsLayers ==
    runPhase = "running" =>
        \E k \in 1..Len(layers) : /\ layer = layers[k]
                                  /\ past = UNION {layers[i] : i \in 1..(k - 1)}

\* A step is under way only when every step it depends on has its final
\* result, so the FAILED that a dependency shows between two attempts of
\* _execute_step is never acted on.
DepsSettled == Exec!DepsSettled

\* When execute() returns, every step of the plan has a final result.
AllSettled == Exec!AllSettled

\* parallel=False: never two steps under way.
SerialMeansOne == Exec!SerialMeansOne

\* Layers, gather, retries and timeouts implement the workflow's promise:
\* one final result per step, after its dependencies', and skipped exactly
\* when fail_fast says so; and a task's workflow begins when the one before
\* it has all its results.
ImplementsResult == Exec!ImplementsResult

\* A caller's execute() ends for every plan, and a task of the conversation
\* is answered by a plan or by chat_turn, whichever calls and attempts fail.
Ends == pc \notin {"input", "ended"} ~> pc \in {"input", "ended"}

\* validate() and get_execution_order() compute what they say, and steps run in
\* the order of the layers, on settled dependencies, and all are settled in the end.
ExecutionSound ==
    /\ RejectsExactlyBadPlans /\ CycleIsReal /\ LayersCorrect
    /\ TypeOK /\ FollowsLayers /\ DepsSettled /\ SerialMeansOne /\ AllSettled

\* What is executed or kept for later tasks passed validate(): no template in the
\* memory is one the executor would reject, however often it is adapted and saved
\* again.
OnlyValidPlans ==
    /\ pc \in {"execute", "save", "vector"} => Valid(plan)
    /\ \A t \in Stored : Valid(rows[t].plan)

\* A plan taken from the memory has the steps and dependencies of a plan that was
\* saved, whatever the model answered and whatever others save meanwhile; and every
\* vector leads to a plan.
TemplatesKept ==
    /\ source = "memory" => plan \in kept
    /\ vectors \subseteq Stored

PlansSound == OnlyValidPlans /\ TemplatesKept
=============================================================================
