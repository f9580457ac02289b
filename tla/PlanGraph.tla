----------------------------- MODULE PlanGraph -----------------------------
(***************************************************************************)
(* The graph algorithms of WorkflowPlan (youmi/coordinator/plan.py):       *)
(* validate() with the depth-first search of _detect_cycle(), then         *)
(* get_execution_order(), which peels the steps off in layers.  Both run   *)
(* without awaiting; the steps here are the iterations of their loops, in  *)
(* any order of the lists they iterate over.                               *)
(***************************************************************************)
EXTENDS Naturals, Sequences, FiniteSets, FiniteSetsExt, SequencesExt

CONSTANTS Steps,    \* step ids of the plan
          MaxTimes  \* how often one id may be repeated in one depends_on

VARIABLES
    times,     \* times[s][d]: how often s.depends_on lists d
    badIds,    \* a step_id occurs twice, or a depends_on names an unknown step
    phase,     \* validate, search, order, done or rejected
    visited, path, todo,  \* _detect_cycle: visited, path, unexplored deps
    cycle,     \* the cycle it returns
    inDegree, frontier, layers  \* get_execution_order

graphVars  == <<times, badIds>>
searchVars == <<visited, path, todo, cycle>>
orderVars  == <<inDegree, frontier, layers>>
vars       == <<graphVars, phase, searchVars, orderVars>>

Deps(s) == {d \in Steps : times[s][d] > 0}

\* `in_stack`: the nodes of the current path.
InStack(d) == \E i \in 1..Len(path) : path[i] = d

\* validate: repeated ids, unknown and self references end it before the
\* search.
Validate ==
    /\ phase = "validate"
    /\ phase' = IF badIds \/ \E s \in Steps : s \in Deps(s) THEN "rejected" ELSE "search"
    /\ UNCHANGED <<graphVars, searchVars, orderVars>>

\* dfs enters a node.
Push(s) ==
    /\ visited' = visited \cup {s}
    /\ path' = Append(path, s)

\* The outer loop of _detect_cycle starts a search at an unvisited step.
SearchRoot(s) ==
    /\ phase = "search" /\ path = <<>> /\ s \notin visited
    /\ Push(s)
    /\ UNCHANGED <<graphVars, phase, todo, cycle, orderVars>>

\* A dependency on the current path closes a cycle.
Closes(d) == d \in visited /\ InStack(d)

\* path[path.index(d):] + [d]
CycleAt(d) == SubSeq(path, CHOOSE i \in 1..Len(path) : path[i] = d, Len(path)) \o <<d>>

\* dfs looks at one dependency of the last node of the path.
SearchDep(d) ==
    /\ phase = "search" /\ path # <<>> /\ d \in todo[Last(path)]
    /\ \/ /\ Closes(d)
          /\ phase' = "rejected"
          /\ cycle' = CycleAt(d)
          /\ UNCHANGED <<visited, path, todo>>
       \/ /\ ~Closes(d)
          /\ todo' = [todo EXCEPT ![Last(path)] = @ \ {d}]
          /\ IF d \in visited THEN UNCHANGED <<visited, path>> ELSE Push(d)
          /\ UNCHANGED <<phase, cycle>>
    /\ UNCHANGED <<graphVars, orderVars>>

\* dfs returns from a node with no dependency left.
SearchPop ==
    /\ phase = "search" /\ path # <<>> /\ todo[Last(path)] = {}
    /\ path' = Front(path)
    /\ UNCHANGED <<graphVars, phase, visited, todo, cycle, orderVars>>

\* No cycle: get_execution_order counts len(depends_on) and starts with the
\* steps that depend on nothing.
SearchDone ==
    /\ phase = "search" /\ path = <<>> /\ visited = Steps
    /\ phase' = "order"
    /\ inDegree' = [s \in Steps |-> MapThenSumSet(LAMBDA d : times[s][d], Steps)]
    /\ frontier' = {s \in Steps : Deps(s) = {}}
    /\ UNCHANGED <<graphVars, searchVars, layers>>

\* Mutant: a repeated dependency is subtracted once.
Subtracted_Once(c) == Cardinality(Deps(c) \cap frontier)

\* What the layer takes off a child's in-degree: adj lists the child as
\* often as its depends_on lists the step.
Subtracted(c) == MapThenSumSet(LAMBDA s : times[c][s], frontier)

\* One layer: every child whose in-degree reaches zero joins the next one.
PeelLayer ==
    /\ phase = "order" /\ frontier # {}
    /\ layers' = Append(layers, frontier)
    /\ inDegree' = [c \in Steps |-> inDegree[c] - Subtracted(c)]
    /\ frontier' = {c \in Steps : inDegree[c] > 0 /\ inDegree'[c] = 0}
    /\ UNCHANGED <<graphVars, phase, searchVars>>

OrderDone ==
    /\ phase = "order" /\ frontier = {}
    /\ phase' = "done"
    /\ UNCHANGED <<graphVars, searchVars, orderVars>>
-----------------------------------------------------------------------------
InitAt(p) ==
    /\ phase = p
    /\ visited = {} /\ path = <<>> /\ todo = [s \in Steps |-> Deps(s)] /\ cycle = <<>>
    /\ inDegree = [s \in Steps |-> 0] /\ frontier = {} /\ layers = <<>>

Init ==
    /\ times \in [Steps -> [Steps -> 0..MaxTimes]] /\ badIds \in BOOLEAN
    /\ InitAt("validate")

\* Another plan takes the place of this one.
Replace(t, b, p) ==
    /\ times' = t /\ badIds' = b /\ phase' = p
    /\ visited' = {} /\ path' = <<>> /\ cycle' = <<>>
    /\ todo' = [s \in Steps |-> {d \in Steps : t[s][d] > 0}]
    /\ inDegree' = [s \in Steps |-> 0] /\ frontier' = {} /\ layers' = <<>>

Next ==
    \/ Validate \/ SearchPop \/ SearchDone \/ PeelLayer \/ OrderDone
    \/ \E s \in Steps : SearchRoot(s) \/ SearchDep(s)

Spec == Init /\ [][Next]_vars
-----------------------------------------------------------------------------
(* Properties; Workflow lists them for TLC. *)

\* A reference definition: some steps all depend on one another in a ring
\* exactly if some non-empty set of steps has no member whose
\* dependencies all lie outside it.
Cyclic == \E S \in SUBSET Steps : S # {} /\ \A s \in S : Deps(s) \cap S # {}

\* validate() rejects exactly the plans that cannot be executed: bad ids and
\* cyclic dependencies.
RejectsExactlyBadPlans ==
    /\ phase = "rejected" => badIds \/ Cyclic
    /\ phase \in {"order", "done"} => ~badIds /\ ~Cyclic

\* The cycle in the error message is one: each step depends on the next,
\* and it returns to where it began.
CycleIsReal ==
    cycle # <<>> => /\ cycle[1] = Last(cycle) /\ Len(cycle) > 1
                    /\ \A i \in 1..(Len(cycle) - 1) : cycle[i + 1] \in Deps(cycle[i])

LayerOf(s) == CHOOSE k \in 1..Len(layers) : s \in layers[k]

\* get_execution_order places every step exactly once, after all of its
\* dependencies and no later than necessary.
LayersCorrect ==
    phase = "done" =>
        /\ \A s \in Steps : Cardinality({k \in 1..Len(layers) : s \in layers[k]}) = 1
        /\ \A s \in Steps : LayerOf(s) = 1 + Max({0} \cup {LayerOf(d) : d \in Deps(s)})


=============================================================================
