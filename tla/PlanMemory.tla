----------------------------- MODULE PlanMemory -----------------------------
(***************************************************************************)
(* PlanMemory (youmi/coordinator/plan_memory.py): the plans of earlier     *)
(* tasks with the outcome of their latest execution, and the vectors that  *)
(* find them for a similar task.  A row and its vector are written one     *)
(* after the other, the row under the lock and the vector outside it.      *)
(***************************************************************************)
EXTENDS Naturals, FiniteSets

CONSTANTS Tasks,
          Alike,    \* pairs of tasks whose score reaches similarity_threshold
          FetchK,   \* the neighbours vec0 looks at: top_k * 3
          NoTask

ASSUME PlanMemoryAssumption ==
    Alike \subseteq Tasks \X Tasks /\ FetchK \in Nat \ {0} /\ NoTask \notin Tasks

VARIABLES
    lookup,   \* "none" without a plan memory, "keywords" without an embedding
              \* client, "vec0" with the extension and "json" without it
    rows,     \* workflow_plans: task -> plan and success
    vectors   \* tasks with a vector

Stored == DOMAIN rows

\* 1.0 for the task itself, at least the threshold for those like it.
Near(t, u) == u = t \/ <<t, u>> \in Alike
Distance(t, u) == IF u = t THEN 0 ELSE IF Near(t, u) THEN 1 ELSE 2

\* save_plan: insert, or overwrite plan and outcome of an earlier execution.
Upsert(t, plan, ok) ==
    rows' = [u \in Stored \cup {t} |-> IF u = t THEN [plan |-> plan, ok |-> ok] ELSE rows[u]]

\* _save_vector
SaveVector(t) == vectors' = vectors \cup {t}

\* What passes the WHERE and the threshold.
Offers(t, pool) == {u \in pool \cap Stored : rows[u].ok /\ Near(t, u)}

\* The best of a pool; the task's own row comes first.
Best(t, pool) ==
    LET found == Offers(t, pool)
    IN  IF found = {} THEN {NoTask} ELSE IF t \in found THEN {t} ELSE found

\* _vec0_search takes the nearest vectors first and then looks which succeeded.
Neighbours(t) ==
    {N \in SUBSET vectors :
        /\ Cardinality(N) = IF Cardinality(vectors) < FetchK THEN Cardinality(vectors) ELSE FetchK
        /\ \A u \in N, v \in vectors \ N : Distance(t, u) <= Distance(t, v)}

\* search_plan(top_k=1): by vector, or by keyword when there is no embedding or it
\* fails; a search by vector that finds nothing is not repeated by keyword.
SearchPlan(t) ==
    CASE lookup = "none" -> {NoTask}
      [] lookup = "keywords" -> Best(t, Tasks)
      [] lookup = "json" -> Best(t, Tasks) \cup Best(t, vectors)
      [] lookup = "vec0" -> Best(t, Tasks) \cup UNION {Best(t, N) : N \in Neighbours(t)}
=============================================================================
