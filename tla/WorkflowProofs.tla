--------------------------- MODULE WorkflowProofs ---------------------------
(***************************************************************************)
(* What TLAPS proves of workflows for any plans, steps and retries: that   *)
(* validate() rejects exactly the plans that cannot be executed (its depth *)
(* -first search), that get_execution_order() layers the others correctly  *)
(* (its in-degrees are sums over the steps not yet placed), that execute() *)
(* follows those layers and implements WorkflowResult, and that the plan   *)
(* memory keeps and returns only valid plans.                              *)
(***************************************************************************)
EXTENDS Workflow, FiniteSetTheorems, SequenceTheorems, WellFoundedInduction, TLAPS

-----------------------------------------------------------------------------
(* Sums over finite sets *)

SumOf(g, S) == Graph!MapThenSumSet(LAMBDA d : g[d], S)

\* The recursive function MapThenSumSet chooses.
Pick(s) == CHOOSE x \in s : TRUE
IsSum(h, g, S) ==
    h = [s \in SUBSET S |-> IF s = {} THEN 0 ELSE g[Pick(s)] + h[s \ {Pick(s)}]]
PartialSums(g, S) == CHOOSE h : IsSum(h, g, S)

\* MapThenSumSet is the recursive function at the whole set.
LEMMA SumUnfold ==
    ASSUME NEW g, NEW S
    PROVE  SumOf(g, S) = PartialSums(g, S)[S]
BY DEF SumOf, Graph!MapThenSumSet, Graph!MapThenFoldSet, PartialSums, IsSum, Pick

\* Of some subsets of a finite set one has none of the others in it: what the
\* inductions below rest on.
LEMMA SmallestSet ==
    ASSUME NEW S, IsFiniteSet(S), NEW A \in SUBSET SUBSET S, A # {}
    PROVE  \E U \in A : \A V \in A : V \subseteq U => V = U
<1>1. IsWellFoundedOn(StrictSubsetOrdering(S), SUBSET S)
  BY FS_StrictSubsetOrderingWellFounded, FS_FiniteSubsetsOfFinite
<1>2. PICK U \in A : \A V \in A : <<V, U>> \notin StrictSubsetOrdering(S)
  BY <1>1, WFMin
<1>3. ASSUME NEW V \in A, V \subseteq U PROVE V = U
  <2>1. <<V, U>> \in (SUBSET S) \X (SUBSET S) /\ <<V, U>>[1] = V /\ <<V, U>>[2] = U
    OBVIOUS
  <2> QED BY <1>2, <1>3, <2>1 DEF StrictSubsetOrdering
<1> QED BY <1>3

\* CHOOSE picks a member.
LEMMA Picked == ASSUME NEW s, s # {} PROVE Pick(s) \in s
BY DEF Pick

\* Two such functions agree where both are defined.
LEMMA SumUnique ==
    ASSUME NEW g, NEW S1, NEW S2, NEW T, IsFiniteSet(T), T \subseteq S1, T \subseteq S2,
           NEW h1, IsSum(h1, g, S1), NEW h2, IsSum(h2, g, S2)
    PROVE  h1[T] = h2[T]
<1> DEFINE A == {U \in SUBSET T : h1[U] # h2[U]}
<1> SUFFICES ASSUME A # {} PROVE FALSE
  OBVIOUS
<1>1. A \in SUBSET SUBSET T
  OBVIOUS
<1> HIDE DEF A
<1>2. PICK U \in A : \A V \in A : V \subseteq U => V = U
  BY <1>1, SmallestSet
<1> USE DEF A
<1>3. /\ h1[U] = IF U = {} THEN 0 ELSE g[Pick(U)] + h1[U \ {Pick(U)}]
      /\ h2[U] = IF U = {} THEN 0 ELSE g[Pick(U)] + h2[U \ {Pick(U)}]
  <2>1. U \in SUBSET S1 /\ U \in SUBSET S2
    OBVIOUS
  <2> QED BY <2>1 DEF IsSum
<1>4. U # {} /\ Pick(U) \in U
  BY <1>3, Picked
<1>5. U \ {Pick(U)} \notin A
  BY <1>2, <1>4
<1> QED BY <1>3, <1>4, <1>5

\* There is one on every finite set.
LEMMA SumExists ==
    ASSUME NEW g, NEW S, IsFiniteSet(S)
    PROVE  IsSum(PartialSums(g, S), g, S)
<1> DEFINE Has(T) == \E h : IsSum(h, g, T)
           A == {T \in SUBSET S : ~Has(T)}
           H(T) == PartialSums(g, T)[T]
<1>0. \A T : Has(T) => IsSum(PartialSums(g, T), g, T)
  BY DEF PartialSums
<1> SUFFICES ASSUME A # {} PROVE FALSE
  BY <1>0
<1>1. PICK U \in A : \A V \in A : V \subseteq U => V = U
  <2>1. A \in SUBSET SUBSET S
    OBVIOUS
  <2> HIDE DEF A
  <2> QED BY <2>1, SmallestSet
<1>2. ASSUME NEW V, V \subseteq U, V # U PROVE Has(V) /\ IsFiniteSet(V)
  <2>1. V \notin A /\ V \in SUBSET S
    BY <1>1, <1>2
  <2> QED BY <2>1, FS_Subset
<1> DEFINE k == [s \in SUBSET U |-> IF s = {} THEN 0 ELSE g[Pick(s)] + H(s \ {Pick(s)})]
<1>3. ASSUME NEW V, V \subseteq U, V # U PROVE k[V] = H(V)
  <2>1. IsSum(PartialSums(g, V), g, V)
    BY <1>0, <1>2, <1>3
  <2>2. H(V) = IF V = {} THEN 0 ELSE g[Pick(V)] + PartialSums(g, V)[V \ {Pick(V)}]
    <3>1. V \in SUBSET V
      OBVIOUS
    <3> QED BY <2>1, <3>1 DEF IsSum
  <2>3. ASSUME V # {} PROVE PartialSums(g, V)[V \ {Pick(V)}] = H(V \ {Pick(V)})
    <3> DEFINE W == V \ {Pick(V)}
    <3>1. Pick(V) \in V /\ W \subseteq U /\ W # U
      BY <1>3, <2>3, Picked
    <3>2. IsSum(PartialSums(g, W), g, W) /\ IsFiniteSet(W)
      BY <1>0, <1>2, <3>1
    <3> QED BY <2>1, <3>2, SumUnique
  <2> QED BY <1>3, <2>2, <2>3
<1>4. IsSum(k, g, U)
  <2>1. ASSUME NEW s \in SUBSET U, s # {} PROVE k[s \ {Pick(s)}] = H(s \ {Pick(s)})
    <3>1. s \ {Pick(s)} \subseteq U /\ s \ {Pick(s)} # U
      BY <2>1, Picked
    <3> QED BY <1>3, <3>1
  <2> QED BY <2>1 DEF IsSum
<1> QED BY <1>4

\* The recursion in terms of SumOf.
LEMMA SumStep ==
    ASSUME NEW g, NEW S, IsFiniteSet(S)
    PROVE  SumOf(g, S) = IF S = {} THEN 0 ELSE g[Pick(S)] + SumOf(g, S \ {Pick(S)})
<1>1. IsSum(PartialSums(g, S), g, S) /\ S \in SUBSET S
  BY SumExists
<1>2. PartialSums(g, S)[S] = IF S = {} THEN 0 ELSE g[Pick(S)] + PartialSums(g, S)[S \ {Pick(S)}]
  BY <1>1 DEF IsSum
<1> DEFINE W == S \ {Pick(S)}
<1>3. IsFiniteSet(W) /\ IsSum(PartialSums(g, W), g, W) /\ W \subseteq S /\ W \subseteq W
  BY FS_RemoveElement, SumExists
<1>4. PartialSums(g, S)[W] = PartialSums(g, W)[W]
  <2> HIDE DEF W
  <2> QED BY <1>1, <1>3, SumUnique
<1> QED BY <1>2, <1>4, SumUnfold

\* Sums of natural numbers are natural numbers, 0 only if nothing is added.
LEMMA SumType ==
    ASSUME NEW D, NEW g \in [D -> Nat], NEW S \in SUBSET D, IsFiniteSet(S)
    PROVE  SumOf(g, S) \in Nat /\ (SumOf(g, S) = 0 <=> \A d \in S : g[d] = 0)
<1> DEFINE Fine(T) == SumOf(g, T) \in Nat /\ (SumOf(g, T) = 0 <=> \A d \in T : g[d] = 0)
           A == {T \in SUBSET S : ~Fine(T)}
<1> SUFFICES ASSUME A # {} PROVE FALSE
  OBVIOUS
<1>1. PICK U \in A : \A V \in A : V \subseteq U => V = U
  <2>1. A \in SUBSET SUBSET S
    OBVIOUS
  <2> HIDE DEF A
  <2> QED BY <2>1, SmallestSet
<1>2. SumOf(g, U) = IF U = {} THEN 0 ELSE g[Pick(U)] + SumOf(g, U \ {Pick(U)})
  BY FS_Subset, SumStep
<1>3. U # {} /\ Pick(U) \in U
  BY <1>2, Picked
<1>4. Fine(U \ {Pick(U)}) /\ g[Pick(U)] \in Nat
  BY <1>1, <1>3
<1> HIDE DEF Pick
<1> QED BY <1>2, <1>3, <1>4

\* Any element may be taken off first.
LEMMA SumRemove ==
    ASSUME NEW D, NEW g \in [D -> Nat], NEW S \in SUBSET D, IsFiniteSet(S), NEW x \in S
    PROVE  SumOf(g, S) = g[x] + SumOf(g, S \ {x})
<1> DEFINE Fine(T) == \A y \in T : SumOf(g, T) = g[y] + SumOf(g, T \ {y})
           A == {T \in SUBSET S : ~Fine(T)}
<1> SUFFICES ASSUME A # {} PROVE FALSE
  OBVIOUS
<1>1. PICK U \in A : \A V \in A : V \subseteq U => V = U
  <2>1. A \in SUBSET SUBSET S
    OBVIOUS
  <2> HIDE DEF A
  <2> QED BY <2>1, SmallestSet
<1>2. PICK y \in U : SumOf(g, U) # g[y] + SumOf(g, U \ {y})
  OBVIOUS
<1> DEFINE c == Pick(U)
<1>3. IsFiniteSet(U) /\ c \in U /\ SumOf(g, U) = g[c] + SumOf(g, U \ {c})
  BY FS_Subset, SumStep, Picked
<1> HIDE DEF c
<1>4. y # c /\ y \in U \ {c} /\ c \in U \ {y}
  BY <1>2, <1>3
<1>5. Fine(U \ {c}) /\ Fine(U \ {y})
  BY <1>1, <1>3, <1>4
<1>6. SumOf(g, U \ {c}) = g[y] + SumOf(g, (U \ {c}) \ {y})
  BY <1>4, <1>5
<1>7. SumOf(g, U \ {y}) = g[c] + SumOf(g, (U \ {c}) \ {y})
  <2>1. (U \ {y}) \ {c} = (U \ {c}) \ {y}
    OBVIOUS
  <2> QED BY <1>4, <1>5, <2>1
<1>8. SumOf(g, (U \ {c}) \ {y}) \in Nat /\ g[c] \in Nat /\ g[y] \in Nat
  <2>1. (U \ {c}) \ {y} \in SUBSET D /\ IsFiniteSet((U \ {c}) \ {y})
    BY <1>3, FS_RemoveElement
  <2> QED BY <1>3, <2>1, SumType
<1> QED BY <1>2, <1>3, <1>6, <1>7, <1>8

\* The sum over a part.
LEMMA SumSplit ==
    ASSUME NEW D, NEW g \in [D -> Nat], NEW S \in SUBSET D, IsFiniteSet(S), NEW F \in SUBSET S
    PROVE  SumOf(g, S) - SumOf(g, F) = SumOf(g, S \ F)
<1> DEFINE Fine(T) == SumOf(g, S) = SumOf(g, T) + SumOf(g, S \ T)
           A == {T \in SUBSET S : ~Fine(T)}
<1>0. ASSUME NEW T \in SUBSET S
      PROVE  SumOf(g, T) \in Nat /\ SumOf(g, S \ T) \in Nat /\ IsFiniteSet(T) /\ IsFiniteSet(S \ T)
  <2>1. IsFiniteSet(T) /\ IsFiniteSet(S \ T) /\ S \ T \in SUBSET D /\ T \in SUBSET D
    BY FS_Subset
  <2> QED BY <2>1, SumType
<1>1. A = {}
  <2> SUFFICES ASSUME A # {} PROVE FALSE
    OBVIOUS
  <2>1. PICK U \in A : \A V \in A : V \subseteq U => V = U
    <3>1. A \in SUBSET SUBSET S
      OBVIOUS
    <3> HIDE DEF A
    <3> QED BY <3>1, SmallestSet
  <2>2. U # {}
    <3>1. SumOf(g, {}) = 0 /\ S \ {} = S /\ SumOf(g, S) \in Nat
      BY <1>0, SumStep, FS_EmptySet
    <3> QED BY <3>1
  <2>3. PICK x \in U : TRUE
    BY <2>2
  <2> DEFINE V == U \ {x}
  <2>4. Fine(V)
    BY <2>1, <2>3
  <2>5. SumOf(g, U) = g[x] + SumOf(g, V)
    BY <1>0, SumRemove
  <2>6. SumOf(g, S \ V) = g[x] + SumOf(g, S \ U)
    <3>1. x \in S \ V /\ (S \ V) \ {x} = S \ U /\ S \ V \in SUBSET D /\ IsFiniteSet(S \ V)
      BY <1>0
    <3> QED BY <3>1, SumRemove
  <2>7. /\ g[x] \in Nat /\ SumOf(g, V) \in Nat /\ SumOf(g, S \ U) \in Nat
        /\ SumOf(g, S \ V) \in Nat /\ SumOf(g, U) \in Nat /\ SumOf(g, S) \in Nat
    BY <1>0
  <2>8. SumOf(g, S) = SumOf(g, V) + SumOf(g, S \ V)
    BY <2>4
  <2>9. SumOf(g, S) = SumOf(g, U) + SumOf(g, S \ U)
    BY <2>5, <2>6, <2>7, <2>8
  <2> QED BY <2>9
<1>2. Fine(F)
  BY <1>1
<1>3. SumOf(g, F) \in Nat /\ SumOf(g, S \ F) \in Nat
  BY <1>0
<1> QED BY <1>2, <1>3
-----------------------------------------------------------------------------
(* The invariant *)

Uses(t, s) == {d \in Steps : t[s][d] > 0}

OnPath   == {path[i] : i \in 1..Len(path)}
Searched == visited \ OnPath

GraphTypes ==
    /\ planPhase \in {"none", "validate", "search", "order", "done", "rejected"}
    /\ times \in [Steps -> [Steps -> Nat]] /\ badIds \in BOOLEAN
    /\ visited \subseteq Steps /\ path \in Seq(Steps) /\ todo \in [Steps -> SUBSET Steps]
    /\ layers \in Seq(SUBSET Steps)

\* The path is a chain of dependencies without repetition.
PathOK ==
    /\ OnPath \subseteq visited
    /\ \A i, j \in 1..Len(path) : path[i] = path[j] => i = j
    /\ \A i \in 1..(Len(path) - 1) : path[i + 1] \in Uses(times, path[i])

\* What the search has looked at: a dependency of a step on the path is done
\* with, or the next one on the path.
TodoOK ==
    /\ \A s \in Steps : todo[s] \subseteq Uses(times, s)
    /\ \A s \in Steps \ visited : todo[s] = Uses(times, s)
    /\ \A i \in 1..Len(path) : \A d \in Uses(times, path[i]) \ todo[path[i]] :
          d \in Searched \/ (i < Len(path) /\ d = path[i + 1])

\* No cycle leads through a step the search has left.
Clean ==
    /\ \A s \in Searched : Uses(times, s) \subseteq Searched
    /\ \A S \in SUBSET Searched : S # {} => \E s \in S : Uses(times, s) \cap S = {}

Verdict ==
    /\ planPhase \in {"search", "order", "done"} => ~badIds
    /\ RejectsExactlyBadPlans /\ CycleIsReal

\* The steps placed before layer k, and those that may come next.
Below(k)   == UNION {layers[i] : i \in 1..(k - 1)}
LayerAt(p) == {s \in Steps \ p : Uses(times, s) \subseteq p}
Placed     == Below(Len(layers) + 1)

Layered ==
    /\ planPhase \notin {"order", "done"} => layers = <<>>
    /\ planPhase = "done" => frontier = {}
    /\ planPhase \in {"order", "done"} =>
          /\ \A k \in 1..Len(layers) : layers[k] = LayerAt(Below(k))
          /\ frontier = LayerAt(Placed)
          /\ \A s \in Steps : inDegree[s] = SumOf(times[s], Steps \ Placed)

\* validate() and get_execution_order().
GraphInv == GraphTypes /\ PathOK /\ TodoOK /\ Clean /\ Verdict /\ Layered

\* Layers awaited, being awaited and to come.
RunLayers ==
    /\ IF runPhase = "new" THEN past = {} /\ layer = {} ELSE layer = Exec!Frontier(past)
    /\ \A s \in past : at[s] = "finished" /\ deps[s] \subseteq past
    /\ \A s \in Steps \ (past \cup layer) : at[s] = "waiting"
    /\ runPhase = "returned" => past = Steps

\* Where a step is and what its status says.
RunStatus ==
    \A s \in Steps :
        /\ at[s] = "waiting" => status[s] = "PENDING"
        /\ at[s] = "finished" => status[s] \in {"COMPLETED"} \cup Exec!Bad
        /\ at[s] \in Exec!Active => ~Exec!Blocked(s)
        /\ at[s] = "backoff" => attempt[s] <= RetryCount

OneActive ==
    ~parallel => \A s, t \in Steps : at[s] \in Exec!Active /\ at[t] \in Exec!Active => s = t

RunInv == TypeOK /\ RunLayers /\ RunStatus /\ OneActive

\* The conversation, the plan at hand, its graph and its execution.
Linked ==
    /\ pc \in {"input", "search", "adapt", "ask", "check", "execute", "save", "vector", "ended"}
    /\ deps = [s \in Steps |-> Uses(times, s)]
    /\ pc \in {"input", "search", "adapt", "ask", "check"} => runPhase = "new"
    /\ pc \in {"save", "vector"} => runPhase = "returned" /\ source # "caller"
    /\ pc = "execute" \/ runPhase # "new" => planPhase = "done"
    /\ pc \in {"input", "search", "adapt", "ask"} => source = "none"
    /\ pc = "check" /\ source # "caller" => times = plan.times /\ badIds = plan.bad
    /\ source = "caller" => plan = NoPlan

\* The plan memory.
Remembered ==
    /\ lookup \in {"none", "keywords", "json", "vec0"}
    /\ plan \in Shapes /\ kept \subseteq Shapes
    /\ \A t \in Stored : Valid(rows[t].plan) /\ rows[t].plan \in kept
    /\ pc \in {"execute", "save", "vector"} => Valid(plan)
    /\ pc = "adapt" \/ source = "memory" => plan \in kept
    /\ pc = "vector" => task \in Stored
    /\ vectors \subseteq Stored

IInv == GraphInv /\ RunInv /\ FollowsLayers /\ Linked /\ Remembered
-----------------------------------------------------------------------------
(* The depth-first search *)

\* The search is over whatever is not on the path.
LEMMA PathFacts ==
    ASSUME GraphTypes
    PROVE  /\ Len(path) \in Nat /\ OnPath \subseteq Steps
           /\ \A i \in 1..Len(path) : path[i] \in Steps /\ path[i] \in OnPath
           /\ \A s \in Steps : Uses(times, s) \subseteq Steps
           /\ path # <<>> => Len(path) \in 1..Len(path)
           /\ path = <<>> => OnPath = {} /\ Len(path) = 0
<1>1. path \in Seq(Steps) /\ Len(path) \in Nat
  BY LenProperties DEF GraphTypes
<1>2. \A i \in 1..Len(path) : path[i] \in Steps
  BY <1>1, ElementOfSeq
<1>3. path # <<>> => Len(path) \in 1..Len(path)
  BY <1>1, EmptySeq
<1>4. path = <<>> => Len(path) = 0
  BY EmptySeq
<1> QED BY <1>1, <1>2, <1>3, <1>4 DEF OnPath, Uses

\* What a step of the search leaves alone.
LEMMA SearchFrame ==
    ASSUME GraphInv, UNCHANGED <<times, badIds, layers, inDegree, frontier, planPhase, cycle>>,
           planPhase = "search"
    PROVE  Verdict' /\ Layered'
<1>2. Verdict'
  <2>1. cycle' = cycle /\ planPhase' = "search" /\ badIds' = badIds
    OBVIOUS
  <2>3. CycleIsReal'
    BY <2>1 DEF GraphInv, Verdict, CycleIsReal, Graph!CycleIsReal, Graph!Last, Graph!Deps
  <2>4. RejectsExactlyBadPlans'
    BY <2>1 DEF RejectsExactlyBadPlans, Graph!RejectsExactlyBadPlans
  <2> QED BY <2>1, <2>3, <2>4 DEF GraphInv, Verdict
<1>3. Layered'
  BY DEF GraphInv, Layered
<1> QED BY <1>2, <1>3

\* A node is entered: an unvisited one, on the empty path or as a dependency
\* of the last node.
LEMMA PushKeeps ==
    ASSUME GraphInv, NEW d \in Steps \ visited, Graph!Push(d),
           NEW n, path = <<>> \/ (n = path[Len(path)] /\ d \in todo[n]),
           IF path = <<>> THEN todo' = todo ELSE todo' = [todo EXCEPT ![n] = todo[n] \ {d}],
           planPhase = "search",
           UNCHANGED <<times, badIds, layers, inDegree, frontier, planPhase, cycle>>
    PROVE  GraphInv'
<1> DEFINE l == Len(path)
<1>0. /\ visited' = visited \cup {d} /\ path' = Append(path, d)
      /\ todo \in [Steps -> SUBSET Steps] /\ visited \subseteq Steps /\ path \in Seq(Steps)
  BY DEF Graph!Push, GraphInv, GraphTypes
<1>1. /\ l \in Nat /\ path' \in Seq(Steps) /\ Len(path') = l + 1 /\ path'[l + 1] = d
      /\ \A i \in 1..l : path'[i] = path[i] /\ path[i] \in Steps /\ path[i] \in OnPath
      /\ path # <<>> => l \in 1..l
      /\ path = <<>> => l = 0
  <2>1. Len(path) \in Nat /\ path' \in Seq(Steps) /\ Len(path') = Len(path) + 1
    BY <1>0, LenProperties, AppendProperties
  <2>2. path'[Len(path) + 1] = d /\ \A i \in 1..Len(path) : path'[i] = path[i]
    BY <1>0, AppendProperties
  <2> QED BY <2>1, <2>2, PathFacts DEF GraphInv
<1>2. times' = times /\ Verdict' /\ Layered'
  BY SearchFrame
<1>3. path # <<>> => n \in OnPath /\ n \in Steps /\ n \in visited /\ n = path[l] /\ d \in Uses(times, n)
  <2>1. ASSUME path # <<>> PROVE n \in OnPath /\ n \in Steps /\ n = path[l]
    BY <1>1, <2>1
  <2>2. OnPath \subseteq visited /\ \A s \in Steps : todo[s] \subseteq Uses(times, s)
    BY DEF GraphInv, PathOK, TodoOK
  <2> QED BY <2>1, <2>2
<1> HIDE DEF l
<1>4. OnPath' = OnPath \cup {d} /\ Searched' = Searched
  <2>1. OnPath' = OnPath \cup {d}
    <3>1. ASSUME NEW x PROVE x \in OnPath' <=> x \in OnPath \/ x = d
      <4>1. x \in OnPath' <=> \E i \in 1..(l + 1) : path'[i] = x
        BY <1>1 DEF OnPath
      <4>2. x \in OnPath <=> \E i \in 1..l : path[i] = x
        BY DEF OnPath, l
      <4>3. \A i \in 1..(l + 1) : i \in 1..l \/ i = l + 1
        BY <1>1
      <4>4. 1..l \subseteq 1..(l + 1) /\ l + 1 \in 1..(l + 1)
        BY <1>1
      <4> QED BY <1>1, <4>1, <4>2, <4>3, <4>4
    <3> QED BY <3>1
  <2>2. d \notin OnPath
    BY DEF GraphInv, PathOK
  <2> QED BY <1>0, <2>1, <2>2 DEF Searched
<1>5. GraphTypes'
  <2>1. todo' \in [Steps -> SUBSET Steps]
    BY <1>0, <1>3
  <2> QED BY <1>0, <1>1, <2>1 DEF GraphInv, GraphTypes
<1>6. PathOK'
  <2>1. OnPath' \subseteq visited'
    BY <1>0, <1>4 DEF GraphInv, PathOK
  <2>2. ASSUME NEW i \in 1..Len(path'), NEW j \in 1..Len(path'), path'[i] = path'[j] PROVE i = j
    <3>1. \A k \in 1..l : path'[k] # d
      BY <1>1 DEF GraphInv, PathOK
    <3>2. (i \in 1..l \/ i = l + 1) /\ (j \in 1..l \/ j = l + 1)
      BY <1>1
    <3>3. \A a, b \in 1..l : path[a] = path[b] => a = b
      BY DEF GraphInv, PathOK, l
    <3> QED BY <1>1, <2>2, <3>1, <3>2, <3>3
  <2>3. ASSUME NEW i \in 1..(Len(path') - 1) PROVE path'[i + 1] \in Uses(times', path'[i])
    <3>1. i \in 1..l
      BY <1>1
    <3>2. CASE i = l
      <4>1. path # <<>> /\ path'[i] = n /\ path'[i + 1] = d
        BY <1>1, <1>3, <3>1, <3>2
      <4> QED BY <1>2, <1>3, <4>1
    <3>3. CASE i # l
      <4>1. i \in 1..(l - 1) /\ i + 1 \in 1..l
        BY <1>1, <3>1, <3>3
      <4>2. path[i + 1] \in Uses(times, path[i])
        BY <4>1 DEF GraphInv, PathOK, l
      <4> QED BY <1>1, <1>2, <3>1, <4>1, <4>2
    <3> QED BY <3>2, <3>3
  <2> QED BY <2>1, <2>2, <2>3 DEF PathOK
<1>7. TodoOK'
  <2>1. \A s \in Steps : /\ todo'[s] \subseteq todo[s]
                         /\ s # n \/ path = <<>> => todo'[s] = todo[s]
                         /\ \A x \in todo[s] \ todo'[s] : s = n /\ path # <<>> /\ x = d
    BY <1>0, <1>3
  <2>2. \A s \in Steps : todo'[s] \subseteq Uses(times', s)
    BY <1>2, <2>1 DEF GraphInv, TodoOK
  <2>3. \A s \in Steps \ visited' : todo'[s] = Uses(times', s)
    BY <1>0, <1>2, <1>3, <2>1 DEF GraphInv, TodoOK
  <2>4. ASSUME NEW i \in 1..Len(path'), NEW x \in Uses(times', path'[i]) \ todo'[path'[i]]
        PROVE  x \in Searched' \/ (i < Len(path') /\ x = path'[i + 1])
    <3>1. CASE i = l + 1
      <4>1. path'[i] = d /\ todo[d] = Uses(times, d)
        BY <1>1, <3>1 DEF GraphInv, TodoOK
      <4>2. d # n \/ path = <<>>
        BY <1>3
      <4>3. todo'[d] = todo[d]
        BY <2>1, <4>2
      <4> QED BY <1>2, <4>1, <4>3
    <3>2. CASE i \in 1..l
      <4>1. path'[i] = path[i] /\ path[i] \in Steps /\ x \in Uses(times, path[i])
        BY <1>1, <1>2, <3>2
      <4>2. CASE x \notin todo[path[i]]
        <5>1. x \in Searched \/ (i < l /\ x = path[i + 1])
          BY <3>2, <4>1, <4>2 DEF GraphInv, TodoOK, l
        <5>2. i < l => i + 1 \in 1..l /\ i < Len(path')
          BY <1>1, <3>2
        <5> QED BY <1>1, <1>4, <5>1, <5>2
      <4>3. CASE x \in todo[path[i]]
        <5>1. path[i] = n /\ path # <<>> /\ x = d
          BY <2>1, <2>4, <4>1, <4>3
        <5>2. \A a, b \in 1..l : path[a] = path[b] => a = b
          BY DEF GraphInv, PathOK, l
        <5>3. i = l
          BY <1>1, <1>3, <3>2, <5>1, <5>2
        <5> QED BY <1>1, <5>1, <5>3
      <4> QED BY <4>2, <4>3
    <3> QED BY <1>1, <3>1, <3>2
  <2> QED BY <2>2, <2>3, <2>4 DEF TodoOK
<1>8. Clean'
  <2>1. Searched \subseteq Steps
    BY <1>0 DEF Searched
  <2> QED BY <1>2, <1>4, <2>1 DEF GraphInv, Clean
<1> QED BY <1>2, <1>5, <1>6, <1>7, <1>8 DEF GraphInv

\* Whatever leaves the search alone.
LEMMA SearchAlone ==
    ASSUME GraphInv, UNCHANGED <<times, visited, path, todo>>
    PROVE  PathOK' /\ TodoOK' /\ Clean'
<1>1. UNCHANGED <<OnPath, Searched>>
  BY DEF OnPath, Searched
<1>2. PathOK'
  BY <1>1 DEF GraphInv, PathOK
<1>3. TodoOK'
  BY <1>1 DEF GraphInv, TodoOK
<1>4. Clean'
  BY <1>1 DEF GraphInv, Clean
<1> QED BY <1>2, <1>3, <1>4

\* The first checks of validate().
LEMMA ValidateKeeps == ASSUME GraphInv, Graph!Validate PROVE GraphInv'
<1>0. /\ planPhase = "validate" /\ UNCHANGED <<times, badIds, visited, path, todo, cycle,
                                               inDegree, frontier, layers>>
      /\ planPhase' = IF badIds \/ \E s \in Steps : s \in Graph!Deps(s) THEN "rejected" ELSE "search"
  BY DEF Graph!Validate, Graph!graphVars, Graph!searchVars, Graph!orderVars
<1>1. PathOK' /\ TodoOK' /\ Clean'
  BY <1>0, SearchAlone
<1>2. GraphTypes'
  BY <1>0 DEF GraphInv, GraphTypes
<1>3. Verdict'
  <2>1. CycleIsReal'
    BY <1>0 DEF GraphInv, Verdict, CycleIsReal, Graph!CycleIsReal, Graph!Last, Graph!Deps
  <2>2. ASSUME NEW s \in Steps, s \in Graph!Deps(s) PROVE Graph!Cyclic'
    <3>1. {s} \in SUBSET Steps /\ \A x \in {s} : Graph!Deps(x)' \cap {s} # {}
      BY <1>0, <2>2 DEF Graph!Deps
    <3> QED BY <3>1 DEF Graph!Cyclic
  <2>3. RejectsExactlyBadPlans'
    BY <1>0, <2>2 DEF RejectsExactlyBadPlans, Graph!RejectsExactlyBadPlans
  <2> QED BY <1>0, <2>1, <2>3 DEF Verdict
<1>4. Layered'
  BY <1>0 DEF GraphInv, Layered
<1> QED BY <1>1, <1>2, <1>3, <1>4 DEF GraphInv

\* A search starts at an unvisited step.
LEMMA SearchRootKeeps == ASSUME GraphInv, NEW s \in Steps, Graph!SearchRoot(s) PROVE GraphInv'
<1>1. /\ planPhase = "search" /\ path = <<>> /\ s \in Steps \ visited /\ Graph!Push(s)
      /\ UNCHANGED <<times, badIds, planPhase, todo, cycle, inDegree, frontier, layers>>
  BY DEF Graph!SearchRoot, Graph!graphVars, Graph!orderVars
<1> QED BY <1>1, PushKeeps

\* The cycle that is reported.
LEMMA ReportKeeps ==
    ASSUME GraphInv, NEW d \in Steps, planPhase = "search", path # <<>>,
           d \in todo[path[Len(path)]], Graph!Closes(d), planPhase' = "rejected",
           cycle' = Graph!CycleAt(d),
           UNCHANGED <<times, badIds, visited, path, todo, inDegree, frontier, layers>>
    PROVE  GraphInv'
<1> DEFINE l == Len(path)
<1>0. /\ l \in 1..l /\ l \in Nat /\ path \in Seq(Steps)
      /\ \A i \in 1..l : path[i] \in Steps
      /\ \A i \in 1..(l - 1) : path[i + 1] \in Uses(times, path[i])
      /\ d \in Uses(times, path[l])
  BY PathFacts DEF GraphInv, GraphTypes, PathOK, TodoOK
<1> DEFINE k == CHOOSE i \in 1..l : path[i] = d
<1>1. k \in 1..l /\ path[k] = d
  BY DEF Graph!Closes, Graph!InStack
<1>1a. cycle' = SubSeq(path, k, l) \o <<d>>
  BY DEF Graph!CycleAt
<1> HIDE DEF l, k
<1> DEFINE tail == SubSeq(path, k, l)
           c == tail \o <<d>>
           n == l - k + 1
<1>2. tail \in Seq(Steps) /\ Len(tail) = n /\ \A i \in 1..n : tail[i] = path[k + i - 1]
  <2>1. k \in Int /\ l \in Int /\ k <= l /\ \A i \in k..l : path[i] \in Steps
    BY <1>0, <1>1
  <2>2. /\ tail \in Seq(Steps) /\ Len(tail) = IF k <= l THEN l - k + 1 ELSE 0
        /\ \A i \in 1..(l - k + 1) : tail[i] = path[k + i - 1]
    BY <2>1, SubSeqProperties
  <2> QED BY <2>1, <2>2
<1> HIDE DEF tail
<1>3. <<d>> \in Seq(Steps) /\ Len(<<d>>) = 1 /\ <<d>>[1] = d
  OBVIOUS
<1>4. /\ Len(c) = n + 1 /\ c[n + 1] = d /\ n \in Nat /\ n >= 1
      /\ \A i \in 1..n : c[i] = path[k + i - 1]
      /\ c \in Seq(Steps)
  <2>1. /\ c \in Seq(Steps) /\ Len(c) = Len(tail) + Len(<<d>>)
        /\ \A i \in 1..Len(tail) + Len(<<d>>) :
              c[i] = IF i <= Len(tail) THEN tail[i] ELSE <<d>>[i - Len(tail)]
    BY <1>2, <1>3, ConcatProperties
  <2>2. n \in Nat /\ n >= 1
    BY <1>0, <1>1
  <2>3. n + 1 \in 1..n + 1 /\ ~(n + 1 <= n) /\ n + 1 - n = 1
    BY <2>2
  <2>4. c[n + 1] = d
    BY <1>2, <1>3, <2>1, <2>3
  <2>5. ASSUME NEW i \in 1..n PROVE c[i] = path[k + i - 1]
    <3>1. i \in 1..n + 1 /\ i <= n
      BY <2>2
    <3> QED BY <1>2, <1>3, <2>1, <3>1
  <2> QED BY <1>2, <1>3, <2>1, <2>2, <2>4, <2>5
<1> HIDE DEF c
<1>5. cycle' = c
  BY <1>1a DEF c, tail
<1>6. ASSUME NEW i \in 1..n PROVE c[i + 1] \in Uses(times, c[i])
  <2>1. CASE i = n
    <3>1. c[i] = path[l] /\ c[i + 1] = d
      BY <1>0, <1>1, <1>4, <2>1
    <3> QED BY <1>0, <3>1
  <2>2. CASE i # n
    <3>1. i + 1 \in 1..n /\ k + i - 1 \in 1..(l - 1) /\ k + (i + 1) - 1 = (k + i - 1) + 1
      BY <1>0, <1>1, <1>4, <2>2
    <3>2. c[i] = path[k + i - 1] /\ c[i + 1] = path[(k + i - 1) + 1]
      BY <1>4, <3>1
    <3> QED BY <1>0, <3>1, <3>2
  <2> QED BY <2>1, <2>2
<1>7. CycleIsReal'
  <2>1. c[1] = d
    <3>1. 1 \in 1..n /\ k + 1 - 1 = k
      BY <1>0, <1>1, <1>4
    <3> QED BY <1>1, <1>4, <3>1
  <2>2. \A i \in 1..(Len(c) - 1) : c[i + 1] \in Uses(times, c[i])
    BY <1>4, <1>6
  <2> QED BY <1>4, <1>5, <2>1, <2>2 DEF CycleIsReal, Graph!CycleIsReal, Graph!Last, Graph!Deps, Uses
<1>8. Graph!Cyclic'
  <2> DEFINE S == {c[i] : i \in 1..n}
  <2>1. S \in SUBSET Steps /\ S # {}
    <3>1. 1 \in 1..n /\ \A i \in 1..n : c[i] \in Steps
      <4>1. \A i \in 1..n : k + i - 1 \in 1..l
        BY <1>0, <1>1, <1>4
      <4> QED BY <1>0, <1>4, <4>1
    <3> QED BY <3>1
  <2>2. ASSUME NEW i \in 1..n PROVE Uses(times, c[i]) \cap S # {}
    <3>1. CASE i = n
      <4>1. c[i + 1] = c[1] /\ 1 \in 1..n
        <5>1. 1 \in 1..n /\ k + 1 - 1 = k
          BY <1>0, <1>1, <1>4
        <5> QED BY <1>1, <1>4, <3>1, <5>1
      <4> QED BY <1>6, <4>1
    <3>2. CASE i # n
      <4>1. i + 1 \in 1..n
        BY <1>4, <3>2
      <4> QED BY <1>6, <4>1
    <3> QED BY <3>1, <3>2
  <2>3. \A s \in S : Uses(times', s) \cap S # {}
    BY <2>2
  <2> HIDE DEF S
  <2> QED BY <2>1, <2>3 DEF Graph!Cyclic, Graph!Deps, Uses
<1>9. Verdict'
  BY <1>7, <1>8 DEF Verdict, RejectsExactlyBadPlans, Graph!RejectsExactlyBadPlans
<1>10. GraphTypes' /\ Layered'
  BY DEF GraphInv, GraphTypes, Layered
<1> QED BY <1>9, <1>10, SearchAlone DEF GraphInv

\* A dependency that is done with, or not visited yet, is ticked off.
LEMMA SearchDepKeeps == ASSUME GraphInv, NEW d \in Steps, Graph!SearchDep(d) PROVE GraphInv'
<1> DEFINE n == path[Len(path)]
<1>0. /\ planPhase = "search" /\ path # <<>> /\ d \in todo[n]
      /\ UNCHANGED <<times, badIds, inDegree, frontier, layers>>
      /\ todo \in [Steps -> SUBSET Steps] /\ n \in OnPath /\ n \in Steps
      /\ Len(path) \in 1..Len(path)
  BY PathFacts DEF Graph!SearchDep, Graph!Last, Graph!graphVars, Graph!orderVars, GraphInv, GraphTypes
<1>1. CASE /\ Graph!Closes(d) /\ planPhase' = "rejected" /\ cycle' = Graph!CycleAt(d)
           /\ UNCHANGED <<visited, path, todo>>
  BY <1>0, <1>1, ReportKeeps
<1>2. CASE /\ ~Graph!Closes(d) /\ todo' = [todo EXCEPT ![n] = todo[n] \ {d}]
           /\ d \notin visited /\ Graph!Push(d) /\ UNCHANGED <<planPhase, cycle>>
  BY <1>0, <1>2, PushKeeps
<1>3. CASE /\ ~Graph!Closes(d) /\ todo' = [todo EXCEPT ![n] = todo[n] \ {d}]
           /\ d \in visited /\ UNCHANGED <<visited, path, planPhase, cycle>>
  <2>1. Verdict' /\ Layered'
    BY <1>0, <1>3, SearchFrame
  <2>2. d \in Searched /\ UNCHANGED <<OnPath, Searched>>
    BY <1>3 DEF Graph!Closes, Graph!InStack, Searched, OnPath
  <2>3. GraphTypes'
    BY <1>0, <1>3 DEF GraphInv, GraphTypes
  <2>4. PathOK' /\ Clean'
    BY <1>0, <1>3, <2>2 DEF GraphInv, PathOK, Clean
  <2>5. TodoOK'
    <3>1. \A s \in Steps : todo'[s] \subseteq todo[s] /\ todo[s] \ todo'[s] \subseteq {d}
      BY <1>0, <1>3
    <3>2. \A s \in Steps \ visited : todo'[s] = todo[s]
      BY <1>0, <1>3 DEF GraphInv, PathOK
    <3>3. \A i \in 1..Len(path) : path[i] \in Steps
      BY PathFacts DEF GraphInv
    <3> QED BY <1>0, <1>3, <2>2, <3>1, <3>2, <3>3 DEF GraphInv, TodoOK
  <2> QED BY <2>1, <2>3, <2>4, <2>5 DEF GraphInv
<1> QED BY <1>1, <1>2, <1>3 DEF Graph!SearchDep, Graph!Last

\* A step whose dependencies are all done with is left.
LEMMA SearchPopKeeps == ASSUME GraphInv, Graph!SearchPop PROVE GraphInv'
<1> DEFINE l == Len(path)
           n == path[l]
<1>0. /\ planPhase = "search" /\ path # <<>> /\ todo[n] = {} /\ path' = SubSeq(path, 1, l - 1)
      /\ UNCHANGED <<times, badIds, planPhase, visited, todo, cycle, inDegree, frontier, layers>>
      /\ l \in 1..l /\ l \in Nat /\ path \in Seq(Steps) /\ n \in OnPath /\ n \in Steps
      /\ \A i \in 1..l : path[i] \in Steps
  BY PathFacts DEF Graph!SearchPop, Graph!Last, Graph!Front, Graph!graphVars, Graph!orderVars,
     GraphInv, GraphTypes
<1>1. path' \in Seq(Steps) /\ Len(path') = l - 1 /\ \A i \in 1..(l - 1) : path'[i] = path[i]
  <2>1. 1 \in Int /\ l - 1 \in Int /\ \A i \in 1..(l - 1) : path[i] \in Steps
    BY <1>0
  <2>2. /\ path' \in Seq(Steps) /\ Len(path') = IF 1 <= l - 1 THEN (l - 1) - 1 + 1 ELSE 0
        /\ \A i \in 1..((l - 1) - 1 + 1) : path'[i] = path[1 + i - 1]
    BY <1>0, <2>1, SubSeqProperties
  <2>3. (l - 1) - 1 + 1 = l - 1 /\ \A i \in 1..(l - 1) : 1 + i - 1 = i
    BY <1>0
  <2> QED BY <1>0, <2>2, <2>3
<1>2. \A i, j \in 1..l : path[i] = path[j] => i = j
  BY DEF GraphInv, PathOK
<1>3. n \in visited
  BY <1>0 DEF GraphInv, PathOK
<1> HIDE DEF l
<1>4. OnPath' = OnPath \ {n} /\ Searched' = Searched \cup {n} /\ n \notin Searched
  <2>1. ASSUME NEW x PROVE x \in OnPath' <=> x \in OnPath /\ x # n
    <3>1. x \in OnPath' <=> \E i \in 1..(l - 1) : path[i] = x
      BY <1>1 DEF OnPath
    <3>2. x \in OnPath <=> \E i \in 1..l : path[i] = x
      BY DEF OnPath, l
    <3>3. \A i \in 1..l : (i \in 1..(l - 1) <=> i # l) /\ 1..(l - 1) \subseteq 1..l
      BY <1>0
    <3> QED BY <1>0, <1>2, <3>1, <3>2, <3>3
  <2> QED BY <1>0, <1>3, <2>1 DEF Searched
<1>5. Uses(times, n) \subseteq Searched
  <2>1. \A d \in Uses(times, path[l]) \ todo[path[l]] : d \in Searched \/ (l < l /\ d = path[l + 1])
    BY <1>0 DEF GraphInv, TodoOK, l
  <2> QED BY <1>0, <2>1
<1>6. PathOK'
  <2>1. \A i \in 1..(l - 1) : i \in 1..l
    BY <1>0
  <2>2. \A i \in 1..((l - 1) - 1) : i \in 1..(l - 1) /\ i + 1 \in 1..(l - 1)
    BY <1>0
  <2>3. \A i \in 1..(l - 1) : path[i + 1] \in Uses(times, path[i])
    BY DEF GraphInv, PathOK, l
  <2>4. OnPath' \subseteq visited'
    BY <1>0, <1>4 DEF GraphInv, PathOK
  <2> QED BY <1>0, <1>1, <1>2, <2>1, <2>2, <2>3, <2>4 DEF PathOK
<1>7. TodoOK'
  <2>1. ASSUME NEW i \in 1..(l - 1), NEW d \in Uses(times, path[i]) \ todo[path[i]]
        PROVE  d \in Searched' \/ (i < l - 1 /\ d = path'[i + 1])
    <3>1. i \in 1..l /\ (i < l - 1 => i + 1 \in 1..(l - 1)) /\ (i < l /\ ~(i < l - 1) => i + 1 = l)
      BY <1>0
    <3>2. d \in Searched \/ (i < l /\ d = path[i + 1])
      BY <3>1 DEF GraphInv, TodoOK, l
    <3> QED BY <1>1, <1>4, <3>1, <3>2
  <2>2. \A s \in Steps : todo[s] \subseteq Uses(times, s)
    BY DEF GraphInv, TodoOK
  <2>3. \A s \in Steps \ visited : todo[s] = Uses(times, s)
    BY DEF GraphInv, TodoOK
  <2> QED BY <1>0, <1>1, <2>1, <2>2, <2>3 DEF TodoOK
<1>8. Clean'
  <2>1. \A s \in Searched' : Uses(times', s) \subseteq Searched'
    BY <1>0, <1>4, <1>5 DEF GraphInv, Clean
  <2>2. ASSUME NEW S \in SUBSET Searched', S # {} PROVE \E s \in S : Uses(times', s) \cap S = {}
    <3>1. CASE S = {n}
      BY <1>0, <1>4, <1>5, <3>1
    <3>2. CASE S # {n}
      <4>1. S \ {n} \in SUBSET Searched /\ S \ {n} # {}
        BY <1>4, <2>2, <3>2
      <4>2. PICK s \in S \ {n} : Uses(times, s) \cap (S \ {n}) = {}
        BY <4>1 DEF GraphInv, Clean
      <4>3. n \notin Uses(times, s)
        BY <1>4, <4>1, <4>2 DEF GraphInv, Clean
      <4> QED BY <1>0, <4>2, <4>3
    <3> QED BY <3>1, <3>2
  <2> QED BY <2>1, <2>2 DEF Clean
<1>9. GraphTypes' /\ Verdict' /\ Layered'
  BY <1>0, <1>1, SearchFrame DEF GraphInv, GraphTypes
<1> QED BY <1>6, <1>7, <1>8, <1>9 DEF GraphInv
-----------------------------------------------------------------------------
(* The layers *)

\* Where a step is placed.
LEMMA PlacedBelow ==
    ASSUME NEW k, NEW s
    PROVE  s \in Below(k) <=> \E i \in 1..(k - 1) : s \in layers[i]
BY DEF Below

\* The layers so far consist of steps.
LEMMA LayerFacts ==
    ASSUME GraphTypes
    PROVE  /\ Len(layers) \in Nat /\ Placed \subseteq Steps
           /\ \A k \in 1..Len(layers) : layers[k] \subseteq Steps
           /\ \A k \in 1..(Len(layers) + 1) : Below(k) \subseteq Placed
<1>1. Len(layers) \in Nat /\ \A k \in 1..Len(layers) : layers[k] \subseteq Steps
  BY LenProperties, ElementOfSeq DEF GraphTypes
<1> QED BY <1>1 DEF Placed, Below

\* No cycle: get_execution_order() starts.
LEMMA SearchDoneKeeps == ASSUME GraphInv, Graph!SearchDone PROVE GraphInv'
<1>0. /\ planPhase = "search" /\ path = <<>> /\ visited = Steps /\ planPhase' = "order"
      /\ inDegree' = [s \in Steps |-> Graph!MapThenSumSet(LAMBDA d : times[s][d], Steps)]
      /\ frontier' = {s \in Steps : Graph!Deps(s) = {}}
      /\ UNCHANGED <<times, badIds, visited, path, todo, cycle, layers>>
  BY DEF Graph!SearchDone, Graph!graphVars, Graph!searchVars
<1>1. PathOK' /\ TodoOK' /\ Clean' /\ GraphTypes'
  BY <1>0, SearchAlone DEF GraphInv, GraphTypes
<1>2. Searched = Steps
  <2>1. OnPath = {}
    BY <1>0, PathFacts DEF GraphInv
  <2> QED BY <1>0, <2>1 DEF Searched
<1>3. Verdict'
  <2>1. ~Graph!Cyclic'
    BY <1>0, <1>2 DEF GraphInv, Clean, Graph!Cyclic, Graph!Deps, Uses
  <2>2. CycleIsReal'
    BY <1>0 DEF GraphInv, Verdict, CycleIsReal, Graph!CycleIsReal, Graph!Last, Graph!Deps
  <2> QED BY <1>0, <2>1, <2>2 DEF GraphInv, Verdict, RejectsExactlyBadPlans, Graph!RejectsExactlyBadPlans
<1>4. Layered'
  <2>1. layers = <<>> /\ Len(layers) = 0
    BY <1>0, EmptySeq DEF GraphInv, Layered
  <2>2. Placed' = {} /\ Len(layers') = 0
    BY <1>0, <2>1 DEF Placed, Below
  <2>3. frontier' = LayerAt(Placed)'
    BY <1>0, <2>2 DEF LayerAt, Graph!Deps, Uses
  <2>4. ASSUME NEW s \in Steps PROVE inDegree'[s] = SumOf(times'[s], Steps \ Placed')
    <3>1. inDegree'[s] = SumOf(times[s], Steps)
      BY <1>0 DEF SumOf
    <3>2. Steps \ Placed' = Steps
      BY <2>2
    <3> QED BY <1>0, <3>1, <3>2
  <2>5. \A k \in 1..Len(layers') : layers'[k] = LayerAt(Below(k))'
    BY <2>2
  <2>6. planPhase' = "order"
    BY <1>0
  <2> QED BY <2>3, <2>4, <2>5, <2>6 DEF Layered
<1> QED BY <1>1, <1>3, <1>4 DEF GraphInv

\* One layer is peeled off: the in-degrees that reach zero are those of the
\* steps that may come next.
LEMMA PeelLayerKeeps == ASSUME GraphInv, Graph!PeelLayer PROVE GraphInv'
<1> DEFINE l == Len(layers)
           F == frontier
           P == Placed
<1>0. /\ planPhase = "order" /\ layers' = Append(layers, F)
      /\ inDegree' = [c \in Steps |-> inDegree[c] - Graph!Subtracted(c)]
      /\ frontier' = {c \in Steps : inDegree[c] > 0 /\ inDegree'[c] = 0}
      /\ UNCHANGED <<times, badIds, visited, path, todo, cycle, planPhase>>
  BY DEF Graph!PeelLayer, Graph!graphVars, Graph!searchVars
<1>1. /\ F = LayerAt(P) /\ P \subseteq Steps /\ l \in Nat /\ layers \in Seq(SUBSET Steps)
      /\ \A k \in 1..l : layers[k] = LayerAt(Below(k)) /\ layers[k] \subseteq Steps
      /\ \A k \in 1..(l + 1) : Below(k) \subseteq P
      /\ \A c \in Steps : inDegree[c] = SumOf(times[c], Steps \ P)
      /\ times \in [Steps -> [Steps -> Nat]]
  BY <1>0, LayerFacts DEF GraphInv, GraphTypes, Layered
<1>2. F \subseteq Steps \ P /\ F \in SUBSET Steps
  BY <1>1 DEF LayerAt
<1>3. ASSUME NEW c \in Steps PROVE Graph!Subtracted(c) = SumOf(times[c], F)
  BY DEF Graph!Subtracted, SumOf
<1> HIDE DEF F, P, l
<1>4. /\ layers' \in Seq(SUBSET Steps) /\ Len(layers') = l + 1 /\ layers'[l + 1] = F
      /\ \A k \in 1..l : layers'[k] = layers[k]
  <2>1. \A q \in Seq(SUBSET Steps) : \A e \in SUBSET Steps :
           /\ Append(q, e) \in Seq(SUBSET Steps) /\ Len(Append(q, e)) = Len(q) + 1
           /\ Append(q, e)[Len(q) + 1] = e /\ \A k \in 1..Len(q) : Append(q, e)[k] = q[k]
    BY AppendProperties
  <2> QED BY <1>0, <1>1, <1>2, <2>1 DEF l
<1>5. \A k \in 1..(l + 1) : Below(k)' = Below(k)
  <2>1. ASSUME NEW k \in 1..(l + 1) PROVE \A i \in 1..(k - 1) : i \in 1..l
    BY <1>1
  <2> QED BY <1>4, <2>1 DEF Below
<1>6. Placed' = P \cup F
  <2>1. ASSUME NEW s PROVE s \in Placed' <=> s \in P \/ s \in F
    <3>1. s \in Placed' <=> \E i \in 1..((l + 1) + 1 - 1) : s \in layers'[i]
      BY <1>4 DEF Placed, Below
    <3>2. s \in P <=> \E i \in 1..(l + 1 - 1) : s \in layers[i]
      BY DEF Placed, Below, P, l
    <3>3. /\ (l + 1) + 1 - 1 = l + 1 /\ l + 1 - 1 = l /\ l + 1 \in 1..(l + 1)
          /\ \A i \in 1..(l + 1) : i \in 1..l \/ i = l + 1
          /\ \A i \in 1..l : i \in 1..(l + 1)
      BY <1>1
    <3> QED BY <1>4, <3>1, <3>2, <3>3
  <2> QED BY <2>1
<1>7. ASSUME NEW c \in Steps
      PROVE  /\ inDegree[c] > 0 <=> ~(Uses(times, c) \subseteq P)
             /\ inDegree'[c] = SumOf(times[c], Steps \ (P \cup F))
             /\ inDegree'[c] = 0 <=> Uses(times, c) \subseteq P \cup F
  <2> DEFINE g == times[c]
  <2>1. g \in [Steps -> Nat] /\ IsFiniteSet(Steps)
    BY <1>1, WorkflowAssumption
  <2> HIDE DEF g
  <2>2. ASSUME NEW S \in SUBSET Steps
        PROVE  SumOf(g, S) \in Nat /\ (SumOf(g, S) = 0 <=> \A d \in S : g[d] = 0)
    <3>1. IsFiniteSet(S)
      BY <2>1, FS_Subset
    <3> QED BY <2>1, <3>1, SumType
  <2>3. SumOf(g, Steps \ P) - SumOf(g, F) = SumOf(g, (Steps \ P) \ F)
    <3>1. Steps \ P \in SUBSET Steps /\ IsFiniteSet(Steps \ P)
      BY <2>1, FS_Subset
    <3> QED BY <1>2, <2>1, <3>1, SumSplit
  <2>4. (Steps \ P) \ F = Steps \ (P \cup F)
    OBVIOUS
  <2>5. \A T \in SUBSET Steps : (\A d \in Steps \ T : g[d] = 0) <=> Uses(times, c) \subseteq T
    <3>1. \A d \in Steps : g[d] = 0 <=> ~(times[c][d] > 0)
      BY <2>1 DEF g
    <3> QED BY <3>1 DEF Uses
  <2>6. inDegree[c] = SumOf(g, Steps \ P)
    BY <1>1 DEF g
  <2>7. inDegree'[c] = SumOf(g, Steps \ (P \cup F))
    BY <1>0, <1>3, <2>3, <2>4, <2>6 DEF g
  <2>8. SumOf(g, Steps \ P) \in Nat /\ (SumOf(g, Steps \ P) = 0 <=> Uses(times, c) \subseteq P)
    <3>1. Steps \ P \in SUBSET Steps
      OBVIOUS
    <3> QED BY <1>1, <2>2, <2>5, <3>1
  <2>9. SumOf(g, Steps \ (P \cup F)) = 0 <=> Uses(times, c) \subseteq P \cup F
    <3>1. Steps \ (P \cup F) \in SUBSET Steps /\ P \cup F \in SUBSET Steps
      BY <1>1, <1>2
    <3> QED BY <2>2, <2>5, <3>1
  <2>10. inDegree[c] > 0 <=> ~(Uses(times, c) \subseteq P)
    BY <2>6, <2>8
  <2> QED BY <2>7, <2>9, <2>10 DEF g
<1>8. ASSUME NEW s \in P PROVE Uses(times, s) \subseteq P
  <2>1. PICK i \in 1..(l + 1 - 1) : s \in layers[i]
    BY DEF P, Placed, Below, l
  <2>2. i \in 1..l /\ i \in 1..(l + 1)
    BY <1>1
  <2> QED BY <1>1, <2>1, <2>2 DEF LayerAt
<1>9. frontier' = LayerAt(Placed)'
  <2>1. ASSUME NEW c \in Steps
        PROVE  c \in frontier' <=> c \notin P \cup F /\ Uses(times, c) \subseteq P \cup F
    BY <1>0, <1>1, <1>7, <1>8 DEF LayerAt
  <2>2. frontier' \subseteq Steps
    BY <1>0
  <2> QED BY <1>0, <1>6, <2>1, <2>2 DEF LayerAt
<1>10. Layered'
  <2>1. ASSUME NEW k \in 1..(l + 1) PROVE layers'[k] = LayerAt(Below(k))'
    <3>1. Below(k)' = Below(k) /\ LayerAt(Below(k))' = LayerAt(Below(k))
      BY <1>0, <1>5 DEF LayerAt
    <3>2. CASE k \in 1..l
      BY <1>1, <1>4, <3>1, <3>2
    <3>3. CASE k = l + 1
      BY <1>1, <1>4, <3>1, <3>3 DEF Placed, P, l
    <3> QED BY <1>1, <3>2, <3>3
  <2>2. \A s \in Steps : inDegree'[s] = SumOf(times'[s], Steps \ Placed')
    BY <1>0, <1>6, <1>7
  <2> QED BY <1>0, <1>4, <1>9, <2>1, <2>2 DEF Layered
<1>11. PathOK' /\ TodoOK' /\ Clean' /\ GraphTypes'
  BY <1>0, <1>4, SearchAlone DEF GraphInv, GraphTypes
<1>12. Verdict'
  BY <1>0 DEF GraphInv, Verdict, RejectsExactlyBadPlans, Graph!RejectsExactlyBadPlans, Graph!Cyclic,
     CycleIsReal, Graph!CycleIsReal, Graph!Last, Graph!Deps
<1> QED BY <1>10, <1>11, <1>12 DEF GraphInv

\* No step is left to place.
LEMMA OrderDoneKeeps == ASSUME GraphInv, Graph!OrderDone PROVE GraphInv'
<1>0. /\ planPhase = "order" /\ frontier = {} /\ planPhase' = "done"
      /\ UNCHANGED <<times, badIds, visited, path, todo, cycle, inDegree, frontier, layers>>
  BY DEF Graph!OrderDone, Graph!graphVars, Graph!searchVars, Graph!orderVars
<1>1. PathOK' /\ TodoOK' /\ Clean' /\ GraphTypes'
  BY <1>0, SearchAlone DEF GraphInv, GraphTypes
<1>2. Verdict'
  BY <1>0 DEF GraphInv, Verdict, RejectsExactlyBadPlans, Graph!RejectsExactlyBadPlans, Graph!Cyclic,
     CycleIsReal, Graph!CycleIsReal, Graph!Last, Graph!Deps
<1>3. Layered'
  <2>1. \A k : LayerAt(Below(k))' = LayerAt(Below(k))
    BY <1>0 DEF LayerAt, Below
  <2>2. Placed' = Placed /\ LayerAt(Placed)' = LayerAt(Placed)
    BY <1>0 DEF LayerAt, Placed, Below
  <2> QED BY <1>0, <2>1, <2>2 DEF GraphInv, Layered
<1> QED BY <1>1, <1>2, <1>3 DEF GraphInv

\* Every step of validate() and get_execution_order().
LEMMA GraphKeeps == ASSUME GraphInv, Graph!Next PROVE GraphInv'
BY ValidateKeeps, SearchPopKeeps, SearchDoneKeeps, PeelLayerKeeps, OrderDoneKeeps,
   SearchRootKeeps, SearchDepKeeps DEF Graph!Next

\* Nothing of it has happened yet.
LEMMA GraphFresh ==
    ASSUME planPhase \in {"validate", "none"}, times \in [Steps -> [Steps -> Nat]],
           badIds \in BOOLEAN, visited = {}, path = <<>>, cycle = <<>>, layers = <<>>,
           todo = [s \in Steps |-> Uses(times, s)]
    PROVE  GraphInv
<1>1. path \in Seq(Steps) /\ layers \in Seq(SUBSET Steps) /\ Len(path) = 0
  BY EmptySeq
<1>2. GraphTypes
  BY <1>1 DEF GraphTypes, Uses
<1>3. OnPath = {} /\ Searched = {}
  BY <1>1 DEF OnPath, Searched
<1>4. PathOK /\ TodoOK /\ Clean
  BY <1>1, <1>3 DEF PathOK, TodoOK, Clean
<1>5. Verdict /\ Layered
  BY DEF Verdict, RejectsExactlyBadPlans, Graph!RejectsExactlyBadPlans, CycleIsReal,
     Graph!CycleIsReal, Layered
<1> QED BY <1>2, <1>4, <1>5 DEF GraphInv

\* Another plan takes the place of the one at hand.
LEMMA GraphReplaced ==
    ASSUME NEW p \in Shapes, NEW ph \in {"validate", "none"}, Graph!Replace(p.times, p.bad, ph)
    PROVE  GraphInv' /\ times' = p.times /\ badIds' = p.bad
<1>1. /\ planPhase' = ph /\ times' = p.times /\ badIds' = p.bad
      /\ visited' = {} /\ path' = <<>> /\ cycle' = <<>> /\ layers' = <<>>
      /\ todo' = [s \in Steps |-> Uses(times', s)]
  BY DEF Graph!Replace, Uses
<1>2. p.times \in [Steps -> [Steps -> Nat]] /\ p.bad \in BOOLEAN
  BY DEF Shapes
<1>3. path' \in Seq(Steps) /\ layers' \in Seq(SUBSET Steps) /\ Len(path') = 0
  BY <1>1, EmptySeq
<1>4. GraphTypes'
  BY <1>1, <1>2, <1>3 DEF GraphTypes, Uses
<1>5. OnPath' = {} /\ Searched' = {}
  BY <1>1, <1>3 DEF OnPath, Searched
<1>6. PathOK' /\ TodoOK' /\ Clean'
  BY <1>1, <1>3, <1>5 DEF PathOK, TodoOK, Clean
<1>7. Verdict' /\ Layered'
  BY <1>1 DEF Verdict, RejectsExactlyBadPlans, Graph!RejectsExactlyBadPlans, CycleIsReal,
     Graph!CycleIsReal, Layered
<1> QED BY <1>1, <1>4, <1>6, <1>7 DEF GraphInv

\* Whatever leaves the plan alone.
LEMMA GraphAlone == ASSUME GraphInv, UNCHANGED graphVars PROVE GraphInv'
<1>1. UNCHANGED <<times, badIds, planPhase, visited, path, todo, cycle, inDegree, frontier, layers>>
  BY DEF graphVars
<1>2. PathOK' /\ TodoOK' /\ Clean' /\ GraphTypes'
  BY <1>1, SearchAlone DEF GraphInv, GraphTypes
<1>3. Verdict'
  BY <1>1 DEF GraphInv, Verdict, RejectsExactlyBadPlans, Graph!RejectsExactlyBadPlans, Graph!Cyclic,
     CycleIsReal, Graph!CycleIsReal, Graph!Last, Graph!Deps
<1>4. Layered'
  <2>1. \A k : LayerAt(Below(k))' = LayerAt(Below(k))
    BY <1>1 DEF LayerAt, Below
  <2>2. Placed' = Placed /\ LayerAt(Placed)' = LayerAt(Placed)
    BY <1>1 DEF LayerAt, Placed, Below
  <2> QED BY <1>1, <2>1, <2>2 DEF GraphInv, Layered
<1> QED BY <1>2, <1>3, <1>4 DEF GraphInv

\* The layers place every step once, as early as its dependencies allow.
LEMMA LayersSound == ASSUME GraphInv PROVE LayersCorrect
<1> SUFFICES ASSUME planPhase = "done" PROVE LayersCorrect
  BY DEF LayersCorrect, Graph!LayersCorrect
<1> DEFINE l == Len(layers)
           L(s) == Graph!LayerOf(s)
<1>1. /\ l \in Nat /\ Placed \subseteq Steps
      /\ \A k \in 1..l : layers[k] = LayerAt(Below(k)) /\ layers[k] \subseteq Steps
      /\ LayerAt(Placed) = {}
  BY LayerFacts DEF GraphInv, Layered
<1>2. Steps \subseteq Placed
  <2> DEFINE U == Steps \ Placed
  <2> SUFFICES ASSUME U # {} PROVE FALSE
    OBVIOUS
  <2>1. PICK s \in U : Uses(times, s) \cap U = {}
    BY DEF GraphInv, Verdict, RejectsExactlyBadPlans, Graph!RejectsExactlyBadPlans, Graph!Cyclic,
       Graph!Deps, Uses
  <2>2. s \in LayerAt(Placed)
    BY <2>1 DEF LayerAt, Uses
  <2> QED BY <1>1, <2>2
<1> HIDE DEF l
<1>3. ASSUME NEW s \in Steps PROVE \E k \in 1..l : s \in layers[k]
  <2>1. PICK k \in 1..(l + 1 - 1) : s \in layers[k]
    BY <1>2 DEF Placed, Below, l
  <2> QED BY <1>1, <2>1
<1>4. ASSUME NEW s, NEW i \in 1..l, NEW j \in 1..l, s \in layers[i], s \in layers[j] PROVE i = j
  <2>1. ASSUME NEW a \in 1..l, NEW b \in 1..l, a < b, s \in layers[a], s \in layers[b] PROVE FALSE
    <3>1. a \in 1..(b - 1)
      BY <1>1, <2>1
    <3>2. s \in Below(b)
      BY <2>1, <3>1 DEF Below
    <3> QED BY <1>1, <2>1, <3>2 DEF LayerAt
  <2> QED BY <1>1, <1>4, <2>1
<1>5. ASSUME NEW s \in Steps
      PROVE  L(s) \in 1..l /\ s \in layers[L(s)] /\ \A k \in 1..l : s \in layers[k] => k = L(s)
  <2>1. L(s) \in 1..l /\ s \in layers[L(s)]
    BY <1>3 DEF Graph!LayerOf, l
  <2> QED BY <1>4, <2>1
<1>6. ASSUME NEW s \in Steps PROVE Cardinality({k \in 1..Len(layers) : s \in layers[k]}) = 1
  <2>1. {k \in 1..l : s \in layers[k]} = {L(s)}
    BY <1>5
  <2>2. Cardinality({L(s)}) = 1
    BY FS_Singleton
  <2> QED BY <2>1, <2>2 DEF l
<1> HIDE DEF L
<1>7. ASSUME NEW s \in Steps, NEW d \in Uses(times, s) PROVE d \in Steps /\ L(d) < L(s)
  <2>1. d \in Steps
    BY DEF Uses
  <2>2. d \in Below(L(s))
    BY <1>1, <1>5 DEF LayerAt
  <2>3. PICK i \in 1..(L(s) - 1) : d \in layers[i]
    BY <2>2 DEF Below
  <2>4. i \in 1..l /\ i < L(s)
    BY <1>1, <1>5, <2>3
  <2> QED BY <1>5, <2>1, <2>3, <2>4
<1>8. ASSUME NEW s \in Steps, L(s) # 1 PROVE \E d \in Uses(times, s) : L(d) = L(s) - 1
  <2> DEFINE k == L(s) - 1
  <2>1. k \in 1..l /\ k + 1 = L(s) /\ k \in Nat
    BY <1>1, <1>5, <1>8
  <2> HIDE DEF k
  <2>2. s \notin layers[k]
    BY <1>1, <1>5, <2>1
  <2>3. s \notin Below(k)
    <3>1. ASSUME NEW i \in 1..(k - 1), s \in layers[i] PROVE FALSE
      <4>1. i \in 1..l /\ i # L(s)
        BY <1>1, <2>1
      <4> QED BY <1>5, <3>1, <4>1
    <3> QED BY <3>1 DEF Below
  <2>4. PICK d \in Uses(times, s) : d \notin Below(k)
    BY <1>1, <2>1, <2>2, <2>3 DEF LayerAt
  <2>5. d \in Steps /\ L(d) < L(s) /\ L(d) \in 1..l /\ d \in layers[L(d)]
    BY <1>5, <1>7
  <2>6. ~(L(d) \in 1..(k - 1))
    BY <2>4, <2>5 DEF Below
  <2>7. L(d) = k
    BY <1>1, <1>5, <2>1, <2>5, <2>6
  <2> QED BY <2>7 DEF k
<1>9. ASSUME NEW s \in Steps PROVE L(s) = 1 + Graph!Max({0} \cup {L(d) : d \in Graph!Deps(s)})
  <2> DEFINE M == {0} \cup {L(d) : d \in Graph!Deps(s)}
  <2>1. Graph!Deps(s) = Uses(times, s)
    BY DEF Graph!Deps, Uses
  <2>2. \A y \in M : y \in Nat /\ y <= L(s) - 1
    <3>1. \A d \in Uses(times, s) : L(d) \in 1..l /\ L(d) < L(s)
      BY <1>5, <1>7
    <3> QED BY <1>1, <1>5, <2>1, <3>1
  <2>3. L(s) - 1 \in M
    BY <1>5, <1>8, <2>1
  <2> HIDE DEF M
  <2>4. Graph!Max(M) = L(s) - 1
    BY <2>2, <2>3 DEF Graph!Max
  <2>5. L(s) \in Nat
    BY <1>5
  <2> QED BY <2>4, <2>5 DEF M
<1>10. \A s \in Steps : Graph!LayerOf(s) = 1 + Graph!Max({0} \cup {Graph!LayerOf(d) : d \in Graph!Deps(s)})
  BY <1>9 DEF L
<1>11. \A S : Graph!Cardinality(S) = Cardinality(S)
  BY DEF Cardinality, Graph!Cardinality
<1> QED BY <1>6, <1>10, <1>11 DEF LayersCorrect, Graph!LayersCorrect
-----------------------------------------------------------------------------
(* The executor *)

\* The steps under way are in the layer, which waits for earlier layers only.
LEMMA LayerOnly ==
    ASSUME RunInv
    PROVE  /\ past \subseteq Steps /\ layer \subseteq Steps \ past
           /\ \A s \in layer : s \in Steps /\ s \notin past /\ deps[s] \subseteq past
           /\ \A s \in Steps : at[s] \in Exec!Active => s \in layer
<1>1. past \subseteq Steps /\ layer \subseteq Steps
  BY DEF RunInv, TypeOK, Exec!TypeOK
<1>2. \A s \in layer : s \notin past /\ deps[s] \subseteq past
  BY DEF RunInv, RunLayers, Exec!Frontier
<1>3. ASSUME NEW s \in Steps, at[s] \in Exec!Active PROVE s \in layer
  <2>1. at[s] # "finished" /\ at[s] # "waiting"
    BY <1>3 DEF Exec!Active
  <2> QED BY <2>1 DEF RunInv, RunLayers
<1> QED BY <1>1, <1>2, <1>3

\* One step of the layer gets on.
LEMMA StepKeeps ==
    ASSUME RunInv, runPhase = "running", NEW s \in layer,
           NEW a \in {"finished"} \cup Exec!Active,
           NEW r \in {"PENDING", "RUNNING", "COMPLETED", "FAILED", "SKIPPED"},
           NEW n \in 0..(RetryCount + 1),
           at' = [at EXCEPT ![s] = a], status' = [status EXCEPT ![s] = r],
           attempt' = [attempt EXCEPT ![s] = n],
           UNCHANGED <<deps, parallel, failFast, runPhase, past, layer>>,
           a = "finished" => r \in {"COMPLETED"} \cup Exec!Bad,
           a \in Exec!Active => ~Exec!Blocked(s),
           a = "backoff" => n <= RetryCount,
           ~parallel /\ a \in Exec!Active => \A t \in layer \ {s} : at[t] \notin Exec!Active
    PROVE  RunInv'
<1>1. /\ at \in [Steps -> {"waiting", "finished"} \cup Exec!Active]
      /\ status \in [Steps -> {"PENDING", "RUNNING", "COMPLETED", "FAILED", "SKIPPED"}]
      /\ attempt \in [Steps -> 0..(RetryCount + 1)]
      /\ s \in Steps /\ s \notin past /\ past \subseteq Steps
  BY LayerOnly DEF RunInv, TypeOK, Exec!TypeOK
<1>2. /\ at'[s] = a /\ status'[s] = r /\ attempt'[s] = n
      /\ \A t \in Steps \ {s} : at'[t] = at[t] /\ status'[t] = status[t] /\ attempt'[t] = attempt[t]
  BY <1>1
<1>3. TypeOK'
  <2>1. /\ at' \in [Steps -> {"waiting", "finished"} \cup Exec!Active]
        /\ status' \in [Steps -> {"PENDING", "RUNNING", "COMPLETED", "FAILED", "SKIPPED"}]
        /\ attempt' \in [Steps -> 0..(RetryCount + 1)]
    BY <1>1
  <2> QED BY <2>1 DEF RunInv, TypeOK, Exec!TypeOK
<1>4. RunLayers'
  <2>1. layer' = Exec!Frontier(past)'
    BY DEF RunInv, RunLayers, Exec!Frontier
  <2>2. \A t \in past : at'[t] = "finished" /\ deps[t] \subseteq past
    BY <1>1, <1>2 DEF RunInv, RunLayers
  <2>3. \A t \in Steps \ (past \cup layer) : at'[t] = "waiting"
    BY <1>2 DEF RunInv, RunLayers
  <2> QED BY <2>1, <2>2, <2>3 DEF RunLayers
<1>5. ASSUME NEW t \in layer PROVE Exec!Blocked(t)' <=> Exec!Blocked(t)
  <2>1. \A d \in deps[t] : status'[d] = status[d]
    BY <1>1, <1>2, LayerOnly
  <2> QED BY <2>1 DEF Exec!Blocked, Exec!Bad
<1>6. RunStatus'
  <2> SUFFICES ASSUME NEW t \in Steps
               PROVE  /\ at'[t] = "waiting" => status'[t] = "PENDING"
                      /\ at'[t] = "finished" => status'[t] \in {"COMPLETED"} \cup Exec!Bad
                      /\ at'[t] \in Exec!Active => ~Exec!Blocked(t)'
                      /\ at'[t] = "backoff" => attempt'[t] <= RetryCount
    BY DEF RunStatus, Exec!Bad, Exec!Active
  <2>1. CASE t = s
    BY <1>2, <1>5, <2>1 DEF Exec!Active
  <2>2. CASE t # s
    <3>1. at'[t] \in Exec!Active => t \in layer
      BY <1>2, <2>2, LayerOnly
    <3> QED BY <1>2, <1>5, <2>2, <3>1 DEF RunInv, RunStatus
  <2> QED BY <2>1, <2>2
<1>7. OneActive'
  <2> SUFFICES ASSUME ~parallel, NEW t \in Steps, NEW u \in Steps,
                      at'[t] \in Exec!Active, at'[u] \in Exec!Active
               PROVE  t = u
    BY DEF OneActive, Exec!Active
  <2>1. CASE a \in Exec!Active
    BY <1>2, <2>1, LayerOnly
  <2>2. CASE a \notin Exec!Active
    BY <1>2, <2>2 DEF RunInv, OneActive
  <2> QED BY <2>1, <2>2
<1> QED BY <1>3, <1>4, <1>6, <1>7 DEF RunInv

\* The graph of the plan that is executed.
OfPlan == GraphInv /\ planPhase = "done" /\ deps = [s \in Steps |-> Uses(times, s)]

\* The executor's layers are those of the plan, and one is left until all
\* steps are placed.
LEMMA PlanFacts ==
    ASSUME OfPlan
    PROVE  /\ \A p : Exec!Frontier(p) = LayerAt(p)
           /\ \A p \in SUBSET Steps : LayerAt(p) = {} => p = Steps
           /\ Exec!Acyclic(deps)
<1>1. \A S \in SUBSET Steps : S # {} => \E s \in S : Uses(times, s) \cap S = {}
  BY DEF OfPlan, GraphInv, Verdict, RejectsExactlyBadPlans, Graph!RejectsExactlyBadPlans,
     Graph!Cyclic, Graph!Deps, Uses
<1>2. Exec!Acyclic(deps)
  BY <1>1 DEF Exec!Acyclic, OfPlan
<1>3. ASSUME NEW p \in SUBSET Steps, p # Steps PROVE LayerAt(p) # {}
  <2>1. PICK s \in Steps \ p : Uses(times, s) \cap (Steps \ p) = {}
    BY <1>1, <1>3
  <2> QED BY <2>1 DEF LayerAt, Uses
<1> QED BY <1>2, <1>3 DEF OfPlan, Exec!Frontier, LayerAt

\* execute() enters its loop at the first layer.
LEMMA BeginRunKeeps ==
    ASSUME RunInv, FollowsLayers, OfPlan, Exec!BeginRun, UNCHANGED layers
    PROVE  RunInv' /\ FollowsLayers'
<1>0. /\ runPhase = "new" /\ layer' = Exec!Frontier({})
      /\ runPhase' = IF layer' = {} THEN "returned" ELSE "running"
      /\ UNCHANGED <<deps, parallel, failFast, past, at, status, attempt, layers>>
  BY DEF Exec!BeginRun, Exec!planVars
<1>1. past = {} /\ layer = {} /\ \A s \in Steps : at[s] = "waiting"
  BY <1>0 DEF RunInv, RunLayers
<1>2. layer' = LayerAt({}) /\ layer' \subseteq Steps /\ (layer' = {} => Steps = {})
  <2>1. layer' = LayerAt({}) /\ ({} \in SUBSET Steps /\ LayerAt({}) = {} => Steps = {})
    BY <1>0, PlanFacts
  <2> QED BY <2>1 DEF LayerAt
<1>3. TypeOK'
  BY <1>0, <1>2 DEF RunInv, TypeOK, Exec!TypeOK
<1>4. RunLayers'
  <2>1. layer' = Exec!Frontier(past)'
    BY <1>0, <1>1 DEF Exec!Frontier
  <2> QED BY <1>0, <1>1, <1>2, <2>1 DEF RunLayers
<1>5. RunStatus' /\ OneActive'
  BY <1>0 DEF RunInv, RunStatus, OneActive, Exec!Blocked, Exec!Bad, Exec!Active
<1>6. FollowsLayers'
  <2> SUFFICES ASSUME layer' # {}
               PROVE  \E k \in 1..Len(layers) : layer' = layers[k] /\ past' = UNION {layers[i] : i \in 1..(k - 1)}
    BY <1>0 DEF FollowsLayers
  <2>1. Len(layers) \in Nat
    BY LayerFacts DEF OfPlan, GraphInv
  <2>2. Len(layers) # 0
    <3>1. SUFFICES ASSUME Len(layers) = 0 PROVE FALSE
      OBVIOUS
    <3>2. Placed = {}
      BY <3>1 DEF Placed, Below
    <3> QED BY <1>2, <3>2 DEF OfPlan, GraphInv, Layered
  <2>3. 1 \in 1..Len(layers) /\ Below(1) = {} /\ layers[1] = LayerAt(Below(1))
    BY <2>1, <2>2 DEF OfPlan, GraphInv, Layered, Below
  <2> QED BY <1>0, <1>1, <1>2, <2>3 DEF Below
<1> QED BY <1>3, <1>4, <1>5, <1>6 DEF RunInv

\* The loop goes on to the next layer, or has come to its end.
LEMMA NextLayerKeeps ==
    ASSUME RunInv, FollowsLayers, OfPlan, Exec!NextLayer, UNCHANGED layers
    PROVE  RunInv' /\ FollowsLayers'
<1>0. /\ runPhase = "running" /\ past' = past \cup layer /\ layer' = Exec!Frontier(past')
      /\ \A s \in layer : at[s] = "finished"
      /\ runPhase' = IF layer' = {} THEN "returned" ELSE "running"
      /\ UNCHANGED <<deps, parallel, failFast, at, status, attempt, layers>>
  BY DEF Exec!NextLayer, Exec!LayerDone, Exec!planVars
<1>1. /\ past' \subseteq Steps /\ layer \subseteq Steps
      /\ \A s \in layer : deps[s] \subseteq past
  BY <1>0, LayerOnly
<1>2. layer' = LayerAt(past') /\ layer' \subseteq Steps /\ (layer' = {} => past' = Steps)
  <2>1. layer' = LayerAt(past') /\ (LayerAt(past') = {} => past' = Steps)
    BY <1>0, <1>1, PlanFacts
  <2> QED BY <2>1 DEF LayerAt
<1>3. TypeOK'
  BY <1>0, <1>1, <1>2 DEF RunInv, TypeOK, Exec!TypeOK
<1>4. RunLayers'
  <2>1. layer' = Exec!Frontier(past)'
    BY <1>0 DEF Exec!Frontier
  <2>2. \A s \in past' : at[s] = "finished" /\ deps[s] \subseteq past'
    BY <1>0, <1>1 DEF RunInv, RunLayers
  <2>3. \A s \in Steps \ (past' \cup layer') : at[s] = "waiting"
    BY <1>0 DEF RunInv, RunLayers
  <2> QED BY <1>0, <1>2, <2>1, <2>2, <2>3 DEF RunLayers
<1>5. RunStatus' /\ OneActive'
  BY <1>0 DEF RunInv, RunStatus, OneActive, Exec!Blocked, Exec!Bad, Exec!Active
<1>6. FollowsLayers'
  <2> SUFFICES ASSUME layer' # {}
               PROVE  \E k \in 1..Len(layers) : layer' = layers[k] /\ past' = UNION {layers[i] : i \in 1..(k - 1)}
    <3>1. layers' = layers /\ (runPhase' = "running" => layer' # {})
      BY <1>0
    <3> QED BY <3>1 DEF FollowsLayers
  <2>1. PICK k \in 1..Len(layers) : layer = layers[k] /\ past = Below(k)
    BY <1>0 DEF FollowsLayers, Below
  <2>2. Len(layers) \in Nat /\ k \in Nat
    BY <2>1, LayerFacts DEF OfPlan, GraphInv
  <2>3. past' = Below(k + 1)
    <3>1. ASSUME NEW s PROVE s \in Below(k + 1) <=> s \in Below(k) \/ s \in layers[k]
      <4>1. k + 1 - 1 = k /\ \A i : i \in 1..k <=> i \in 1..(k - 1) \/ i = k
        BY <2>1, <2>2
      <4> QED BY <4>1 DEF Below
    <3> QED BY <1>0, <2>1, <3>1
  <2>4. k # Len(layers)
    <3> SUFFICES ASSUME k = Len(layers) PROVE FALSE
      OBVIOUS
    <3>1. past' = Placed
      BY <2>3 DEF Placed
    <3> QED BY <1>2, <3>1 DEF OfPlan, GraphInv, Layered
  <2>5. k + 1 \in 1..Len(layers)
    BY <2>1, <2>2, <2>4
  <2>6. layers[k + 1] = LayerAt(Below(k + 1))
    BY <2>5 DEF OfPlan, GraphInv, Layered
  <2> QED BY <1>2, <2>3, <2>5, <2>6 DEF Below
<1> QED BY <1>3, <1>4, <1>5, <1>6 DEF RunInv

\* The steps of a layer, and the caller's cancellation.
LEMMA AttemptsKeep ==
    ASSUME RunInv, FollowsLayers, UNCHANGED layers,
           \/ Exec!CancelExecute
           \/ \E s \in Steps : \/ Exec!BeginStep(s) \/ Exec!AttemptSucceeds(s)
                               \/ Exec!AttemptFails(s) \/ Exec!Retry(s)
    PROVE  RunInv' /\ FollowsLayers'
<1> USE DEF Exec!planVars, Exec!Active, Exec!Bad
<1>0. /\ \A s \in Steps : /\ attempt[s] \in 0..(RetryCount + 1)
                          /\ status[s] \in {"PENDING", "RUNNING", "COMPLETED", "FAILED", "SKIPPED"}
      /\ RetryCount \in Nat
  BY WorkflowAssumption DEF RunInv, TypeOK, Exec!TypeOK
<1>1. CASE Exec!CancelExecute
  <2>1. /\ runPhase = "running" /\ runPhase' = "cancelled"
        /\ UNCHANGED <<deps, parallel, failFast, past, layer, at, status, attempt>>
    BY <1>1 DEF Exec!CancelExecute
  <2>2. TypeOK' /\ RunStatus' /\ OneActive' /\ FollowsLayers'
    BY <2>1 DEF RunInv, TypeOK, Exec!TypeOK, RunStatus, OneActive, Exec!Blocked, FollowsLayers
  <2>3. RunLayers'
    BY <2>1 DEF RunInv, RunLayers, Exec!Frontier
  <2> QED BY <2>2, <2>3 DEF RunInv
<1>2. ASSUME NEW s \in Steps, Exec!BeginStep(s) PROVE RunInv' /\ FollowsLayers'
  <2>1. /\ runPhase = "running" /\ s \in layer
        /\ UNCHANGED <<deps, parallel, failFast, runPhase, past, layer>>
        /\ ~parallel => \A t \in layer : at[t] \notin Exec!Active
    BY <1>2 DEF Exec!BeginStep, Exec!Turn
  <2>2. attempt[s] \in 0..(RetryCount + 1) /\ 1 \in 0..(RetryCount + 1)
    BY <1>0
  <2>3. CASE /\ Exec!Blocked(s) /\ status' = [status EXCEPT ![s] = "SKIPPED"]
             /\ at' = [at EXCEPT ![s] = "finished"] /\ UNCHANGED attempt
    <3>1. attempt' = [attempt EXCEPT ![s] = attempt[s]]
      BY <2>3 DEF RunInv, TypeOK, Exec!TypeOK
    <3>2. RunInv'
      BY <2>1, <2>2, <2>3, <3>1, StepKeeps
    <3> QED BY <2>1, <3>2 DEF FollowsLayers
  <2>4. CASE /\ ~Exec!Blocked(s) /\ status' = [status EXCEPT ![s] = "RUNNING"]
             /\ at' = [at EXCEPT ![s] = "running"] /\ attempt' = [attempt EXCEPT ![s] = 1]
    <3>2. RunInv'
      BY <2>1, <2>2, <2>4, StepKeeps
    <3> QED BY <2>1, <3>2 DEF FollowsLayers
  <2> QED BY <1>2, <2>3, <2>4 DEF Exec!BeginStep
<1>3. ASSUME NEW s \in Steps, Exec!AttemptSucceeds(s) \/ Exec!AttemptFails(s) \/ Exec!Retry(s)
      PROVE  RunInv' /\ FollowsLayers'
  <2>1. /\ runPhase = "running" /\ at[s] \in Exec!Active
        /\ UNCHANGED <<deps, parallel, failFast, runPhase, past, layer>>
    BY <1>3 DEF Exec!AttemptSucceeds, Exec!AttemptFails, Exec!Retry
  <2>2. s \in layer /\ ~Exec!Blocked(s) /\ (~parallel => \A t \in layer \ {s} : at[t] \notin Exec!Active)
    BY <2>1, LayerOnly DEF RunInv, RunStatus, OneActive
  <2>3. /\ attempt[s] \in 0..(RetryCount + 1)
        /\ status[s] \in {"PENDING", "RUNNING", "COMPLETED", "FAILED", "SKIPPED"}
        /\ status = [status EXCEPT ![s] = status[s]]
        /\ attempt = [attempt EXCEPT ![s] = attempt[s]]
    BY <1>0 DEF RunInv, TypeOK, Exec!TypeOK
  <2>4. CASE Exec!AttemptSucceeds(s)
    <3>1. /\ status' = [status EXCEPT ![s] = "COMPLETED"] /\ at' = [at EXCEPT ![s] = "finished"]
          /\ attempt' = [attempt EXCEPT ![s] = attempt[s]]
      BY <2>3, <2>4 DEF Exec!AttemptSucceeds
    <3>2. RunInv'
      BY <2>1, <2>2, <2>3, <3>1, StepKeeps
    <3> QED BY <2>1, <3>2 DEF FollowsLayers
  <2>5. CASE Exec!AttemptFails(s)
    <3>1. attempt' = [attempt EXCEPT ![s] = attempt[s]]
      BY <2>3, <2>5 DEF Exec!AttemptFails
    <3>2. CASE Exec!RetriesLeft(s) /\ at' = [at EXCEPT ![s] = "backoff"]
               /\ (status' = [status EXCEPT ![s] = "FAILED"] \/ UNCHANGED status)
      <4>1. \E r \in {"FAILED", status[s]} : status' = [status EXCEPT ![s] = r]
        BY <2>3, <3>2
      <4>2. RunInv'
        BY <2>1, <2>2, <2>3, <3>1, <3>2, <4>1, StepKeeps DEF Exec!RetriesLeft
      <4> QED BY <2>1, <4>2 DEF FollowsLayers
    <3>3. CASE at' = [at EXCEPT ![s] = "finished"] /\ status' = [status EXCEPT ![s] = "FAILED"]
      <4>1. RunInv'
        BY <2>1, <2>2, <2>3, <3>1, <3>3, StepKeeps
      <4> QED BY <2>1, <4>1 DEF FollowsLayers
    <3> QED BY <2>5, <3>2, <3>3 DEF Exec!AttemptFails
  <2>6. CASE Exec!Retry(s)
    <3>1. /\ at[s] = "backoff" /\ at' = [at EXCEPT ![s] = "running"]
          /\ attempt' = [attempt EXCEPT ![s] = attempt[s] + 1]
          /\ status' = [status EXCEPT ![s] = status[s]]
      BY <2>3, <2>6 DEF Exec!Retry
    <3>2. attempt[s] + 1 \in 0..(RetryCount + 1)
      BY <1>0, <3>1 DEF RunInv, RunStatus
    <3>3. RunInv'
      BY <2>1, <2>2, <2>3, <3>1, <3>2, StepKeeps
    <3> QED BY <2>1, <3>3 DEF FollowsLayers
  <2> QED BY <1>3, <2>4, <2>5, <2>6
<1> QED BY <1>1, <1>2, <1>3

\* Every step of the executor.
LEMMA ExecKeeps ==
    ASSUME RunInv, FollowsLayers, OfPlan, Exec!Next, UNCHANGED layers
    PROVE  RunInv' /\ FollowsLayers'
BY BeginRunKeeps, NextLayerKeeps, AttemptsKeep DEF Exec!Next

\* Whatever leaves the executor alone.
LEMMA RunAlone ==
    ASSUME RunInv, UNCHANGED <<deps, parallel, failFast, runPhase, past, layer, at, status, attempt>>
    PROVE  RunInv'
<1>1. TypeOK' /\ RunStatus' /\ OneActive'
  BY DEF RunInv, TypeOK, Exec!TypeOK, RunStatus, OneActive, Exec!Blocked, Exec!Active, Exec!Bad
<1>2. RunLayers'
  BY DEF RunInv, RunLayers, Exec!Frontier
<1> QED BY <1>1, <1>2 DEF RunInv

\* A new executor.
LEMMA RunReplaced ==
    ASSUME NEW p \in Shapes, Exec!Replace(DepsOf(p))
    PROVE  RunInv' /\ FollowsLayers' /\ runPhase' = "new" /\ deps' = [s \in Steps |-> Uses(p.times, s)]
<1>1. /\ deps' = [s \in Steps |-> Uses(p.times, s)] /\ parallel' = TRUE /\ failFast' = TRUE
      /\ runPhase' = "new" /\ past' = {} /\ layer' = {} /\ at' = [s \in Steps |-> "waiting"]
      /\ status' = [s \in Steps |-> "PENDING"] /\ attempt' = [s \in Steps |-> 0]
  BY DEF Exec!Replace, DepsOf, Uses
<1>2. \A s \in Steps : at'[s] = "waiting" /\ status'[s] = "PENDING"
  BY <1>1
<1>3. TypeOK'
  <2>1. 0 \in 0..(RetryCount + 1)
    BY WorkflowAssumption
  <2>2. attempt' \in [Steps -> 0..(RetryCount + 1)]
    BY <1>1, <2>1
  <2>3. deps' \in [Steps -> SUBSET Steps]
    BY <1>1 DEF Uses
  <2>4. /\ at' \in [Steps -> {"waiting", "finished"} \cup Exec!Active]
        /\ status' \in [Steps -> {"PENDING", "RUNNING", "COMPLETED", "FAILED", "SKIPPED"}]
    BY <1>1
  <2> QED BY <1>1, <2>2, <2>3, <2>4 DEF TypeOK, Exec!TypeOK
<1>4. RunLayers'
  BY <1>1, <1>2 DEF RunLayers
<1>5. RunStatus' /\ OneActive'
  BY <1>2 DEF RunStatus, OneActive, Exec!Active
<1> QED BY <1>1, <1>3, <1>4, <1>5 DEF RunInv, FollowsLayers
-----------------------------------------------------------------------------
(* The conversation *)

\* The search for a plan finds one that is there.
LEMMA SearchFinds ==
    ASSUME lookup \in {"none", "keywords", "json", "vec0"}, NEW t, NEW u \in SearchPlan(t), u # NoTask
    PROVE  u \in Stored
<1>1. \A pool : Best(t, pool) \subseteq Stored \cup {NoTask}
  BY DEF Best, Offers
<1>2. SearchPlan(t) \subseteq Stored \cup {NoTask}
  <2>1. UNION {Best(t, N) : N \in Neighbours(t)} \subseteq Stored \cup {NoTask}
    BY <1>1
  <2>2. Best(t, Tasks) \subseteq Stored \cup {NoTask} /\ Best(t, vectors) \subseteq Stored \cup {NoTask}
    BY <1>1
  <2>3. CASE lookup = "none"
    BY <2>3 DEF SearchPlan
  <2>4. CASE lookup = "keywords"
    BY <2>2, <2>4 DEF SearchPlan
  <2>5. CASE lookup = "json"
    BY <2>2, <2>5 DEF SearchPlan
  <2>6. CASE lookup = "vec0"
    BY <2>1, <2>2, <2>6 DEF SearchPlan
  <2> QED BY <2>3, <2>4, <2>5, <2>6
<1> QED BY <1>2

\* The plan without dependencies is valid.
LEMMA NoPlanFits == NoPlan \in Shapes /\ Valid(NoPlan)
<1>1. NoPlan.times \in [Steps -> [Steps -> Nat]] /\ NoPlan.bad = FALSE
  BY DEF NoPlan
<1>2. NoPlan \in Shapes
  BY DEF NoPlan, Shapes
<1>3. \A s \in Steps : DepsOf(NoPlan)[s] = {}
  BY DEF DepsOf, NoPlan
<1> QED BY <1>1, <1>2, <1>3 DEF Valid, Cyclic

\* A plan is taken.
LEMMA PlanTaken ==
    ASSUME NEW p \in Shapes, NEW from \in {"memory", "llm"}, TakePlan(p, from)
    PROVE  GraphInv' /\ RunInv' /\ FollowsLayers' /\ Linked'
<1>1. GraphInv' /\ times' = p.times /\ badIds' = p.bad /\ planPhase' = "validate"
  BY GraphReplaced DEF TakePlan, Graph!Replace
<1>2. RunInv' /\ FollowsLayers' /\ runPhase' = "new" /\ deps' = [s \in Steps |-> Uses(times', s)]
  BY <1>1, RunReplaced DEF TakePlan
<1>3. plan' = p /\ source' = from /\ pc' = "check"
  BY DEF TakePlan
<1> QED BY <1>1, <1>2, <1>3 DEF Linked

\* The plan is dropped.
LEMMA PlanDropped ==
    ASSUME Graph!Replace(NoPlan.times, FALSE, "none"), Exec!Replace(DepsOf(NoPlan)),
           pc' \in {"input", "ask"}, plan' = NoPlan, source' = "none"
    PROVE  GraphInv' /\ RunInv' /\ FollowsLayers' /\ Linked'
<1>0. NoPlan \in Shapes /\ NoPlan.bad = FALSE
  BY NoPlanFits DEF NoPlan
<1>1. GraphInv' /\ times' = NoPlan.times /\ badIds' = NoPlan.bad
  BY <1>0, GraphReplaced
<1>2. RunInv' /\ FollowsLayers' /\ runPhase' = "new" /\ deps' = [s \in Steps |-> Uses(times', s)]
  BY <1>0, <1>1, RunReplaced
<1> QED BY <1>1, <1>2 DEF Linked

\* The plan at hand stays as it is.
LEMMA PlanAlone ==
    ASSUME GraphInv, RunInv, FollowsLayers, UNCHANGED <<graphVars, runVars>>
    PROVE  /\ GraphInv' /\ RunInv' /\ FollowsLayers'
           /\ UNCHANGED <<deps, times, badIds, planPhase, runPhase>>
<1>1. /\ UNCHANGED <<deps, parallel, failFast, runPhase, past, layer, at, status, attempt>>
      /\ UNCHANGED <<times, badIds, planPhase, layers>> /\ UNCHANGED graphVars
  BY DEF graphVars, runVars
<1>2. GraphInv'
  BY <1>1, GraphAlone
<1>3. RunInv'
  BY <1>1, RunAlone
<1> QED BY <1>1, <1>2, <1>3 DEF FollowsLayers

\* The loop waits for the user again.
LEMMA TurnEnds ==
    ASSUME NextTurn
    PROVE  /\ GraphInv' /\ RunInv' /\ FollowsLayers' /\ Linked'
           /\ plan' = NoPlan /\ source' = "none" /\ pc' = "input"
<1>1. /\ Graph!Replace(NoPlan.times, FALSE, "none") /\ Exec!Replace(DepsOf(NoPlan))
      /\ pc' \in {"input", "ask"} /\ plan' = NoPlan /\ source' = "none" /\ pc' = "input"
  BY DEF NextTurn
<1> QED BY <1>1, PlanDropped

\* The planner makes another attempt, or gives up.
LEMMA AskedAgain ==
    ASSUME Again
    PROVE  /\ GraphInv' /\ RunInv' /\ FollowsLayers' /\ Linked'
           /\ plan' = NoPlan /\ source' = "none" /\ pc' \in {"input", "ask"}
<1>1. CASE /\ Graph!Replace(NoPlan.times, FALSE, "none") /\ Exec!Replace(DepsOf(NoPlan))
           /\ pc' \in {"input", "ask"} /\ plan' = NoPlan /\ source' = "none"
  BY <1>1, PlanDropped
<1>2. CASE NextTurn
  BY <1>2, TurnEnds
<1> QED BY <1>1, <1>2 DEF Again

\* What the memory holds when neither it nor the plan at hand changes.
LEMMA MemoryAlone ==
    ASSUME Remembered, UNCHANGED <<lookup, rows, vectors, kept>>,
           plan' \in Shapes,
           pc' \in {"execute", "save", "vector"} => Valid(plan'),
           pc' = "adapt" \/ source' = "memory" => plan' \in kept,
           pc' # "vector"
    PROVE  Remembered'
<1>1. \A t \in Stored : Valid(rows[t].plan) /\ rows[t].plan \in kept
  BY DEF Remembered
<1>2. Stored' = Stored
  BY DEF Stored
<1>3. \A t \in Stored' : Valid(rows'[t].plan) /\ rows'[t].plan \in kept'
  BY <1>1, <1>2
<1>4. /\ lookup' \in {"none", "keywords", "json", "vec0"} /\ kept' \subseteq Shapes
      /\ vectors' \subseteq Stored'
  BY <1>2 DEF Remembered
<1> QED BY <1>3, <1>4 DEF Remembered

\* The user's message, the end of the conversation, and the look at the memory.
LEMMA TalkKeeps == ASSUME IInv, Input \/ Exit \/ Search PROVE IInv'
<1>1. UNCHANGED <<graphVars, runVars, lookup, rows, vectors, kept, source>>
  BY DEF Input, Exit, Search, rowVars, turnVars, Same, fixedVars
<1>2. pc \in {"input", "search"} /\ pc' \in {"input", "search", "ask", "adapt", "ended"}
  BY DEF Input, Exit, Search
<1>3. /\ plan' = plan \/ \E u \in Stored : plan' = rows[u].plan
      /\ pc' = "adapt" => \E u \in Stored : plan' = rows[u].plan
  <2>1. CASE Input \/ Exit
    BY <2>1 DEF Input, Exit, turnVars
  <2>2. CASE Search
    <3>1. PICK u \in SearchPlan(task) :
             IF u = NoTask THEN pc' = "ask" /\ UNCHANGED plan ELSE pc' = "adapt" /\ plan' = rows[u].plan
      BY <2>2 DEF Search
    <3>2. u # NoTask => u \in Stored
      BY SearchFinds DEF IInv, Remembered
    <3> QED BY <3>1, <3>2
  <2> QED BY <2>1, <2>2
<1>4. /\ GraphInv' /\ RunInv' /\ FollowsLayers'
      /\ UNCHANGED <<deps, times, badIds, planPhase, runPhase>>
  BY <1>1, PlanAlone DEF IInv
<1>5. Linked'
  BY <1>1, <1>2, <1>4 DEF IInv, Linked
<1>6. Remembered'
  <2>1. plan' \in Shapes /\ (pc' = "adapt" \/ source' = "memory" => plan' \in kept)
    BY <1>1, <1>2, <1>3 DEF IInv, Linked, Remembered
  <2> QED BY <1>1, <1>2, <2>1, MemoryAlone DEF IInv
<1> QED BY <1>4, <1>5, <1>6 DEF IInv

\* The template is adapted, or the model is asked for a plan.
LEMMA PlannerKeeps == ASSUME IInv, Adapt \/ Ask PROVE IInv'
<1>1. UNCHANGED <<lookup, rows, vectors, kept>>
  BY DEF Adapt, Ask, rowVars, Same, fixedVars
<1>2. plan \in Shapes /\ NoPlan \in Shapes /\ Plans \subseteq Shapes /\ (pc = "adapt" => plan \in kept)
  BY NoPlanFits, WorkflowAssumption DEF IInv, Remembered
<1>3. CASE pc = "adapt" /\ TakePlan(plan, "memory")
  <2>1. GraphInv' /\ RunInv' /\ FollowsLayers' /\ Linked'
    BY <1>2, <1>3, PlanTaken
  <2>2. plan' = plan /\ pc' = "check"
    BY <1>3 DEF TakePlan
  <2>3. Remembered'
    BY <1>1, <1>2, <1>3, <2>2, MemoryAlone DEF IInv
  <2> QED BY <2>1, <2>3 DEF IInv
<1>4. CASE pc = "adapt" /\ pc' = "ask" /\ plan' = NoPlan /\ UNCHANGED <<graphVars, runVars, source>>
  <2>1. /\ GraphInv' /\ RunInv' /\ FollowsLayers'
        /\ UNCHANGED <<deps, times, badIds, planPhase, runPhase>>
    BY <1>4, PlanAlone DEF IInv
  <2>2. source = "none"
    BY <1>4 DEF IInv, Linked
  <2>3. Linked'
    BY <1>4, <2>1, <2>2 DEF IInv, Linked
  <2>4. Remembered'
    BY <1>1, <1>2, <1>4, <2>2, MemoryAlone DEF IInv
  <2> QED BY <2>1, <2>3, <2>4 DEF IInv
<1>5. CASE NextTurn \/ Again
  <2>1. /\ GraphInv' /\ RunInv' /\ FollowsLayers' /\ Linked'
        /\ plan' = NoPlan /\ source' = "none" /\ pc' \in {"input", "ask"}
    BY <1>5, TurnEnds, AskedAgain
  <2>2. Remembered'
    BY <1>1, <1>2, <2>1, MemoryAlone DEF IInv
  <2> QED BY <2>1, <2>2 DEF IInv
<1>6. ASSUME NEW p \in Plans, TakePlan(p, "llm") PROVE IInv'
  <2>1. GraphInv' /\ RunInv' /\ FollowsLayers' /\ Linked'
    BY <1>2, <1>6, PlanTaken
  <2>2. plan' = p /\ pc' = "check" /\ source' = "llm"
    BY <1>6 DEF TakePlan
  <2>3. Remembered'
    BY <1>1, <1>2, <2>2, MemoryAlone DEF IInv
  <2> QED BY <2>1, <2>3 DEF IInv
<1> QED BY <1>3, <1>4, <1>5, <1>6 DEF Adapt, Ask

\* validate() and get_execution_order() get on.
LEMMA PlanStepKeeps == ASSUME IInv, PlanStep PROVE IInv'
<1>1. /\ pc = "check" /\ Graph!Next
      /\ UNCHANGED <<deps, parallel, failFast, runPhase, past, layer, at, status, attempt>>
      /\ UNCHANGED <<lookup, rows, vectors, kept, plan, source, pc>>
  BY DEF PlanStep, runVars, rowVars, turnVars, Same, fixedVars
<1>2. UNCHANGED <<times, badIds>>
  BY <1>1 DEF Graph!Next, Graph!Validate, Graph!SearchPop, Graph!SearchDone, Graph!PeelLayer,
     Graph!OrderDone, Graph!SearchRoot, Graph!SearchDep, Graph!graphVars
<1>3. GraphInv' /\ RunInv'
  BY <1>1, GraphKeeps, RunAlone DEF IInv
<1>4. runPhase' = "new"
  BY <1>1 DEF IInv, Linked
<1>5. Linked' /\ FollowsLayers'
  BY <1>1, <1>2, <1>4 DEF IInv, Linked, FollowsLayers
<1>6. Remembered'
  BY <1>1, MemoryAlone DEF IInv, Remembered
<1> QED BY <1>3, <1>5, <1>6 DEF IInv

\* A plan that passed validate() is one that can be executed.
LEMMA CheckedKeeps == ASSUME IInv, Checked PROVE IInv'
<1>0. pc = "check" /\ UNCHANGED <<lookup, rows, vectors, kept>> /\ plan \in Shapes
  BY DEF Checked, rowVars, Same, fixedVars, IInv, Remembered
<1>1. CASE planPhase = "done" /\ pc' = "execute" /\ UNCHANGED <<graphVars, runVars, turnVars>>
  <2>1. /\ GraphInv' /\ RunInv' /\ FollowsLayers'
        /\ UNCHANGED <<deps, times, badIds, planPhase, runPhase, plan, source>>
    BY <1>1, PlanAlone DEF IInv, turnVars
  <2>2. Linked'
    BY <1>0, <1>1, <2>1 DEF IInv, Linked
  <2>3. Valid(plan)
    <3>1. CASE source = "caller"
      BY <3>1, NoPlanFits DEF IInv, Linked
    <3>2. CASE source # "caller"
      <4>1. times = plan.times /\ badIds = plan.bad
        BY <1>0, <3>2 DEF IInv, Linked
      <4>2. \A s \in Steps : DepsOf(plan)[s] = Graph!Deps(s)
        BY <4>1 DEF DepsOf, Graph!Deps
      <4>3. ~badIds /\ ~Graph!Cyclic
        BY <1>1 DEF IInv, GraphInv, Verdict, RejectsExactlyBadPlans, Graph!RejectsExactlyBadPlans
      <4> QED BY <4>1, <4>2, <4>3 DEF Valid, Cyclic, Graph!Cyclic
    <3> QED BY <3>1, <3>2
  <2>4. Remembered'
    BY <1>0, <1>1, <2>1, <2>3, MemoryAlone DEF IInv, Remembered
  <2> QED BY <2>1, <2>2, <2>4 DEF IInv
<1>2. CASE pc' = "ended" /\ UNCHANGED <<graphVars, runVars, turnVars>>
  <2>1. /\ GraphInv' /\ RunInv' /\ FollowsLayers'
        /\ UNCHANGED <<deps, times, badIds, planPhase, runPhase, plan, source>>
    BY <1>2, PlanAlone DEF IInv, turnVars
  <2>2. Linked'
    BY <1>0, <1>2, <2>1 DEF IInv, Linked
  <2>3. Remembered'
    BY <1>0, <1>2, <2>1, MemoryAlone DEF IInv, Remembered
  <2> QED BY <2>1, <2>2, <2>3 DEF IInv
<1>3. CASE Again
  <2>1. /\ GraphInv' /\ RunInv' /\ FollowsLayers' /\ Linked'
        /\ plan' = NoPlan /\ source' = "none" /\ pc' \in {"input", "ask"}
    BY <1>3, AskedAgain
  <2>2. Remembered'
    BY <1>0, <2>1, NoPlanFits, MemoryAlone DEF IInv
  <2> QED BY <2>1, <2>2 DEF IInv
<1> QED BY <1>1, <1>2, <1>3 DEF Checked

\* The executor's steps, and execute() returning or being cancelled.
LEMMA RunStepKeeps == ASSUME IInv, RunStep PROVE IInv'
<1>1. /\ pc = "execute" /\ Exec!Next /\ UNCHANGED graphVars
      /\ UNCHANGED <<lookup, rows, vectors, kept, plan, source, pc>>
  BY DEF RunStep, rowVars, turnVars, Same, fixedVars
<1>2. UNCHANGED <<deps, times, badIds, planPhase, layers>>
  BY <1>1 DEF graphVars, Exec!Next, Exec!BeginRun, Exec!NextLayer, Exec!CancelExecute,
     Exec!BeginStep, Exec!AttemptSucceeds, Exec!AttemptFails, Exec!Retry, Exec!planVars
<1>3. OfPlan
  BY <1>1 DEF IInv, Linked, OfPlan
<1>4. GraphInv' /\ RunInv' /\ FollowsLayers'
  BY <1>1, <1>2, <1>3, GraphAlone, ExecKeeps DEF IInv
<1>5. Linked'
  BY <1>1, <1>2 DEF IInv, Linked
<1>6. Remembered'
  BY <1>1, MemoryAlone DEF IInv, Remembered
<1> QED BY <1>4, <1>5, <1>6 DEF IInv

\* execute() has returned or was cancelled.
LEMMA ExecutedKeeps == ASSUME IInv, Executed PROVE IInv'
<1>1. /\ pc = "execute" /\ runPhase \in {"returned", "cancelled"}
      /\ pc' = IF source = "caller" \/ runPhase = "cancelled" THEN "ended" ELSE "save"
      /\ UNCHANGED <<graphVars, runVars, lookup, rows, vectors, kept, plan, source>>
  BY DEF Executed, rowVars, turnVars, Same, fixedVars
<1>2. /\ GraphInv' /\ RunInv' /\ FollowsLayers'
      /\ UNCHANGED <<deps, times, badIds, planPhase, runPhase>>
  BY <1>1, PlanAlone DEF IInv
<1>3. Linked'
  BY <1>1, <1>2 DEF IInv, Linked
<1>4. Remembered'
  BY <1>1, MemoryAlone DEF IInv, Remembered
<1> QED BY <1>2, <1>3, <1>4 DEF IInv

\* A valid plan is added to the memory.
LEMMA RowSaved ==
    ASSUME Remembered, NEW t, NEW p \in Shapes, Valid(p), NEW ok, Upsert(t, p, ok), kept' = kept \cup {p}
    PROVE  /\ Stored' = Stored \cup {t} /\ kept' \subseteq Shapes
           /\ \A u \in Stored' : Valid(rows'[u].plan) /\ rows'[u].plan \in kept'
<1>1. rows' = [u \in Stored \cup {t} |-> IF u = t THEN [plan |-> p, ok |-> ok] ELSE rows[u]]
  BY DEF Upsert
<1>2. Stored' = Stored \cup {t}
  BY <1>1 DEF Stored
<1>3. ASSUME NEW u \in Stored \cup {t} PROVE Valid(rows'[u].plan) /\ rows'[u].plan \in kept'
  <2>1. CASE u = t
    <3>1. rows'[u].plan = p
      BY <1>1, <2>1
    <3> QED BY <3>1
  <2>2. CASE u # t
    <3>1. rows'[u] = rows[u] /\ u \in Stored
      BY <1>1, <2>2
    <3> QED BY <3>1 DEF Remembered
  <2> QED BY <2>1, <2>2
<1> QED BY <1>2, <1>3 DEF Remembered

\* The plan is saved with its outcome, or the database raises.
LEMMA SaveKeeps == ASSUME IInv, Save PROVE IInv'
<1>1. pc = "save" /\ UNCHANGED <<lookup, vectors>> /\ plan \in Shapes /\ Valid(plan) /\ NoPlan \in Shapes
  BY NoPlanFits DEF Save, Same, fixedVars, IInv, Remembered
<1>2. CASE /\ lookup # "none" /\ Upsert(task, plan, AnySuccess) /\ kept' = kept \cup {plan}
           /\ NextTurn \/ (pc' = "vector" /\ UNCHANGED <<graphVars, runVars, turnVars>>)
  <2>1. /\ Stored' = Stored \cup {task} /\ kept' \subseteq Shapes
        /\ \A u \in Stored' : Valid(rows'[u].plan) /\ rows'[u].plan \in kept'
    BY <1>1, <1>2, RowSaved DEF IInv
  <2>2. vectors' \subseteq Stored' /\ lookup' \in {"none", "keywords", "json", "vec0"}
    BY <1>1, <2>1 DEF IInv, Remembered
  <2>3. CASE NextTurn
    <3>1. /\ GraphInv' /\ RunInv' /\ FollowsLayers' /\ Linked'
          /\ plan' = NoPlan /\ source' = "none" /\ pc' = "input"
      BY <2>3, TurnEnds
    <3>2. Remembered'
      BY <1>1, <2>1, <2>2, <3>1 DEF Remembered
    <3> QED BY <3>1, <3>2 DEF IInv
  <2>4. CASE pc' = "vector" /\ UNCHANGED <<graphVars, runVars, turnVars>>
    <3>1. /\ GraphInv' /\ RunInv' /\ FollowsLayers'
          /\ UNCHANGED <<deps, times, badIds, planPhase, runPhase, plan, source, task>>
      BY <2>4, PlanAlone DEF IInv, turnVars
    <3>2. Linked'
      BY <1>1, <2>4, <3>1 DEF IInv, Linked
    <3>3. Remembered'
      BY <1>1, <1>2, <2>1, <2>2, <2>4, <3>1 DEF Remembered
    <3> QED BY <3>1, <3>2, <3>3 DEF IInv
  <2> QED BY <1>2, <2>3, <2>4
<1>3. CASE NextTurn /\ UNCHANGED <<rows, kept>>
  <2>1. /\ GraphInv' /\ RunInv' /\ FollowsLayers' /\ Linked'
        /\ plan' = NoPlan /\ source' = "none" /\ pc' = "input"
    BY <1>3, TurnEnds
  <2>2. Remembered'
    BY <1>1, <1>3, <2>1, MemoryAlone DEF IInv
  <2> QED BY <2>1, <2>2 DEF IInv
<1> QED BY <1>2, <1>3 DEF Save

\* Its vector is.
LEMMA VectorKeeps == ASSUME IInv, Vector PROVE IInv'
<1>1. /\ pc = "vector" /\ vectors' \subseteq vectors \cup {task} /\ NextTurn
      /\ UNCHANGED <<rows, kept, lookup>>
  BY DEF Vector, SaveVector, Same, fixedVars
<1>2. /\ GraphInv' /\ RunInv' /\ FollowsLayers' /\ Linked'
      /\ plan' = NoPlan /\ source' = "none" /\ pc' = "input"
  BY <1>1, TurnEnds
<1>3. Stored' = Stored /\ vectors' \subseteq Stored
  BY <1>1 DEF IInv, Remembered, Stored
<1>4. \A t \in Stored : Valid(rows[t].plan) /\ rows[t].plan \in kept
  BY DEF IInv, Remembered
<1>5. \A t \in Stored' : Valid(rows'[t].plan) /\ rows'[t].plan \in kept'
  BY <1>1, <1>3, <1>4
<1>6. lookup' \in {"none", "keywords", "json", "vec0"} /\ kept' \subseteq Shapes /\ vectors' \subseteq Stored'
  BY <1>1, <1>3 DEF IInv, Remembered
<1>7. Remembered'
  BY <1>2, <1>5, <1>6, NoPlanFits DEF Remembered
<1> QED BY <1>2, <1>7 DEF IInv

\* So are another master's.
LEMMA OtherSavesKeeps == ASSUME IInv, OtherSaves PROVE IInv'
<1>1. /\ UNCHANGED <<graphVars, runVars, lookup, plan, source, task, pc>>
      /\ pc \notin {"check", "execute", "ended"}
  BY DEF OtherSaves, turnVars, fixedVars
<1>2. PICK t \in asked, p \in {p \in Plans : Valid(p)}, ok \in BOOLEAN :
         /\ Upsert(t, p, ok)
         /\ kept' = kept \cup {p}
         /\ (lookup # "keywords" /\ SaveVector(t)) \/ UNCHANGED vectors
  BY DEF OtherSaves
<1>3. p \in Shapes /\ Valid(p)
  BY WorkflowAssumption
<1>4. /\ Stored' = Stored \cup {t} /\ kept' \subseteq Shapes
      /\ \A u \in Stored' : Valid(rows'[u].plan) /\ rows'[u].plan \in kept'
  BY <1>2, <1>3, RowSaved DEF IInv
<1>5. vectors' \subseteq Stored' /\ (task \in Stored => task' \in Stored')
  BY <1>1, <1>2, <1>4 DEF IInv, Remembered, SaveVector
<1>6. /\ GraphInv' /\ RunInv' /\ FollowsLayers'
      /\ UNCHANGED <<deps, times, badIds, planPhase, runPhase>>
  BY <1>1, PlanAlone DEF IInv
<1>7. Linked'
  BY <1>1, <1>6 DEF IInv, Linked
<1>8. /\ plan' = plan /\ plan \in Shapes /\ pc' = pc /\ source' = source
      /\ pc \in {"execute", "save", "vector"} => Valid(plan)
      /\ pc = "adapt" \/ source = "memory" => plan \in kept'
      /\ pc = "vector" => task' \in Stored'
      /\ lookup' \in {"none", "keywords", "json", "vec0"}
  BY <1>1, <1>2, <1>5 DEF IInv, Remembered
<1>9. Remembered'
  BY <1>4, <1>5, <1>8 DEF Remembered
<1> QED BY <1>6, <1>7, <1>9 DEF IInv

\* So does a step in which nothing happens.
LEMMA NothingHappens == ASSUME IInv, UNCHANGED vars PROVE IInv'
<1>1. /\ UNCHANGED <<graphVars, runVars, lookup, rows, vectors, kept, plan, source, task, pc>>
  BY DEF vars, rowVars, turnVars, fixedVars
<1>2. /\ GraphInv' /\ RunInv' /\ FollowsLayers'
      /\ UNCHANGED <<deps, times, badIds, planPhase, runPhase>>
  BY <1>1, PlanAlone DEF IInv
<1>3. Linked'
  BY <1>1, <1>2 DEF IInv, Linked
<1>4. Stored' = Stored /\ \A t \in Stored : Valid(rows[t].plan) /\ rows[t].plan \in kept
  BY <1>1 DEF IInv, Remembered, Stored
<1>5. \A t \in Stored' : Valid(rows'[t].plan) /\ rows'[t].plan \in kept'
  BY <1>1, <1>4
<1>6. /\ plan' = plan /\ plan \in Shapes /\ pc' = pc /\ source' = source
      /\ pc \in {"execute", "save", "vector"} => Valid(plan)
      /\ pc = "adapt" \/ source = "memory" => plan \in kept'
      /\ pc = "vector" => task' \in Stored'
      /\ lookup' \in {"none", "keywords", "json", "vec0"}
      /\ vectors' \subseteq Stored' /\ kept' \subseteq Shapes
  BY <1>1, <1>4 DEF IInv, Remembered
<1>7. Remembered'
  BY <1>5, <1>6 DEF Remembered
<1> QED BY <1>2, <1>3, <1>7 DEF IInv

\* Every step keeps the invariant.
LEMMA IInvKept == ASSUME IInv, [Next]_vars PROVE IInv'
BY TalkKeeps, PlannerKeeps, PlanStepKeeps, CheckedKeeps, RunStepKeeps, ExecutedKeeps, SaveKeeps,
   VectorKeeps, OtherSavesKeeps, NothingHappens DEF Next
-----------------------------------------------------------------------------
(* The beginning *)

\* The executor has not begun.
LEMMA RunStarts ==
    ASSUME Exec!Init PROVE RunInv /\ FollowsLayers /\ runPhase = "new"
<1>1. /\ deps \in [Steps -> SUBSET Steps] /\ parallel \in BOOLEAN /\ failFast \in BOOLEAN
      /\ runPhase = "new" /\ past = {} /\ layer = {}
      /\ at = [s \in Steps |-> "waiting"] /\ status = [s \in Steps |-> "PENDING"]
      /\ attempt = [s \in Steps |-> 0]
  BY DEF Exec!Init
<1>2. TypeOK
  <2>1. 0 \in 0..(RetryCount + 1)
    BY WorkflowAssumption
  <2>2. attempt \in [Steps -> 0..(RetryCount + 1)]
    BY <1>1, <2>1
  <2>3. /\ at \in [Steps -> {"waiting", "finished"} \cup Exec!Active]
        /\ status \in [Steps -> {"PENDING", "RUNNING", "COMPLETED", "FAILED", "SKIPPED"}]
    BY <1>1
  <2> QED BY <1>1, <2>2, <2>3 DEF TypeOK, Exec!TypeOK
<1>3. RunLayers /\ RunStatus /\ OneActive
  BY <1>1 DEF RunLayers, RunStatus, OneActive, Exec!Active
<1> QED BY <1>1, <1>2, <1>3 DEF RunInv, FollowsLayers

\* What each of the two beginnings does to the memory.
LEMMA NothingKept ==
    ASSUME Init PROVE lookup \in {"none", "keywords", "json", "vec0"} /\ plan = NoPlan
BY WorkflowAssumption DEF Init

\* The invariant holds at first, with and without a conversation.
LEMMA InitHolds == ASSUME Init PROVE IInv
<1>1. lookup \in {"none", "keywords", "json", "vec0"} /\ plan = NoPlan /\ NoPlan \in Shapes
  BY NothingKept, NoPlanFits
<1>2. kept = {rows[t].plan : t \in Stored} /\ (InitAlone \/ \E s \in Setups : InitConversation(s.old))
  BY DEF Init
<1>3. CASE InitAlone
  <2>1. /\ times \in [Steps -> [Steps -> 0..MaxTimes]] /\ badIds \in BOOLEAN
        /\ planPhase = "validate" /\ visited = {} /\ path = <<>> /\ cycle = <<>> /\ layers = <<>>
        /\ todo = [s \in Steps |-> Uses(times, s)] /\ deps = [s \in Steps |-> Uses(times, s)]
        /\ Exec!Init /\ rows = <<>> /\ vectors = {} /\ pc = "check" /\ source = "caller"
    BY <1>3 DEF InitAlone, Graph!Init, Graph!InitAt, Graph!Deps, Uses
  <2>2. times \in [Steps -> [Steps -> Nat]]
    BY <2>1, WorkflowAssumption
  <2>3. GraphInv
    BY <2>1, <2>2, GraphFresh
  <2>4. RunInv /\ FollowsLayers /\ runPhase = "new"
    BY <2>1, RunStarts
  <2>5. Linked
    BY <1>1, <2>1, <2>4 DEF Linked
  <2>6. Stored = {}
    BY <2>1 DEF Stored
  <2>7. Remembered
    BY <1>1, <1>2, <2>1, <2>6 DEF Remembered
  <2> QED BY <2>3, <2>4, <2>5, <2>7 DEF IInv
<1>4. ASSUME NEW old, InitConversation(old) PROVE IInv
  <2>1. /\ times = NoPlan.times /\ badIds = FALSE
        /\ planPhase = "none" /\ visited = {} /\ path = <<>> /\ cycle = <<>> /\ layers = <<>>
        /\ todo = [s \in Steps |-> Uses(times, s)] /\ deps = [s \in Steps |-> Uses(times, s)]
        /\ Exec!Init /\ pc = "input" /\ source = "none"
    BY <1>4 DEF InitConversation, Graph!InitAt, Graph!Deps, DepsOf, Uses
  <2>2. times \in [Steps -> [Steps -> Nat]]
    BY <1>1, <2>1 DEF Shapes
  <2>3. GraphInv
    BY <2>1, <2>2, GraphFresh
  <2>4. RunInv /\ FollowsLayers /\ runPhase = "new"
    BY <2>1, RunStarts
  <2>5. Linked
    BY <1>1, <2>1, <2>4 DEF Linked
  <2>6. PICK p \in {p \in Plans : Valid(p)}, ok \in BOOLEAN, v \in BOOLEAN :
           /\ rows = [u \in old |-> [plan |-> p, ok |-> ok]]
           /\ vectors = IF v /\ lookup \in {"json", "vec0"} THEN old ELSE {}
    BY <1>4 DEF InitConversation
  <2>7. Stored = old /\ \A t \in Stored : rows[t].plan = p
    BY <2>6 DEF Stored
  <2>8. p \in Shapes /\ Valid(p) /\ vectors \subseteq Stored
    BY <2>6, <2>7, WorkflowAssumption
  <2>9. /\ \A t \in Stored : Valid(rows[t].plan) /\ rows[t].plan \in kept
        /\ kept \subseteq Shapes
    BY <1>2, <2>7, <2>8
  <2>10. Remembered
    BY <1>1, <2>1, <2>8, <2>9 DEF Remembered
  <2> QED BY <2>3, <2>4, <2>5, <2>10 DEF IInv
<1> QED BY <1>2, <1>3, <1>4
-----------------------------------------------------------------------------
(* What follows *)

\* The invariant holds of every behaviour.
LEMMA IInvHolds == FairSpec => []IInv
<1>1. Init => IInv
  BY InitHolds
<1>2. IInv /\ [Next]_vars => IInv'
  BY IInvKept
<1> QED BY <1>1, <1>2, PTL DEF FairSpec

\* It has what the runs check of a plan and its execution.
LEMMA Sound == ASSUME IInv PROVE ExecutionSound
<1>1. RejectsExactlyBadPlans /\ CycleIsReal /\ TypeOK /\ FollowsLayers
  BY DEF IInv, GraphInv, Verdict, RunInv
<1>2. LayersCorrect
  BY LayersSound DEF IInv
<1>3. DepsSettled
  BY LayerOnly DEF IInv, RunInv, RunLayers, DepsSettled, Exec!DepsSettled
<1>4. AllSettled
  BY DEF IInv, RunInv, RunLayers, RunStatus, AllSettled, Exec!AllSettled, Exec!Bad
<1>5. SerialMeansOne
  <2> DEFINE A == {s \in Steps : at[s] \in Exec!Active}
  <2>1. SUFFICES ASSUME ~parallel PROVE Cardinality(A) <= 1
    <3>1. \A S : Exec!Cardinality(S) = Cardinality(S)
      BY DEF Cardinality, Exec!Cardinality
    <3> QED BY <3>1 DEF SerialMeansOne, Exec!SerialMeansOne
  <2>2. CASE A = {}
    BY <2>2, FS_EmptySet
  <2>3. CASE A # {}
    <3>1. PICK s \in Steps : s \in A
      BY <2>3
    <3>2. A = {s}
      BY <2>1, <3>1 DEF IInv, RunInv, OneActive
    <3>3. Cardinality({s}) = 1
      BY FS_Singleton
    <3> QED BY <3>2, <3>3
  <2> QED BY <2>2, <2>3
<1> QED BY <1>1, <1>2, <1>3, <1>4, <1>5 DEF ExecutionSound

\* validate() rejects exactly the plans that cannot be executed, get_execution_order()
\* layers the others, and execute() runs the steps on settled dependencies in the order
\* of the layers until all are settled, for any plan, any number of steps and retries.
THEOREM ExecutionCorrect == FairSpec => []ExecutionSound
<1>1. IInv => ExecutionSound
  BY Sound
<1> QED BY <1>1, IInvHolds, PTL

\* What is executed or kept for later tasks passed validate(), and a plan from the
\* memory has the steps of a plan that was saved, whoever saves in the meantime.
THEOREM PlansCorrect == FairSpec => []PlansSound
<1>1. IInv => PlansSound
  BY DEF IInv, Remembered, PlansSound, OnlyValidPlans, TemplatesKept
<1> QED BY <1>1, IInvHolds, PTL
-----------------------------------------------------------------------------
(* execute() implements WorkflowResult *)

R(s) == IF at[s] = "finished" THEN status[s] ELSE "PENDING"

\* The refinement mapping, step by step.
LEMMA ResultIs == Exec!Result = [s \in Steps |-> R(s)]
BY DEF Exec!Result, R

\* No step has a result before its turn, and each has one in the end.
LEMMA ResultFacts ==
    ASSUME IInv
    PROVE  /\ runPhase = "new" => \A s \in Steps : R(s) = "PENDING"
           /\ runPhase = "returned" => \A s \in Steps : R(s) # "PENDING"
           /\ \A s \in past : s \in Steps /\ R(s) = status[s] /\ R(s) # "PENDING"
<1>1. \A s \in Steps : R(s) # "PENDING" <=> at[s] = "finished"
  BY DEF R, IInv, RunInv, RunStatus, Exec!Bad
<1>2. runPhase = "new" => \A s \in Steps : at[s] = "waiting"
  BY DEF IInv, RunInv, RunLayers
<1>3. \A s \in past : s \in Steps /\ at[s] = "finished"
  BY DEF IInv, RunInv, RunLayers, TypeOK, Exec!TypeOK
<1>4. runPhase = "returned" => past = Steps
  BY DEF IInv, RunInv, RunLayers
<1> QED BY <1>1, <1>2, <1>3, <1>4 DEF R

\* A step gets its result.
LEMMA SettleImplemented ==
    ASSUME IInv, NEW s \in layer, at[s] # "finished",
           NEW r \in IF Exec!Blocked(s) THEN {"SKIPPED"} ELSE {"COMPLETED", "FAILED"},
           at' = [at EXCEPT ![s] = "finished"], status' = [status EXCEPT ![s] = r],
           UNCHANGED <<deps, failFast>>
    PROVE  Exec!Abstract!Settle(s)
<1>1. /\ s \in Steps /\ deps[s] \subseteq past
      /\ at \in [Steps -> {"waiting", "finished"} \cup Exec!Active]
      /\ status \in [Steps -> {"PENDING", "RUNNING", "COMPLETED", "FAILED", "SKIPPED"}]
  BY LayerOnly DEF IInv, RunInv, TypeOK, Exec!TypeOK
<1>2. Exec!Result[s] = "PENDING" /\ \A d \in deps[s] : Exec!Result[d] = status[d] /\ Exec!Result[d] # "PENDING"
  BY <1>1, ResultIs, ResultFacts DEF R
<1>3. Exec!Abstract!Blocked(s) <=> Exec!Blocked(s)
  BY <1>2 DEF Exec!Abstract!Blocked, Exec!Blocked, Exec!Abstract!Bad, Exec!Bad
<1>4. Exec!Result' = [Exec!Result EXCEPT ![s] = r]
  BY <1>1 DEF Exec!Result
<1> QED BY <1>2, <1>3, <1>4 DEF Exec!Abstract!Settle

\* Nothing is settled.
LEMMA ResultAlone ==
    ASSUME UNCHANGED <<deps, failFast>>,
           \A s \in Steps : \/ at'[s] = at[s] /\ status'[s] = status[s]
                            \/ at[s] # "finished" /\ at'[s] # "finished"
    PROVE  UNCHANGED <<deps, failFast, Exec!Result>>
BY DEF Exec!Result

\* The executor's steps.
LEMMA ExecImplements ==
    ASSUME IInv, Exec!Next
    PROVE  Exec!Abstract!Next \/ UNCHANGED <<deps, failFast, Exec!Result>>
<1>0. /\ at \in [Steps -> {"waiting", "finished"} \cup Exec!Active]
      /\ status \in [Steps -> {"PENDING", "RUNNING", "COMPLETED", "FAILED", "SKIPPED"}]
  BY DEF IInv, RunInv, TypeOK, Exec!TypeOK
<1>1. CASE Exec!BeginRun \/ Exec!NextLayer \/ Exec!CancelExecute
  <2>1. UNCHANGED <<deps, failFast, at, status>>
    BY <1>1 DEF Exec!BeginRun, Exec!NextLayer, Exec!CancelExecute, Exec!planVars
  <2> QED BY <2>1, ResultAlone
<1>2. ASSUME NEW s \in Steps, Exec!BeginStep(s) \/ Exec!AttemptSucceeds(s) \/ Exec!AttemptFails(s) \/ Exec!Retry(s)
      PROVE  Exec!Abstract!Next \/ UNCHANGED <<deps, failFast, Exec!Result>>
  <2>1. UNCHANGED <<deps, failFast>> /\ at[s] # "finished"
    BY <1>2 DEF Exec!BeginStep, Exec!AttemptSucceeds, Exec!AttemptFails, Exec!Retry, Exec!planVars
  <2>2. s \in layer
    BY <1>2, LayerOnly DEF IInv, Exec!BeginStep, Exec!Turn, Exec!AttemptSucceeds, Exec!AttemptFails,
       Exec!Retry, Exec!Active
  <2>3. CASE \E r \in IF Exec!Blocked(s) THEN {"SKIPPED"} ELSE {"COMPLETED", "FAILED"} :
                at' = [at EXCEPT ![s] = "finished"] /\ status' = [status EXCEPT ![s] = r]
    BY <2>1, <2>2, <2>3, SettleImplemented DEF Exec!Abstract!Next
  <2>4. CASE \E a \in Exec!Active, r \in {"PENDING", "RUNNING", "COMPLETED", "FAILED", "SKIPPED"} :
                at' = [at EXCEPT ![s] = a] /\ status' = [status EXCEPT ![s] = r]
    <3>1. \A t \in Steps : \/ at'[t] = at[t] /\ status'[t] = status[t]
                           \/ at[t] # "finished" /\ at'[t] # "finished"
      BY <1>0, <2>1, <2>4 DEF Exec!Active
    <3> QED BY <2>1, <3>1, ResultAlone
  <2>5. at[s] \in Exec!Active => ~Exec!Blocked(s)
    BY DEF IInv, RunInv, RunStatus
  <2>6. /\ "running" \in Exec!Active /\ "backoff" \in Exec!Active
        /\ status = [status EXCEPT ![s] = status[s]]
        /\ status[s] \in {"PENDING", "RUNNING", "COMPLETED", "FAILED", "SKIPPED"}
    BY <1>0 DEF Exec!Active
  <2>7. CASE Exec!BeginStep(s)
    BY <2>3, <2>4, <2>6, <2>7 DEF Exec!BeginStep
  <2>8. CASE Exec!AttemptSucceeds(s)
    BY <2>3, <2>5, <2>6, <2>8 DEF Exec!AttemptSucceeds
  <2>9. CASE Exec!AttemptFails(s)
    BY <2>3, <2>4, <2>5, <2>6, <2>9 DEF Exec!AttemptFails
  <2>10. CASE Exec!Retry(s)
    BY <2>4, <2>6, <2>10 DEF Exec!Retry
  <2> QED BY <1>2, <2>7, <2>8, <2>9, <2>10
<1> QED BY <1>1, <1>2 DEF Exec!Next

\* Another plan's workflow begins: before the first step of this one, or after its last.
LEMMA ReplaceImplements ==
    ASSUME IInv, runPhase \in {"new", "returned"}, NEW p, Exec!Replace(DepsOf(p))
    PROVE  Exec!Abstract!Next
<1>1. /\ deps' = DepsOf(p) /\ DepsOf(p) \in [Steps -> SUBSET Steps] /\ failFast' = TRUE
      /\ at' = [s \in Steps |-> "waiting"]
  BY DEF Exec!Replace, DepsOf
<1>2. Exec!Result' = [s \in Steps |-> "PENDING"]
  BY <1>1 DEF Exec!Result
<1>3. \/ \A s \in Steps : Exec!Result[s] = "PENDING"
      \/ \A s \in Steps : Exec!Result[s] # "PENDING"
  BY ResultIs, ResultFacts
<1> QED BY <1>1, <1>2, <1>3 DEF Exec!Abstract!Next, Exec!Abstract!NextWorkflow

\* Every step of the conversation.
LEMMA StepImplements ==
    ASSUME IInv, [Next]_vars
    PROVE  Exec!Abstract!Next \/ UNCHANGED <<deps, failFast, Exec!Result>>
<1>1. CASE UNCHANGED runVars
  <2>1. UNCHANGED <<deps, failFast, at, status>>
    BY <1>1 DEF runVars
  <2> QED BY <2>1, ResultAlone
<1>2. CASE RunStep
  BY <1>2, ExecImplements DEF RunStep
<1>3. ASSUME pc \in {"adapt", "ask", "check", "save", "vector"},
             \/ NextTurn \/ Again \/ (\E p \in Shapes, from \in {"memory", "llm"} : TakePlan(p, from))
      PROVE  Exec!Abstract!Next
  <2>1. runPhase \in {"new", "returned"}
    BY <1>3 DEF IInv, Linked
  <2>2. \E p : Exec!Replace(DepsOf(p))
    BY <1>3 DEF NextTurn, Again, TakePlan
  <2> QED BY <2>1, <2>2, ReplaceImplements
<1>4. plan \in Shapes /\ Plans \subseteq Shapes
  BY WorkflowAssumption DEF IInv, Remembered
<1>5. CASE Input \/ Exit \/ Search \/ PlanStep \/ Executed \/ OtherSaves \/ UNCHANGED vars
  BY <1>1, <1>5 DEF Input, Exit, Search, PlanStep, Executed, OtherSaves, vars
<1>6. CASE Adapt
  BY <1>1, <1>3, <1>4, <1>6 DEF Adapt
<1>7. CASE Ask
  BY <1>3, <1>4, <1>7 DEF Ask
<1>8. CASE Checked
  BY <1>1, <1>3, <1>8 DEF Checked
<1>9. CASE Save \/ Vector
  BY <1>1, <1>3, <1>9 DEF Save, Vector
<1> QED BY <1>2, <1>5, <1>6, <1>7, <1>8, <1>9 DEF Next

\* The initial states are mapped to initial states.
LEMMA InitImplements == ASSUME Init PROVE Exec!Abstract!Init
<1>1. Exec!Init
  BY DEF Init, InitAlone, InitConversation
<1>2. deps \in [Steps -> SUBSET Steps] /\ failFast \in BOOLEAN /\ at = [s \in Steps |-> "waiting"]
  BY <1>1 DEF Exec!Init
<1>3. Exec!Result = [s \in Steps |-> "PENDING"]
  BY <1>2 DEF Exec!Result
<1> QED BY <1>2, <1>3 DEF Exec!Abstract!Init

\* Layers, gather, retries, timeouts and the planner around them implement the promise
\* of WorkflowResult: one final result per step, after those of its dependencies.
THEOREM RefinesResult == FairSpec => ImplementsResult
<1>1. Init => Exec!Abstract!Init
  BY InitImplements
<1>2. IInv /\ [Next]_vars => [Exec!Abstract!Next]_<<deps, failFast, Exec!Result>>
  BY StepImplements
<1>3. FairSpec => Exec!Abstract!Spec
  BY <1>1, <1>2, IInvHolds, PTL DEF FairSpec, Exec!Abstract!Spec
<1> QED BY <1>3 DEF ImplementsResult, Exec!ImplementsResult
=============================================================================
