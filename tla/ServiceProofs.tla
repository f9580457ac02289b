---------------------------- MODULE ServiceProofs ----------------------------
(***************************************************************************)
(* What TLAPS proves of the two services that put users and timers in      *)
(* front of the agents.                                                    *)
(*                                                                         *)
(* Scheduler, for any tasks, jobs and starts.  The inductive invariant has *)
(* one part per concern: Exclusive ties the Agent's status to the one      *)
(* process that executes; Available to some process, also when             *)
(* initialisations overlapped; Tracking says which list holds a live loop; *)
(* Latest that the loops of the last start() are not the ones stop()       *)
(* cancels, and serve the tasks that are due; FreshLoops that a loop has   *)
(* no job before its first step.                                           *)
(*                                                                         *)
(* EngineBridge, for any users, sessions and sub-agents: GuiInv.  Queued   *)
(* ties the turn that answers to the head of its session's lock; Unique    *)
(* says that an id is of one message, open or filed, and that it was made; *)
(* OrderOf that the turn that answers goes on where its session's history  *)
(* ends; Voices that the message its chunks go to is a text of the master. *)
(* Every step of a turn closes some messages, opens or files at most one   *)
(* new one (Does), and TurnStep says once what such a step keeps.          *)
(***************************************************************************)
EXTENDS Scheduler, EngineBridge, FiniteSetTheorems, SequenceTheorems, TLAPS


\* The status that goes with a stage of an execution.
Fits(stage) == CASE stage = "init"    -> status = "created"
                 [] stage \in Turn    -> status = "running"
                 [] stage = "closing" -> status \in {"completed", "failed"}
                 [] OTHER             -> TRUE

Exclusive ==
    doubled \/ /\ \A p \in Procs : Fits(pc[p])
               /\ \A p, q \in Procs : pc[p] \in Executing /\ pc[q] \in Executing => p = q

Available ==
    spoiled \/ /\ status = "running" => \E p \in Procs : pc[p] \in Turn
               /\ status \in {"completed", "failed"} => \E p \in Procs : pc[p] = "closing"

\* Runs of loops are runs.
Counted == \A s \in Jobs : looped[s] <= runs[s]

Tracking ==
    \A p \in Loops \ missed : pc[p] \in Live =>
        IF stopping = "no" THEN running /\ p \in tracked ELSE p \in waitFor

Serves(p, n) == pc[p] = "created" \/ (job[p] = tasks[n] /\ pc[p] \in Live)

Latest ==
    /\ \A p \in tracked \cup waitFor : p[2] <= starts
    /\ running => /\ starts \in 1..MaxStarts
                  /\ \A n \in Names : <<n, starts>> \notin waitFor
                  /\ \A n \in Names :
                        tasks[n] \in Periodic \ late /\ ~Complete(tasks[n])
                            => Serves(<<n, starts>>, n)

FreshLoops ==
    /\ \A p \in Loops : /\ p[2] > starts => pc[p] = "none"
                        /\ pc[p] \in {"none", "created"} => job[p] = None
    /\ \A p \in Procs : pc[p] \in Live \ {"created"} => job[p] \in Jobs

IInv == TypeOK /\ Exclusive /\ Available /\ Counted /\ Tracking /\ Latest /\ FreshLoops
-----------------------------------------------------------------------------
(* Types *)

\* The scheduler starts in its types.
LEMMA InitTypes == Init => TypeOK
<1> SUFFICES ASSUME Init PROVE TypeOK
  OBVIOUS
<1>1. JobsOK
  BY DEF Init, JobsOK
<1>2. CountersOK
  BY SchedulerAssumption DEF Init, CountersOK
<1>3. LoopsOK
  BY SchedulerAssumption DEF Init, LoopsOK
<1>4. ProcsOK
  BY DEF Init, ProcsOK
<1>5. FlagsOK
  BY DEF Init, FlagsOK
<1> QED BY <1>1, <1>2, <1>3, <1>4, <1>5 DEF TypeOK

\* What the counters keep when an execution begins.
LEMMA CountKeeps ==
    ASSUME TypeOK, Counted, NEW p \in Procs, NEW s \in Jobs, Count(p, s),
           p \in Loops => ~Complete(s)
    PROVE  /\ runs' \in [Jobs -> Nat] /\ looped' \in [Jobs -> Nat]
           /\ \A u \in Jobs : runs'[u] <= MaxRuns[u] /\ looped'[u] <= runs'[u]
           /\ \A u \in Jobs : runs[u] <= runs'[u]
<1>1. /\ runs \in [Jobs -> Nat] /\ looped \in [Jobs -> Nat]
      /\ \A u \in Jobs : /\ MaxRuns[u] \in Nat /\ runs[u] <= MaxRuns[u]
                         /\ looped[u] <= runs[u]
  BY SchedulerAssumption DEF TypeOK, CountersOK, Counted
<1>2. p \in Loops /\ 0 < MaxRuns[s] => runs[s] < MaxRuns[s]
  BY <1>1 DEF Complete
<1>3. runs' \in [Jobs -> Nat] /\ looped' \in [Jobs -> Nat]
  BY <1>1 DEF Count
<1>4. ASSUME NEW u \in Jobs
      PROVE  runs'[u] <= MaxRuns[u] /\ looped'[u] <= runs'[u] /\ runs[u] <= runs'[u]
  BY <1>1, <1>2 DEF Count
<1> QED BY <1>3, <1>4

\* How a process that does not execute goes on: into an execution, to sleep
\* or to its end.
Enters(p, w) ==
    /\ pc' = [pc EXCEPT ![p] = w]
    /\ \/ /\ w = "init" /\ status = "created" /\ status' = status
          /\ doubled' \/ \A q \in Procs : pc[q] # "init"
       \/ w = "prep" /\ status = "idle" /\ status' = "running"
       \/ w \in {"delay", "sleep", "done"} /\ status' = status
    /\ doubled => doubled'
    /\ doubled' \in BOOLEAN

\* What _execute_scheduled does to the process that runs it: one place is entered.
LEMMA ExecuteEnters ==
    ASSUME TypeOK, NEW p \in Procs, NEW s, Execute(p, s)
    PROVE  \E w \in Live \cup {"done"} : Enters(p, w)
<1>1. doubled \in BOOLEAN
  BY DEF TypeOK, FlagsOK
<1>2. (doubled => doubled') /\ doubled' \in BOOLEAN
  BY <1>1 DEF Execute
<1>3. CASE status = "created"
  <2>1. pc' = [pc EXCEPT ![p] = "init"] /\ status' = status
    BY <1>3 DEF Execute, Goto
  <2>2. doubled' \/ \A q \in Procs : pc[q] # "init"
    BY <1>3 DEF Execute
  <2> QED BY <1>2, <1>3, <2>1, <2>2 DEF Enters, Live, Executing
<1>4. CASE status = "idle"
  BY <1>2, <1>4 DEF Execute, Goto, Enters, Live, Executing, Turn
<1>5. CASE status \notin {"created", "idle"}
  BY <1>2, <1>5 DEF Execute, Goto, After, Enters, Live
<1> QED BY <1>3, <1>4, <1>5

\* A step of a loop that does not execute.
LEMMA LoopEnters ==
    ASSUME TypeOK, FreshLoops, NEW p \in Procs, LoopStarts(p) \/ Wakes(p)
    PROVE  /\ \E w \in Live \cup {"done"} : Enters(p, w)
           /\ pc[p] \in {"created", "delay", "sleep"}
<1>1. pc[p] \in {"created", "delay", "sleep"}
  BY DEF LoopStarts, Wakes
<1>2. doubled \in BOOLEAN
  BY DEF TypeOK, FlagsOK
<1>3. ASSUME NEW s, LoopTop(p, s) PROVE \E w \in Live \cup {"done"} : Enters(p, w)
  <2>1. CASE Execute(p, s)
    BY <2>1, ExecuteEnters
  <2>2. CASE Goto(p, "done") /\ UNCHANGED <<countVars, status, doubled>>
    BY <1>2, <2>2 DEF Goto, Enters
  <2> QED BY <1>3, <2>1, <2>2 DEF LoopTop
<1>4. CASE Wakes(p)
  BY <1>1, <1>3, <1>4 DEF Wakes
<1>5. CASE LoopStarts(p)
  <2>1. CASE LoopTop(p, tasks[p[1]])
    BY <1>1, <1>3, <2>1
  <2>2. CASE Goto(p, "done") /\ UNCHANGED <<countVars, status, doubled>>
    BY <1>1, <1>2, <2>2 DEF Goto, Enters
  <2>3. CASE Goto(p, "delay") /\ UNCHANGED <<countVars, status, doubled>>
    BY <1>1, <1>2, <2>3 DEF Goto, Enters, Live
  <2> QED BY <1>5, <2>1, <2>2, <2>3 DEF LoopStarts
<1> QED BY <1>4, <1>5

\* A run_once that begins.
LEMMA ManualEnters ==
    ASSUME TypeOK, NEW n \in Manual, RunOnce(n)
    PROVE  /\ <<n, 0>> \in Procs \ Loops
           /\ \E w \in Live \cup {"done"} : Enters(<<n, 0>>, w)
           /\ pc[<<n, 0>>] = "none"
<1>1. <<n, 0>> \in Procs /\ <<n, 0>> \notin Loops
  BY SchedulerAssumption DEF Procs, Loops
<1>2. Execute(<<n, 0>>, tasks[n]) /\ pc[<<n, 0>>] = "none"
  BY DEF RunOnce
<1> QED BY <1>1, <1>2, ExecuteEnters

\* The parts of the type invariant, step by step.
LEMMA NextJobs == JobsOK /\ [Next]_vars => JobsOK'
<1> SUFFICES ASSUME JobsOK, [Next]_vars PROVE JobsOK'
  OBVIOUS
<1>0. CASE UNCHANGED jobVars /\ late' \in {late, {}}
  BY <1>0 DEF jobVars, JobsOK
<1>1. ASSUME NEW s \in Jobs, AddTask(s) PROVE JobsOK'
  BY <1>1 DEF AddTask, JobsOK
<1>2. ASSUME NEW n \in Names, RemoveTask(n) PROVE JobsOK'
  BY <1>2 DEF RemoveTask, JobsOK
<1>3. ASSUME NEW n \in Names, NEW on \in BOOLEAN, EnableTask(n, on) PROVE JobsOK'
  BY <1>3 DEF EnableTask, JobsOK
<1>4. ASSUME NEW n \in Manual, RunOnce(n) PROVE JobsOK'
  BY <1>0, <1>4 DEF RunOnce
<1>5. ASSUME NEW p \in Procs,
             \/ Initialised(p) \/ Prepared(p) \/ ReactEnds(p) \/ RunReturns(p)
             \/ HookRaises(p) \/ LoopStarts(p) \/ Wakes(p) \/ CancelOne(p)
      PROVE  JobsOK'
  BY <1>0, <1>5 DEF Initialised, Prepared, ReactEnds, RunReturns, HookRaises,
                    LoopStarts, Wakes, CancelOne, history
<1>6. CASE Start \/ Stop \/ WaitOver \/ StopReturns \/ UNCHANGED vars
  BY <1>0, <1>6 DEF Start, Stop, WaitOver, StopReturns, vars, history
<1> QED BY <1>1, <1>2, <1>3, <1>4, <1>5, <1>6 DEF Next

\* The loops that are tracked, waited for and missed stay in their ranges.
LEMMA NextLoops == LoopsOK /\ [Next]_vars => LoopsOK'
<1> SUFFICES ASSUME LoopsOK, [Next]_vars PROVE LoopsOK'
  OBVIOUS
<1>0. CASE UNCHANGED stopVars /\ missed' = missed
  BY <1>0 DEF stopVars, LoopsOK
<1>1. ASSUME NEW s \in Jobs, AddTask(s) PROVE LoopsOK'
  BY <1>0, <1>1 DEF AddTask
<1>2. ASSUME NEW n \in Names, RemoveTask(n) PROVE LoopsOK'
  BY <1>0, <1>2 DEF RemoveTask
<1>3. ASSUME NEW n \in Names, NEW on \in BOOLEAN, EnableTask(n, on) PROVE LoopsOK'
  BY <1>0, <1>3 DEF EnableTask
<1>4. ASSUME NEW n \in Manual, RunOnce(n) PROVE LoopsOK'
  BY <1>0, <1>4 DEF RunOnce
<1>5. ASSUME NEW p \in Procs,
             \/ Initialised(p) \/ Prepared(p) \/ ReactEnds(p) \/ RunReturns(p)
             \/ HookRaises(p) \/ LoopStarts(p) \/ Wakes(p)
      PROVE  LoopsOK'
  BY <1>0, <1>5 DEF Initialised, Prepared, ReactEnds, RunReturns, HookRaises,
                    LoopStarts, Wakes, history
<1>6. ASSUME NEW p \in Procs, CancelOne(p) PROVE LoopsOK'
  BY <1>6 DEF CancelOne, LoopsOK
<1>7. CASE Start
  <2>1. starts + 1 \in 1..MaxStarts /\ starts' = starts + 1
    BY <1>7, SchedulerAssumption DEF Start, LoopsOK
  <2>2. {<<n, starts + 1>> : n \in {m \in Names : tasks[m] # None /\ ~Complete(tasks[m])}}
           \subseteq Loops
    BY <2>1 DEF Loops
  <2> QED BY <1>7, <2>1, <2>2 DEF Start, LoopsOK
<1>8. CASE Stop \/ WaitOver \/ StopReturns
  BY <1>8 DEF Stop, WaitOver, StopReturns, LoopsOK, history
<1>9. CASE UNCHANGED vars
  BY <1>0, <1>9 DEF vars, history
<1> QED BY <1>1, <1>2, <1>3, <1>4, <1>5, <1>6, <1>7, <1>8, <1>9 DEF Next

\* Every process stays at one of its places, with a job it may have.
LEMMA NextProcs ==
    TypeOK /\ FreshLoops /\ [Next]_vars => ProcsOK'
<1> SUFFICES ASSUME TypeOK, FreshLoops, [Next]_vars PROVE ProcsOK'
  OBVIOUS
<1> DEFINE Places == Live \cup {"none", "done"}
           Statuses == {"created", "idle", "running", "completed", "failed"}
<1>0. /\ pc \in [Procs -> Places] /\ status \in Statuses
      /\ job \in [Procs -> Jobs \cup {None}]
      /\ tasks \in [Names -> Jobs \cup {None}]
  BY DEF TypeOK, ProcsOK, JobsOK
<1>a. CASE UNCHANGED <<pc, job, status>>
  BY <1>0, <1>a DEF ProcsOK
<1>b. ASSUME NEW p \in Procs, NEW w \in Places, pc' = [pc EXCEPT ![p] = w],
             job' = job, status' \in Statuses
      PROVE  ProcsOK'
  BY <1>0, <1>b DEF ProcsOK
<1>c. ASSUME NEW p \in Procs, NEW w \in Live \cup {"done"}, Enters(p, w),
             job' \in [Procs -> Jobs \cup {None}]
      PROVE  ProcsOK'
  BY <1>0, <1>c DEF ProcsOK, Enters
<1>1. ASSUME NEW s \in Jobs, AddTask(s) PROVE ProcsOK'
  BY <1>a, <1>1 DEF AddTask
<1>2. ASSUME NEW n \in Names, RemoveTask(n) PROVE ProcsOK'
  BY <1>a, <1>2 DEF RemoveTask
<1>3. ASSUME NEW n \in Names, NEW on \in BOOLEAN, EnableTask(n, on) PROVE ProcsOK'
  BY <1>a, <1>3 DEF EnableTask
<1>4. ASSUME NEW n \in Manual, RunOnce(n) PROVE ProcsOK'
  <2>1. job' \in [Procs -> Jobs \cup {None}]
    BY <1>0, <1>4, SchedulerAssumption DEF RunOnce
  <2> QED BY <1>4, <1>c, <2>1, ManualEnters
<1>5. ASSUME NEW p \in Procs, Initialised(p) \/ Prepared(p) \/ ReactEnds(p) PROVE ProcsOK'
  <2>1. /\ \E w \in Places : pc' = [pc EXCEPT ![p] = w]
        /\ job' = job /\ status' \in Statuses
    BY <1>0, <1>5 DEF Initialised, Prepared, ReactEnds, Goto, Live, Executing, Turn
  <2> QED BY <1>b, <2>1
<1>6. ASSUME NEW p \in Procs, RunReturns(p) \/ HookRaises(p) \/ CancelOne(p) PROVE ProcsOK'
  <2>1. /\ \E w \in Places : pc' = [pc EXCEPT ![p] = w]
        /\ job' = job /\ status' \in Statuses
    BY <1>0, <1>6 DEF RunReturns, HookRaises, CancelOne, Goto, After, Live
  <2> QED BY <1>b, <2>1
<1>7. ASSUME NEW p \in Procs, LoopStarts(p) \/ Wakes(p) PROVE ProcsOK'
  <2>1. job' \in [Procs -> Jobs \cup {None}]
    <3>1. p[1] \in Names
      BY DEF Procs
    <3>2. CASE LoopStarts(p)
      BY <1>0, <3>1, <3>2 DEF LoopStarts
    <3>3. CASE Wakes(p)
      BY <1>0, <3>3 DEF Wakes
    <3> QED BY <1>7, <3>2, <3>3
  <2> QED BY <1>7, <1>c, <2>1, LoopEnters
<1>8. CASE Start
  BY <1>0, <1>8 DEF Start, ProcsOK, Live
<1>9. CASE Stop \/ WaitOver \/ StopReturns \/ UNCHANGED vars
  BY <1>a, <1>9 DEF Stop, WaitOver, StopReturns, vars
<1> QED BY <1>1, <1>2, <1>3, <1>4, <1>5, <1>6, <1>7, <1>8, <1>9 DEF Next

\* The flags of the scheduler and the Agent keep their ranges.
LEMMA NextFlags == TypeOK /\ FreshLoops /\ [Next]_vars => FlagsOK'
<1> SUFFICES ASSUME TypeOK, FreshLoops, [Next]_vars PROVE FlagsOK'
  OBVIOUS
<1>0. running \in BOOLEAN /\ doubled \in BOOLEAN /\ spoiled \in BOOLEAN
  BY DEF TypeOK, FlagsOK
<1>a. CASE UNCHANGED <<running, doubled, spoiled>>
  BY <1>0, <1>a DEF FlagsOK
<1>1. ASSUME NEW s \in Jobs, AddTask(s) PROVE FlagsOK'
  BY <1>a, <1>1 DEF AddTask, stopVars
<1>2. ASSUME NEW n \in Names, RemoveTask(n) PROVE FlagsOK'
  BY <1>a, <1>2 DEF RemoveTask, stopVars
<1>3. ASSUME NEW n \in Names, NEW on \in BOOLEAN, EnableTask(n, on) PROVE FlagsOK'
  BY <1>a, <1>3 DEF EnableTask, stopVars
<1>4. ASSUME NEW n \in Manual, RunOnce(n) PROVE FlagsOK'
  BY <1>0, <1>4, ManualEnters DEF RunOnce, stopVars, Enters, FlagsOK
<1>5. ASSUME NEW p \in Procs,
             Initialised(p) \/ Prepared(p) \/ ReactEnds(p) \/ RunReturns(p)
      PROVE  FlagsOK'
  BY <1>a, <1>5 DEF Initialised, Prepared, ReactEnds, RunReturns, history, stopVars
<1>6. ASSUME NEW p \in Procs, HookRaises(p) \/ CancelOne(p) PROVE FlagsOK'
  BY <1>0, <1>6 DEF HookRaises, CancelOne, stopVars, FlagsOK
<1>7. ASSUME NEW p \in Procs, LoopStarts(p) \/ Wakes(p) PROVE FlagsOK'
  <2>1. doubled' \in BOOLEAN
    BY <1>7, LoopEnters DEF Enters
  <2>2. UNCHANGED <<running, spoiled>>
    BY <1>7 DEF LoopStarts, Wakes, stopVars
  <2> QED BY <1>0, <2>1, <2>2 DEF FlagsOK
<1>8. CASE Start \/ Stop
  BY <1>0, <1>8 DEF Start, Stop, history, FlagsOK
<1>9. CASE WaitOver \/ StopReturns \/ UNCHANGED vars
  BY <1>a, <1>9 DEF WaitOver, StopReturns, vars, stopVars, history
<1> QED BY <1>1, <1>2, <1>3, <1>4, <1>5, <1>6, <1>7, <1>8, <1>9 DEF Next

\* Only an execution that begins counts, and a loop's one is not complete.
LEMMA OnlyExecuteCounts ==
    ASSUME TypeOK, FreshLoops, [Next]_vars
    PROVE  \/ UNCHANGED countVars
           \/ \E p \in Procs, s \in Jobs :
                 Execute(p, s) /\ (p \in Loops => ~Complete(s))
<1> DEFINE Goal == \/ UNCHANGED countVars
                   \/ \E p \in Procs, s \in Jobs :
                         Execute(p, s) /\ (p \in Loops => ~Complete(s))
<1>1. ASSUME NEW n \in Manual, RunOnce(n) PROVE Goal
  <2>1. tasks[n] \in Jobs
    BY <1>1, SchedulerAssumption DEF RunOnce, TypeOK, JobsOK
  <2>2. Execute(<<n, 0>>, tasks[n])
    BY <1>1 DEF RunOnce
  <2> QED BY <1>1, <2>1, <2>2, ManualEnters
<1>2. ASSUME NEW p \in Procs, LoopStarts(p) PROVE Goal
  BY <1>2 DEF LoopStarts, LoopTop
<1>3. ASSUME NEW p \in Procs, Wakes(p) PROVE Goal
  <2>1. job[p] \in Jobs
    BY <1>3 DEF Wakes, FreshLoops, Live
  <2> QED BY <1>3, <2>1 DEF Wakes, LoopTop
<1>4. ASSUME NEW p \in Procs,
             \/ Initialised(p) \/ Prepared(p) \/ ReactEnds(p) \/ RunReturns(p)
             \/ HookRaises(p) \/ CancelOne(p)
      PROVE  Goal
  BY <1>4 DEF Initialised, Prepared, ReactEnds, RunReturns, HookRaises, CancelOne
<1>5. CASE Start \/ Stop \/ WaitOver \/ StopReturns \/ UNCHANGED vars
  BY <1>5 DEF Start, Stop, WaitOver, StopReturns, vars
<1>6. CASE \E s \in Jobs : AddTask(s)
  BY <1>6 DEF AddTask
<1>7. CASE \E n \in Names : RemoveTask(n) \/ \E on \in BOOLEAN : EnableTask(n, on)
  BY <1>7 DEF RemoveTask, EnableTask
<1> QED BY <1>1, <1>2, <1>3, <1>4, <1>5, <1>6, <1>7 DEF Next

\* Runs are counted upwards only, and never beyond max_runs.
LEMMA NextCounters ==
    ASSUME TypeOK, Counted, FreshLoops, [Next]_vars
    PROVE  CountersOK' /\ Counted' /\ \A s \in Jobs : runs[s] <= runs'[s]
<1>0. /\ runs \in [Jobs -> Nat] /\ looped \in [Jobs -> Nat]
      /\ \A s \in Jobs : runs[s] <= MaxRuns[s] /\ looped[s] <= runs[s]
      /\ \A s \in Jobs : MaxRuns[s] \in Nat
  BY SchedulerAssumption DEF TypeOK, CountersOK, Counted
<1>1. CASE UNCHANGED countVars
  BY <1>0, <1>1 DEF countVars, CountersOK, Counted
<1>2. CASE \E p \in Procs, s \in Jobs : Execute(p, s) /\ (p \in Loops => ~Complete(s))
  <2>1. /\ runs' \in [Jobs -> Nat] /\ looped' \in [Jobs -> Nat]
        /\ \A u \in Jobs : runs'[u] <= MaxRuns[u] /\ looped'[u] <= runs'[u]
        /\ \A u \in Jobs : runs[u] <= runs'[u]
    BY <1>2, CountKeeps DEF Execute
  <2> QED BY <1>0, <2>1 DEF CountersOK, Counted
<1> QED BY <1>1, <1>2, OnlyExecuteCounts

\* The type invariant is kept.
LEMMA NextTypes == TypeOK /\ Counted /\ FreshLoops /\ [Next]_vars => TypeOK'
BY NextJobs, NextCounters, NextLoops, NextProcs, NextFlags DEF TypeOK
-----------------------------------------------------------------------------
(* One run at a time *)

\* Loops that start() has not made yet are at rest.
LEMMA NextFresh == TypeOK /\ Latest /\ FreshLoops /\ [Next]_vars => FreshLoops'
<1> SUFFICES ASSUME TypeOK, Latest, FreshLoops, [Next]_vars PROVE FreshLoops'
  OBVIOUS
<1>0. /\ pc \in [Procs -> Live \cup {"none", "done"}] /\ job \in [Procs -> Jobs \cup {None}]
      /\ tasks \in [Names -> Jobs \cup {None}] /\ starts \in Nat
      /\ waitFor \subseteq Loops /\ None \notin Jobs /\ Delayed \subseteq Jobs
      /\ Loops \subseteq Procs
  BY SchedulerAssumption DEF TypeOK, ProcsOK, JobsOK, LoopsOK, Procs, Loops
<1>a. CASE UNCHANGED <<pc, job, starts>>
  BY <1>a DEF FreshLoops
<1>b. ASSUME NEW p \in Procs, NEW w, pc' = [pc EXCEPT ![p] = w],
             pc[p] # "none", w \notin {"none", "created"},
             w = "done" \/ pc[p] \in Live \ {"created"},
             job' = job, starts' = starts
      PROVE  FreshLoops'
  BY <1>0, <1>b DEF FreshLoops, Live, Executing, Turn
<1>c. ASSUME NEW p \in Procs, NEW w, pc' = [pc EXCEPT ![p] = w],
             p \in Loops => pc[p] # "none", w \notin {"none", "created"}, NEW s,
             w = "done" \/ s \in Jobs, job' = [job EXCEPT ![p] = s], starts' = starts
      PROVE  FreshLoops'
  BY <1>0, <1>c DEF FreshLoops, Live, Executing, Turn
<1>1. ASSUME NEW s \in Jobs, AddTask(s) PROVE FreshLoops'
  BY <1>a, <1>1 DEF AddTask, stopVars
<1>2. ASSUME NEW n \in Names, RemoveTask(n) PROVE FreshLoops'
  BY <1>a, <1>2 DEF RemoveTask, stopVars
<1>3. ASSUME NEW n \in Names, NEW on \in BOOLEAN, EnableTask(n, on) PROVE FreshLoops'
  BY <1>a, <1>3 DEF EnableTask, stopVars
<1>4. ASSUME NEW n \in Manual, RunOnce(n) PROVE FreshLoops'
  <2>1. PICK w : Enters(<<n, 0>>, w)
    BY <1>4, ManualEnters
  <2>2. w \notin {"none", "created"} /\ pc' = [pc EXCEPT ![<<n, 0>>] = w]
    BY <2>1 DEF Enters
  <2>3. tasks[n] \in Jobs /\ job' = [job EXCEPT ![<<n, 0>>] = tasks[n]] /\ starts' = starts
    BY <1>0, <1>4, SchedulerAssumption DEF RunOnce, stopVars
  <2> QED BY <1>4, <1>c, <2>2, <2>3, ManualEnters
<1>5. ASSUME NEW p \in Procs, Initialised(p) \/ Prepared(p) \/ ReactEnds(p) PROVE FreshLoops'
  BY <1>5, <1>b DEF Live, Executing, Turn, Initialised, Prepared, ReactEnds, Goto, stopVars
<1>6. ASSUME NEW p \in Procs, RunReturns(p) \/ HookRaises(p) PROVE FreshLoops'
  BY <1>6, <1>b DEF Live, Executing, Turn, RunReturns, HookRaises, Goto, After, stopVars
<1>7. ASSUME NEW p \in Procs, CancelOne(p) PROVE FreshLoops'
  <2>1. p \in Loops /\ p[2] <= starts
    BY <1>0, <1>7 DEF CancelOne, Latest
  <2>2. pc' = [pc EXCEPT ![p] = "done"] /\ job' = job /\ starts' = starts
    BY <1>7 DEF CancelOne, Goto
  <2>3. \A q \in Loops : q[2] \in Nat
    BY DEF Loops
  <2> QED BY <1>0, <2>1, <2>2, <2>3 DEF FreshLoops, Live, Executing, Turn
<1>8. ASSUME NEW p \in Procs, Wakes(p) PROVE FreshLoops'
  <2>1. PICK w : Enters(p, w)
    BY <1>8, LoopEnters
  <2>2. w \notin {"none", "created"} /\ pc' = [pc EXCEPT ![p] = w]
    BY <2>1 DEF Enters
  <2> QED BY <1>8, <1>b, <2>2 DEF Wakes, Live, stopVars
<1>9. ASSUME NEW p \in Procs, LoopStarts(p) PROVE FreshLoops'
  <2>1. PICK w : Enters(p, w)
    BY <1>9, LoopEnters
  <2>2. w \notin {"none", "created"} /\ pc' = [pc EXCEPT ![p] = w]
    BY <2>1 DEF Enters
  <2>3. tasks[p[1]] \in Jobs \cup {None}
    BY <1>0 DEF Procs
  <2>4. tasks[p[1]] = None => w = "done"
    BY <1>0, <1>9, <2>2 DEF LoopStarts, Goto
  <2> QED BY <1>9, <1>c, <2>2, <2>3, <2>4 DEF LoopStarts, stopVars
<1>10. CASE Start
  <2>1. \A p \in Loops : p[2] \in Nat
    BY DEF Loops
  <2>2. \A n \in Names : <<n, starts + 1>> \in Procs => <<n, starts + 1>> \in Loops
    BY <1>0 DEF Procs, Loops
  <2> DEFINE new == {<<n, starts + 1>> : n \in {m \in Names : tasks[m] # None /\ ~Complete(tasks[m])}}
  <2>3. /\ pc' = [p \in Procs |-> IF p \in new THEN "created" ELSE pc[p]]
        /\ job' = job /\ starts' = starts + 1
    BY <1>10 DEF Start
  <2>4. \A p \in new : p[2] = starts + 1
    OBVIOUS
  <2>5. \A p \in Loops : p \in Procs
    BY DEF Procs, Loops
  <2> QED BY <1>0, <2>1, <2>2, <2>3, <2>4, <2>5 DEF FreshLoops
<1>11. CASE Stop \/ WaitOver \/ StopReturns \/ UNCHANGED vars
  BY <1>a, <1>11 DEF Stop, WaitOver, StopReturns, vars, stopVars
<1> QED BY <1>1, <1>2, <1>3, <1>4, <1>5, <1>6, <1>7, <1>8, <1>9, <1>10, <1>11 DEF Next

\* The overlap of two initialisations is remembered.
LEMMA NextExclusive ==
    ASSUME TypeOK, Exclusive, Latest, FreshLoops, [Next]_vars
    PROVE  Exclusive' /\ (doubled => doubled')
<1> DEFINE Goal == Exclusive' /\ (doubled => doubled')
           Closed == {"completed", "failed"}
<1>0. pc \in [Procs -> Live \cup {"none", "done"}]
  BY DEF TypeOK, ProcsOK
<1>a. CASE UNCHANGED <<pc, status, doubled>>
  BY <1>a DEF Exclusive, Fits
<1>b. ASSUME NEW p \in Procs, NEW w, Enters(p, w), pc[p] \notin Executing
      PROVE  Goal
  <2>1. CASE doubled
    BY <1>b, <2>1 DEF Enters, Exclusive
  <2>2. CASE ~doubled /\ w = "init" /\ ~doubled'
    <3>1. status = "created" /\ status' = status /\ \A q \in Procs : pc[q] # "init"
      BY <1>b, <2>2 DEF Enters
    <3>2. \A q \in Procs : pc[q] \notin Executing
      BY <2>2, <3>1 DEF Exclusive, Fits, Executing, Turn
    <3> QED BY <1>0, <1>b, <2>2, <3>1, <3>2 DEF Enters, Exclusive, Fits, Executing, Turn
  <2>3. CASE ~doubled /\ w = "prep"
    <3>1. status = "idle" /\ status' = "running"
      BY <1>b, <2>3 DEF Enters
    <3>2. \A q \in Procs : pc[q] \notin Executing
      BY <2>3, <3>1 DEF Exclusive, Fits, Executing, Turn
    <3> QED BY <1>0, <1>b, <2>3, <3>1, <3>2 DEF Enters, Exclusive, Fits, Executing, Turn
  <2>4. CASE ~doubled /\ w \in {"delay", "sleep", "done"}
    <3>1. status' = status /\ pc' = [pc EXCEPT ![p] = w]
      BY <1>b, <2>4 DEF Enters
    <3> QED BY <1>0, <2>4, <3>1 DEF Exclusive, Fits, Executing, Turn
  <2>5. CASE doubled'
    BY <2>5 DEF Exclusive
  <2> QED BY <1>b, <2>1, <2>2, <2>3, <2>4, <2>5 DEF Enters
\* The process that executes moves on alone.
<1>c. ASSUME NEW p \in Procs, NEW w, pc' = [pc EXCEPT ![p] = w], doubled' = doubled,
             pc[p] \in Executing \/ status' = status,
             w \in Executing => pc[p] \in Executing /\ Fits(w)'
      PROVE  Goal
  <2>1. CASE doubled
    BY <1>c, <2>1 DEF Exclusive
  <2>2. CASE ~doubled
    <3>1. \A q \in Procs : q # p /\ pc[q] \in Executing => status' = status
      BY <1>c, <2>2 DEF Exclusive
    <3>2. \A q \in Procs : Fits(pc[q])'
      <4>1. ASSUME NEW q \in Procs, q # p PROVE Fits(pc[q])'
        <5>1. pc'[q] = pc[q] /\ Fits(pc[q])
          BY <1>0, <1>c, <2>2, <4>1 DEF Exclusive
        <5> QED BY <3>1, <4>1, <5>1 DEF Fits, Executing, Turn
      <4>2. Fits(pc[p])'
        BY <1>0, <1>c DEF Fits, Executing, Turn
      <4> QED BY <4>1, <4>2
    <3>3. \A q, r \in Procs : pc'[q] \in Executing /\ pc'[r] \in Executing => q = r
      BY <1>0, <1>c, <2>2 DEF Exclusive
    <3> QED BY <1>c, <3>2, <3>3 DEF Exclusive
  <2> QED BY <2>1, <2>2 DEF Exclusive
<1>1. ASSUME NEW s \in Jobs, AddTask(s) PROVE Goal
  BY <1>a, <1>1 DEF AddTask
<1>2. ASSUME NEW n \in Names, RemoveTask(n) PROVE Goal
  BY <1>a, <1>2 DEF RemoveTask
<1>3. ASSUME NEW n \in Names, NEW on \in BOOLEAN, EnableTask(n, on) PROVE Goal
  BY <1>a, <1>3 DEF EnableTask
<1>4. ASSUME NEW n \in Manual, RunOnce(n) PROVE Goal
  BY <1>4, <1>b, ManualEnters DEF Executing, Turn
<1>5. ASSUME NEW p \in Procs, Initialised(p) \/ Prepared(p) PROVE Goal
  <2>1. CASE Initialised(p)
    BY <1>c, <2>1 DEF Initialised, Goto, Fits, Executing, Turn, history
  <2>2. CASE Prepared(p)
    BY <1>c, <2>2 DEF Prepared, Goto, Exclusive, Fits, Executing, Turn, history
  <2> QED BY <1>5, <2>1, <2>2
<1>6. ASSUME NEW p \in Procs, ReactEnds(p) \/ RunReturns(p) PROVE Goal
  BY <1>6, <1>c DEF ReactEnds, RunReturns, Goto, After, Fits, Executing, Turn, history
<1>7. ASSUME NEW p \in Procs, HookRaises(p) \/ CancelOne(p) PROVE Goal
  BY <1>7, <1>c DEF HookRaises, CancelOne, Goto, After, Executing, Turn
<1>8. ASSUME NEW p \in Procs, LoopStarts(p) \/ Wakes(p) PROVE Goal
  BY <1>8, <1>b, LoopEnters DEF Executing, Turn
<1>9. CASE Start
  <2>1. /\ \A p \in Procs : pc'[p] \in {pc[p], "created"}
        /\ status' = status /\ doubled' = doubled
    BY <1>9 DEF Start
  <2> QED BY <2>1 DEF Exclusive, Fits, Executing, Turn
<1>10. CASE Stop \/ WaitOver \/ StopReturns \/ UNCHANGED vars
  BY <1>a, <1>10 DEF Stop, WaitOver, StopReturns, vars, history
<1> QED BY <1>1, <1>2, <1>3, <1>4, <1>5, <1>6, <1>7, <1>8, <1>9, <1>10 DEF Next

\* The Agent is left free by whoever runs it, except by the runs that are excused.
LEMMA NextAvailable ==
    ASSUME TypeOK, Available, FreshLoops, [Next]_vars
    PROVE  Available'
<1> DEFINE Closed == {"completed", "failed"}
<1>0. pc \in [Procs -> Live \cup {"none", "done"}]
  BY DEF TypeOK, ProcsOK
<1>a. CASE UNCHANGED <<pc, status, spoiled>>
  BY <1>a DEF Available
\* A process that no part of the invariant depends on.
<1>b. ASSUME NEW p \in Procs, NEW w, pc' = [pc EXCEPT ![p] = w], spoiled => spoiled',
             pc[p] \notin Turn \cup {"closing"} \/ status' \notin {"running"} \cup Closed,
             status' = status \/ status' = "idle" \/ (status' = "running" /\ w \in Turn)
      PROVE  Available'
  <2>1. CASE status' = "running" /\ w \in Turn
    BY <1>0, <1>b, <2>1 DEF Available
  <2>2. CASE status' = status /\ pc[p] \notin Turn \cup {"closing"}
    BY <1>0, <1>b, <2>2 DEF Available
  <2>3. CASE status' \notin {"running"} \cup Closed
    BY <2>3 DEF Available
  <2> QED BY <1>b, <2>1, <2>2, <2>3
<1>1. ASSUME NEW s \in Jobs, AddTask(s) PROVE Available'
  BY <1>a, <1>1 DEF AddTask
<1>2. ASSUME NEW n \in Names, RemoveTask(n) PROVE Available'
  BY <1>a, <1>2 DEF RemoveTask
<1>3. ASSUME NEW n \in Names, NEW on \in BOOLEAN, EnableTask(n, on) PROVE Available'
  BY <1>a, <1>3 DEF EnableTask
<1>4. ASSUME NEW n \in Manual, RunOnce(n) PROVE Available'
  <2>1. PICK w : Enters(<<n, 0>>, w)
    BY <1>4, ManualEnters
  <2>2. spoiled' = spoiled
    BY <1>4 DEF RunOnce
  <2>3. pc[<<n, 0>>] \notin Turn \cup {"closing"} /\ <<n, 0>> \in Procs
    BY <1>4, ManualEnters DEF Turn
  <2> QED BY <1>b, <2>1, <2>2, <2>3 DEF Enters, Turn
<1>5. ASSUME NEW p \in Procs, LoopStarts(p) \/ Wakes(p) PROVE Available'
  <2>1. PICK w : Enters(p, w)
    BY <1>5, LoopEnters
  <2>2. spoiled' = spoiled
    BY <1>5 DEF LoopStarts, Wakes
  <2>3. pc[p] \notin Turn \cup {"closing"}
    BY <1>5, LoopEnters DEF Turn
  <2> QED BY <1>b, <2>1, <2>2, <2>3 DEF Enters, Turn
<1>6. ASSUME NEW p \in Procs, Initialised(p) PROVE Available'
  BY <1>6, <1>b DEF Initialised, Goto, Turn, history
<1>7. ASSUME NEW p \in Procs, Prepared(p) PROVE Available'
  <2>1. pc' = [pc EXCEPT ![p] = "react"] /\ UNCHANGED <<status, spoiled>>
    BY <1>7 DEF Prepared, Goto, history
  <2>2. /\ pc[p] = "prep" /\ pc'[p] = "react"
        /\ \A q \in Procs : q # p => pc'[q] = pc[q]
    BY <1>0, <1>7, <2>1 DEF Prepared
  <2> QED BY <2>1, <2>2 DEF Available, Turn
<1>8. ASSUME NEW p \in Procs, ReactEnds(p) PROVE Available'
  <2>1. pc'[p] = "closing" /\ status' \in Closed
    BY <1>0, <1>8 DEF ReactEnds, Goto
  <2> QED BY <2>1 DEF Available
<1>9. ASSUME NEW p \in Procs, RunReturns(p) PROVE Available'
  <2>1. pc' = [pc EXCEPT ![p] = After(p, job[p])] /\ pc[p] = "closing" /\ spoiled' = spoiled
    BY <1>9 DEF RunReturns, Goto, history
  <2>2. CASE status \in Closed
    BY <1>9, <1>b, <2>1, <2>2 DEF RunReturns
  <2>3. CASE status \notin Closed
    <3>1. status' = status /\ \A q \in Procs : q # p => pc'[q] = pc[q]
      BY <1>0, <1>9, <2>1, <2>3 DEF RunReturns
    <3> QED BY <2>1, <2>3, <3>1 DEF Available, Turn
  <2> QED BY <2>2, <2>3
<1>10. ASSUME NEW p \in Procs, HookRaises(p) PROVE Available'
  <2>1. CASE pc[p] = "init"
    BY <1>10, <1>b, <2>1 DEF HookRaises, Goto, Turn
  <2>2. CASE pc[p] # "init"
    BY <1>10, <2>2 DEF HookRaises, Available
  <2> QED BY <2>1, <2>2
<1>11. ASSUME NEW p \in Procs, CancelOne(p) PROVE Available'
  <2>1. CASE pc[p] \in {"prep", "closing"}
    BY <1>11, <2>1 DEF CancelOne, Available
  <2>2. CASE pc[p] = "react"
    BY <1>11, <1>b, <2>2 DEF CancelOne, Goto
  <2>3. CASE pc[p] \notin Turn \cup {"closing"}
    BY <1>11, <1>b, <2>3 DEF CancelOne, Goto, Turn
  <2> QED BY <2>1, <2>2, <2>3 DEF Turn
<1>12. CASE Start
  <2>1. /\ \A p \in Procs : pc[p] # "none" => pc'[p] = pc[p]
        /\ UNCHANGED <<status, spoiled>>
    BY <1>12, SchedulerAssumption DEF Start, FreshLoops, TypeOK, LoopsOK, Procs, Loops
  <2> QED BY <2>1 DEF Available, Turn
<1>13. CASE Stop \/ WaitOver \/ StopReturns \/ UNCHANGED vars
  BY <1>a, <1>13 DEF Stop, WaitOver, StopReturns, vars, history
<1> QED BY <1>1, <1>2, <1>3, <1>4, <1>5, <1>6, <1>7, <1>8, <1>9, <1>10, <1>11, <1>12, <1>13
        DEF Next
-----------------------------------------------------------------------------
(* The lists of start() and stop() *)

\* Loops that are not tracked belong to a stop() that is under way.
LEMMA NextTracking ==
    ASSUME TypeOK, Tracking, FreshLoops, [Next]_vars
    PROVE  Tracking'
<1>0. /\ pc \in [Procs -> Live \cup {"none", "done"}] /\ Loops \subseteq Procs
      /\ running \in BOOLEAN /\ stopping \in {"no", "waiting", "cancelling"}
  BY DEF TypeOK, ProcsOK, LoopsOK, FlagsOK, Procs, Loops
<1>a. CASE UNCHANGED <<pc, stopVars, missed>>
  BY <1>a DEF Tracking, stopVars
\* One process goes on, while the lists are left alone.
<1>b. ASSUME NEW p \in Procs, NEW w, pc' = [pc EXCEPT ![p] = w],
             p \in Loops => pc[p] \in Live, UNCHANGED <<stopVars, missed>>
      PROVE  Tracking'
  BY <1>0, <1>b DEF Tracking, stopVars
<1>1. ASSUME NEW s \in Jobs, AddTask(s) PROVE Tracking'
  BY <1>a, <1>1 DEF AddTask
<1>2. ASSUME NEW n \in Names, RemoveTask(n) PROVE Tracking'
  BY <1>a, <1>2 DEF RemoveTask
<1>3. ASSUME NEW n \in Names, NEW on \in BOOLEAN, EnableTask(n, on) PROVE Tracking'
  BY <1>a, <1>3 DEF EnableTask
<1>4. ASSUME NEW n \in Manual, RunOnce(n) PROVE Tracking'
  BY <1>4, <1>b, ManualEnters DEF Enters, RunOnce
<1>5. ASSUME NEW p \in Procs, LoopStarts(p) \/ Wakes(p) PROVE Tracking'
  BY <1>5, <1>b, LoopEnters DEF Enters, LoopStarts, Wakes, Live
<1>6. ASSUME NEW p \in Procs,
             \/ Initialised(p) \/ Prepared(p) \/ ReactEnds(p) \/ RunReturns(p) \/ HookRaises(p)
      PROVE  Tracking'
  BY <1>6, <1>b DEF Initialised, Prepared, ReactEnds, RunReturns, HookRaises, Goto,
                    Live, Executing, Turn, history
<1>7. ASSUME NEW p \in Procs, CancelOne(p) PROVE Tracking'
  BY <1>0, <1>7 DEF CancelOne, Goto, Tracking, Live, Executing, Turn
<1>8. CASE Start
  <2> DEFINE new == {<<n, starts + 1>> : n \in {m \in Names : tasks[m] # None /\ ~Complete(tasks[m])}}
  <2>1. \A p \in Loops : pc'[p] = IF p \in new THEN "created" ELSE pc[p]
    BY <1>0, <1>8 DEF Start
  <2>2. CASE stopping = "no"
    <3>1. \A p \in Loops \ missed : pc[p] \notin Live
      BY <1>8, <2>2 DEF Start, Tracking
    <3> QED BY <1>8, <2>1, <2>2, <3>1 DEF Start, Tracking
  <2>3. CASE stopping # "no"
    <3>1. missed' = missed \cup new /\ UNCHANGED <<stopping, waitFor>>
      BY <1>8, <2>3 DEF Start
    <3> QED BY <2>1, <2>3, <3>1 DEF Tracking
  <2> QED BY <2>2, <2>3
<1>9. CASE Stop
  BY <1>9 DEF Stop, Tracking, history
<1>10. CASE WaitOver
  BY <1>10 DEF WaitOver, Tracking, Live, Executing, Turn, history
<1>11. CASE StopReturns
  BY <1>11 DEF StopReturns, Tracking, history
<1>12. CASE UNCHANGED vars
  BY <1>a, <1>12 DEF vars, history
<1> QED BY <1>1, <1>2, <1>3, <1>4, <1>5, <1>6, <1>7, <1>8, <1>9, <1>10, <1>11, <1>12 DEF Next

\* A task that is due after a step was due before it: what becomes due while
\* the scheduler runs is late.
Due(n) == tasks[n] \in Periodic \ late /\ ~Complete(tasks[n])

\* A task that is due after a step was due before it, unless start() made it so.
LEMMA DueBefore ==
    ASSUME TypeOK, Counted, FreshLoops, [Next]_vars, ~Start, running, NEW n \in Names, Due(n)'
    PROVE  Due(n) /\ tasks'[n] = tasks[n]
<1> DEFINE Goal == Due(n) /\ tasks'[n] = tasks[n]
<1>0. /\ tasks \in [Names -> made \cup {None}] /\ Periodic \subseteq Jobs /\ None \notin Jobs
      /\ runs \in [Jobs -> Nat] /\ MaxRuns \in [Jobs -> Nat]
  BY SchedulerAssumption DEF TypeOK, JobsOK, CountersOK
<1>1. tasks'[n] \in Periodic \ late' /\ ~Complete(tasks[n])'
  BY DEF Due
<1>2. ASSUME NEW s \in Jobs, AddTask(s) PROVE Goal
  BY <1>0, <1>1, <1>2 DEF AddTask, countVars, Complete, Due
<1>3. ASSUME NEW m \in Names, RemoveTask(m) PROVE Goal
  BY <1>0, <1>1, <1>3 DEF RemoveTask, countVars, Complete, Due
<1>4. ASSUME NEW m \in Names, NEW on \in BOOLEAN, EnableTask(m, on) PROVE Goal
  BY <1>0, <1>1, <1>4 DEF EnableTask, countVars, Complete, Due
<1>5. ASSUME UNCHANGED <<jobVars, late>> PROVE Goal
  <2>1. /\ tasks' = tasks /\ tasks[n] \in Periodic \ late
        /\ tasks[n] \notin removed /\ tasks[n] \in enabled
        /\ ~(MaxRuns[tasks[n]] > 0 /\ runs'[tasks[n]] >= MaxRuns[tasks[n]])
    BY <1>1, <1>5 DEF jobVars, Complete
  <2>2. runs[tasks[n]] <= runs'[tasks[n]] /\ CountersOK'
    BY <1>0, <2>1, NextCounters
  <2>3. ~(MaxRuns[tasks[n]] > 0 /\ runs[tasks[n]] >= MaxRuns[tasks[n]])
    BY <1>0, <2>1, <2>2 DEF CountersOK
  <2> QED BY <2>1, <2>3 DEF Complete, Due
<1>6. ASSUME NEW m \in Manual, RunOnce(m) PROVE Goal
  BY <1>5, <1>6 DEF RunOnce
<1>7. ASSUME NEW p \in Procs,
             \/ Initialised(p) \/ Prepared(p) \/ ReactEnds(p) \/ RunReturns(p)
             \/ HookRaises(p) \/ LoopStarts(p) \/ Wakes(p) \/ CancelOne(p)
      PROVE  Goal
  BY <1>5, <1>7 DEF Initialised, Prepared, ReactEnds, RunReturns, HookRaises,
                    LoopStarts, Wakes, CancelOne, history
<1>8. CASE Stop \/ WaitOver \/ StopReturns \/ UNCHANGED vars
  BY <1>5, <1>8 DEF Stop, WaitOver, StopReturns, vars, history
<1> QED BY <1>2, <1>3, <1>4, <1>6, <1>7, <1>8 DEF Next

\* The loops of the latest start() serve the tasks that are due.
LEMMA NextLatest ==
    ASSUME TypeOK, Counted, Latest, FreshLoops, [Next]_vars
    PROVE  Latest'
<1>0. /\ pc \in [Procs -> Live \cup {"none", "done"}] /\ Loops \subseteq Procs
      /\ job \in [Procs -> Jobs \cup {None}] /\ None \notin Jobs
      /\ running \in BOOLEAN /\ starts \in Nat /\ MaxStarts \in Nat
      /\ tracked \subseteq Loops /\ waitFor \subseteq Loops /\ Periodic \subseteq Jobs
      /\ \A p \in Loops : p[2] \in Nat
  BY SchedulerAssumption DEF TypeOK, ProcsOK, LoopsOK, FlagsOK, Procs, Loops
<1>a. ASSUME ~Start, UNCHANGED <<running, starts, tracked>>, waitFor' \subseteq waitFor,
             \A n \in Names : running /\ <<n, starts>> \in Loops \ waitFor /\ Due(n) /\ Due(n)'
                                 /\ Serves(<<n, starts>>, n) /\ tasks'[n] = tasks[n]
                              => Serves(<<n, starts>>, n)'
      PROVE  Latest'
  <2>1. \A p \in tracked' \cup waitFor' : p[2] <= starts'
    BY <1>a DEF Latest
  <2>2. ASSUME running
        PROVE  /\ starts \in 1..MaxStarts /\ \A n \in Names : <<n, starts>> \notin waitFor
               /\ \A n \in Names : Due(n) => Serves(<<n, starts>>, n)
    BY <2>2 DEF Latest, Due
  <2>3. ASSUME running, NEW n \in Names, Due(n)' PROVE Serves(<<n, starts>>, n)'
    <3>1. Due(n) /\ tasks'[n] = tasks[n]
      BY <1>a, <2>3, DueBefore
    <3>2. <<n, starts>> \in Loops \ waitFor
      BY <2>2, <2>3 DEF Loops
    <3> QED BY <1>a, <2>2, <2>3, <3>1, <3>2
  <2> QED BY <1>a, <2>1, <2>2, <2>3 DEF Latest, Due, Serves
<1>b. CASE ~Start /\ UNCHANGED <<pc, job, running, starts, tracked, waitFor>>
  BY <1>a, <1>b DEF Serves
\* A step of one process that stays alive, or is not the loop in question.
<1>c. ASSUME ~Start, NEW p \in Procs, NEW w, pc' = [pc EXCEPT ![p] = w],
             UNCHANGED <<running, starts, tracked>>, waitFor' \subseteq waitFor,
             \A q \in Procs \ {p} : job'[q] = job[q],
             \A n \in Names : running /\ p = <<n, starts>> /\ p \in Loops \ waitFor
                                 /\ Due(n) /\ Due(n)' /\ Serves(p, n) /\ tasks'[n] = tasks[n]
                              => job'[p] = tasks[n] /\ w \in Live
      PROVE  Latest'
  <2> SUFFICES ASSUME NEW n \in Names, running, <<n, starts>> \in Loops \ waitFor,
                      Due(n), Due(n)', Serves(<<n, starts>>, n), tasks'[n] = tasks[n]
               PROVE  Serves(<<n, starts>>, n)'
    BY <1>a, <1>c
  <2>1. CASE p = <<n, starts>>
    BY <1>0, <1>c, <2>1 DEF Serves
  <2>2. CASE p # <<n, starts>>
    BY <1>0, <1>c, <2>2 DEF Serves
  <2> QED BY <2>1, <2>2
<1>1. ASSUME NEW s \in Jobs, AddTask(s) PROVE Latest'
  BY <1>0, <1>b, <1>1 DEF AddTask, stopVars, Start
<1>2. ASSUME NEW n \in Names, RemoveTask(n) PROVE Latest'
  BY <1>0, <1>b, <1>2 DEF RemoveTask, stopVars, Start
<1>3. ASSUME NEW n \in Names, NEW on \in BOOLEAN, EnableTask(n, on) PROVE Latest'
  BY <1>0, <1>b, <1>3 DEF EnableTask, stopVars, Start
<1>4. ASSUME NEW n \in Manual, RunOnce(n) PROVE Latest'
  <2>1. PICK w : Enters(<<n, 0>>, w)
    BY <1>4, ManualEnters
  <2> QED BY <1>0, <1>4, <1>c, <2>1, ManualEnters DEF Enters, RunOnce, stopVars, Start
<1>5. ASSUME NEW p \in Procs, Initialised(p) \/ Prepared(p) \/ ReactEnds(p) PROVE Latest'
  <2>1. PICK w \in {"prep", "react", "closing"} : pc' = [pc EXCEPT ![p] = w]
    BY <1>5 DEF Initialised, Prepared, ReactEnds, Goto
  <2>2. UNCHANGED <<job, stopVars>> /\ pc[p] # "created"
    BY <1>5 DEF Initialised, Prepared, ReactEnds
  <2>3. w \in Live
    BY DEF Live, Executing, Turn
  <2> QED BY <1>0, <1>c, <2>1, <2>2, <2>3 DEF stopVars, Start, Serves
<1>6. ASSUME NEW p \in Procs, RunReturns(p) \/ HookRaises(p) PROVE Latest'
  <2>1. /\ pc' = [pc EXCEPT ![p] = After(p, job[p])]
        /\ UNCHANGED <<job, stopVars>> /\ pc[p] # "created"
    BY <1>6 DEF RunReturns, HookRaises, Goto
  <2>2. ASSUME NEW n \in Names, running, p \in Loops, Due(n), Serves(p, n)
        PROVE  job[p] = tasks[n] /\ After(p, job[p]) \in Live
    BY <2>1, <2>2 DEF Due, Serves, After, Live
  <2> QED BY <1>0, <1>c, <2>1, <2>2 DEF stopVars, Start
<1>7. ASSUME NEW p \in Procs, CancelOne(p) PROVE Latest'
  BY <1>0, <1>7, <1>c DEF CancelOne, Goto, Start
\* A loop of a task that is due, at the head of its while loop, goes on.
<1>8. ASSUME NEW p \in Loops, NEW s \in Periodic, running, LoopTop(p, s), pc[p] # "none",
             s \notin removed, s \in enabled, UNCHANGED jobVars, ~Complete(s)'
      PROVE  \E w \in Live : pc' = [pc EXCEPT ![p] = w]
  <2>1. CASE Execute(p, s)
    BY <1>8, <2>1 DEF Execute, Goto, After, Live, Executing, Turn
  <2>2. CASE Complete(s) /\ UNCHANGED countVars
    BY <1>8, <2>2 DEF Complete, jobVars, countVars
  <2> QED BY <1>8, <2>1, <2>2 DEF LoopTop
<1>9. ASSUME NEW p \in Procs, Wakes(p) PROVE Latest'
  <2>1. PICK w : pc' = [pc EXCEPT ![p] = w]
    BY <1>9, LoopEnters DEF Enters
  <2>2. ASSUME NEW n \in Names, running, p \in Loops, Due(n), Due(n)', Serves(p, n),
               tasks'[n] = tasks[n]
        PROVE  job'[p] = tasks[n] /\ w \in Live
    <3>1. job[p] = tasks[n] /\ pc[p] # "none" /\ job' = job
      BY <1>9, <2>2 DEF Serves, Wakes
    <3>2. \E v \in Live : pc' = [pc EXCEPT ![p] = v]
      BY <1>8, <1>9, <2>2, <3>1 DEF Wakes, Due, Complete
    <3>3. w \in Live
      BY <1>0, <2>1, <3>2
    <3> QED BY <2>2, <3>1, <3>3
  <2> QED BY <1>0, <1>9, <1>c, <2>1, <2>2 DEF Wakes, stopVars, Start
<1>10. ASSUME NEW p \in Procs, LoopStarts(p) PROVE Latest'
  <2>1. PICK w : pc' = [pc EXCEPT ![p] = w]
    BY <1>10, LoopEnters DEF Enters
  <2>2. ASSUME NEW n \in Names, running, p = <<n, starts>>, p \in Loops, Due(n), Due(n)',
               tasks'[n] = tasks[n]
        PROVE  job'[p] = tasks[n] /\ w \in Live
    <3>1. p[1] = n /\ pc[p] # "none" /\ job' = [job EXCEPT ![p] = tasks[n]]
      BY <1>10, <2>2 DEF LoopStarts
    <3>2. tasks[n] \in Periodic /\ tasks[n] # None
      BY <1>0, <2>2 DEF Due
    <3>3. \E v \in Live : pc' = [pc EXCEPT ![p] = v]
      <4>1. CASE Goto(p, "delay")
        BY <4>1 DEF Goto, Live
      <4>2. CASE LoopTop(p, tasks[n])
        BY <1>8, <1>10, <2>2, <3>1, <3>2, <4>2 DEF LoopStarts, Due, Complete
      <4> QED BY <1>10, <3>1, <3>2, <4>1, <4>2 DEF LoopStarts
    <3>4. w \in Live
      BY <1>0, <2>1, <3>3
    <3> QED BY <1>0, <3>1, <3>4
  <2> QED BY <1>0, <1>10, <1>c, <2>1, <2>2 DEF LoopStarts, stopVars, Start
<1>11. CASE Start
  <2> DEFINE new == {<<n, starts + 1>> : n \in {m \in Names : tasks[m] # None /\ ~Complete(tasks[m])}}
  <2>1. /\ starts' = starts + 1 /\ starts < MaxStarts /\ tracked' = tracked \cup new
        /\ waitFor' = waitFor /\ late' = {} /\ UNCHANGED <<jobVars, countVars, job>>
        /\ pc' = [p \in Procs |-> IF p \in new THEN "created" ELSE pc[p]]
    BY <1>11 DEF Start
  <2>2. \A p \in tracked' \cup waitFor' : p[2] <= starts'
    BY <1>0, <2>1 DEF Latest
  <2>3. ASSUME NEW n \in Names PROVE <<n, starts'>> \notin waitFor'
    BY <1>0, <2>1 DEF Latest
  <2>4. ASSUME NEW n \in Names, tasks'[n] \in Periodic \ late', ~Complete(tasks[n])'
        PROVE  Serves(<<n, starts>>, n)'
    <3>1. tasks[n] # None /\ ~Complete(tasks[n])
      BY <1>0, <2>1, <2>4 DEF jobVars, countVars, Complete
    <3>2. <<n, starts + 1>> \in new /\ <<n, starts + 1>> \in Procs
      BY <1>0, <2>1, <3>1 DEF Procs
    <3> QED BY <2>1, <3>2 DEF Serves
  <2> QED BY <1>0, <2>1, <2>2, <2>3, <2>4 DEF Latest
<1>12. CASE Stop
  BY <1>0, <1>12 DEF Stop, Latest
<1>13. CASE WaitOver
  BY <1>0, <1>13, <1>c, <1>a DEF WaitOver, Start, Serves
<1>14. CASE StopReturns
  BY <1>0, <1>14 DEF StopReturns, Latest, Serves, Complete, jobVars, countVars, history
<1>15. CASE UNCHANGED vars
  BY <1>0, <1>b, <1>15 DEF vars, stopVars, Start
<1> QED BY <1>1, <1>2, <1>3, <1>4, <1>5, <1>6, <1>7, <1>9, <1>10, <1>11, <1>12, <1>13,
           <1>14, <1>15 DEF Next
-----------------------------------------------------------------------------
(* The theorems *)

\* The invariant holds at first, ...
LEMMA InitInvariant == Init => IInv
<1> SUFFICES ASSUME Init PROVE IInv
  OBVIOUS
<1>1. /\ \A p \in Procs : pc[p] = "none" /\ job[p] = None
      /\ status = "created" /\ Loops \subseteq Procs
  BY DEF Init, Procs, Loops
<1>2. Exclusive /\ Available
  BY <1>1 DEF Exclusive, Available, Fits, Executing, Turn
<1>3. Counted
  BY DEF Init, Counted
<1>4. Tracking /\ Latest /\ FreshLoops
  BY <1>1 DEF Init, Tracking, Latest, FreshLoops, Live, Executing, Turn
<1> QED BY <1>2, <1>3, <1>4, InitTypes DEF IInv

\* ... is kept by every step, ...
LEMMA NextInvariant == IInv /\ [Next]_vars => IInv'
BY NextTypes, NextExclusive, NextAvailable, NextCounters, NextTracking, NextLatest, NextFresh
   DEF IInv

\* What the parts of the invariant say of the shared Agent and of its loops.
LEMMA InvariantIsSound == IInv => SchedulerSound
<1> SUFFICES ASSUME IInv PROVE SchedulerSound
  OBVIOUS
<1>1. OneRunAtATime
  BY DEF IInv, Exclusive, OneRunAtATime, Executing
<1>2. AgentAvailable
  <2> SUFFICES ASSUME \A p \in Procs : pc[p] \notin Executing, ~spoiled
               PROVE  status \in {"created", "idle"}
    BY DEF AgentAvailable
  <2> QED BY DEF IInv, Available, TypeOK, ProcsOK, Executing
<1>3. StopIsComplete
  BY DEF IInv, Tracking, StopIsComplete
<1>4. TasksAreScheduled
  BY DEF IInv, Latest, Serves, TasksAreScheduled
<1> QED BY <1>1, <1>2, <1>3, <1>4 DEF IInv, SchedulerSound

\* ... and so holds of every behaviour.
LEMMA InvariantHolds == Spec => []IInv
BY InitInvariant, NextInvariant, PTL DEF Spec

\* Whatever loops, manual runs, starts and stops meet, the shared Agent
\* executes one run at a time and is available after it, a job's loops never
\* exceed max_runs, stop() leaves no loop behind that it knew of, and every
\* periodic task that is due has a loop.
THEOREM SchedulerCorrect == Spec => []SchedulerSound
BY InvariantHolds, InvariantIsSound, PTL

\* A removed task, or one that is disabled at the time, is not executed by a loop it has.
THEOREM WithdrawnStaysOutHolds == Spec => WithdrawnStaysOut
<1>1. ASSUME IInv, [Next]_vars, NEW p \in Loops, job[p] \in removed \cup (made \ enabled), pc[p] \notin Executing
      PROVE  pc'[p] \notin Executing
  <2>0. /\ pc \in [Procs -> Live \cup {"none", "done"}] /\ Loops \subseteq Procs
        /\ None \notin removed \cup (made \ enabled)
    BY <1>1, SchedulerAssumption DEF IInv, TypeOK, ProcsOK, JobsOK, Procs, Loops
  <2>1. pc[p] # "created"
    BY <1>1, <2>0 DEF IInv, FreshLoops
  <2>2. ASSUME NEW q \in Procs, NEW w, pc' = [pc EXCEPT ![q] = w], q # p
        PROVE  pc'[p] \notin Executing
    BY <1>1, <2>0, <2>2
  <2>3. ASSUME NEW n \in Manual, RunOnce(n) PROVE pc'[p] \notin Executing
    BY <1>1, <2>2, <2>3, ManualEnters DEF Enters, IInv
  <2>4. ASSUME NEW q \in Procs,
               \/ Initialised(q) \/ Prepared(q) \/ ReactEnds(q) \/ RunReturns(q) \/ HookRaises(q)
        PROVE  pc'[p] \notin Executing
    <3>1. q # p
      BY <1>1, <2>4 DEF Initialised, Prepared, ReactEnds, RunReturns, HookRaises, Executing, Turn
    <3> QED BY <2>2, <2>4, <3>1 DEF Initialised, Prepared, ReactEnds, RunReturns, HookRaises, Goto
  <2>5. ASSUME NEW q \in Procs, CancelOne(q) PROVE pc'[p] \notin Executing
    BY <1>1, <2>0, <2>5 DEF CancelOne, Goto, Executing, Turn
  <2>6. ASSUME NEW q \in Procs, LoopStarts(q) PROVE pc'[p] \notin Executing
    <3>1. q # p
      BY <2>1, <2>6 DEF LoopStarts
    <3> QED BY <1>1, <2>2, <2>6, <3>1, LoopEnters DEF Enters, IInv
  <2>7. ASSUME NEW q \in Procs, Wakes(q) PROVE pc'[p] \notin Executing
    <3>1. CASE q # p
      BY <1>1, <2>2, <2>7, <3>1, LoopEnters DEF Enters, IInv
    <3>2. CASE q = p
      BY <1>1, <2>0, <2>7, <3>2 DEF Wakes, LoopTop, Complete, Goto, Executing, Turn
    <3> QED BY <3>1, <3>2
  <2>8. CASE Start
    BY <1>1, <2>0, <2>8 DEF Start, Executing, Turn
  <2>9. CASE \/ \E s \in Jobs : AddTask(s)
             \/ \E n \in Names : RemoveTask(n) \/ \E on \in BOOLEAN : EnableTask(n, on)
             \/ Stop \/ WaitOver \/ StopReturns \/ UNCHANGED vars
    BY <1>1, <2>9 DEF AddTask, RemoveTask, EnableTask, Stop, WaitOver, StopReturns, vars
  <2> QED BY <1>1, <2>3, <2>4, <2>5, <2>6, <2>7, <2>8, <2>9 DEF Next
<1>2. IInv /\ [Next]_vars =>
         [\A p \in Loops : job[p] \in removed \cup (made \ enabled) /\ pc[p] \notin Executing
                              => pc'[p] \notin Executing]_vars
  BY <1>1
<1> QED BY <1>2, InvariantHolds, PTL DEF Spec, WithdrawnStaysOut
-----------------------------------------------------------------------------
(* The GUI back end. *)

Ids == (Users \X Nat) \X Nat
Records == [id : Ids, agent : Users \cup Agents, session : Sessions, kind : {"user", "text", "tool"}]
Answers == {r \in Records : r.agent \in Agents /\ r.kind # "user"}
Stages == {"idle", "waiting", "streaming", "tool", "create", "run", "called", "running", "subtool"}

\* The locals of a user's turn.
TurnOK(u) ==
    /\ DOMAIN turn[u] = {"pc", "session", "n", "made", "msg", "sub", "tracker"}
    /\ turn[u].pc \in Stages /\ turn[u].n \in Nat /\ turn[u].made \in Nat /\ turn[u].msg \in Nat
    /\ turn[u].pc # "idle" => turn[u].session \in Sessions
    /\ turn[u].pc \in {"running", "subtool"} => turn[u].sub \in SubAgents
    /\ Answering(u) => turn[u].msg <= turn[u].made

Types ==
    /\ DOMAIN turn = Users /\ \A u \in Users : TurnOK(u)
    /\ open \in SUBSET Answers /\ IsFiniteSet(open)
    /\ files \in [Sessions -> Seq(Records)]
    /\ locks \in [Sessions -> Seq(Users)]
    /\ stacks \in [Agents -> Seq(Ids)]
    /\ active \in Sessions \cup {NoOne}

\* The session's lock is held by the one turn that answers in it, and asked
\* for by those that wait.
Queued ==
    \A u \in Users : turn[u].pc # "idle" =>
        \E i \in 1..Len(locks[turn[u].session]) :
            locks[turn[u].session][i] = u /\ (Answering(u) => i = 1)

\* An id that was made: its turn was begun, and the turn that makes ids now
\* has counted it.
Used(id) ==
    LET u == id[1][1] IN
    /\ id[1][2] <= turn[u].n
    /\ Answering(u) /\ id[1][2] = turn[u].n => id[2] <= turn[u].made

\* The ids of open and of filed messages were made, and each for one message.
Distinct(C) == \A r, q \in C : r.id = q.id => r = q
Once(fs) ==
    \A s, z \in Sessions : \A i \in 1..Len(fs[s]), j \in 1..Len(fs[z]) :
        fs[s][i].id = fs[z][j].id => s = z /\ i = j
Has(fs, id) == \E s \in Sessions : \E i \in 1..Len(fs[s]) : fs[s][i].id = id
Unique ==
    /\ Distinct(open) /\ Once(files)
    /\ \A r \in open : ~Has(files, r.id) /\ Used(r.id)
    /\ \A id \in Ids : Has(files, id) => Used(id)

\* The last text of a history, if it has any, is of the turn t.
Ends(f, t) == \A i \in 1..Len(f) : IsText(f[i]) =>
                 \E j \in i..Len(f) : IsText(f[j]) /\ f[j].id[1] = t

\* The turn that answers in a session goes on where the history ends.
OrderOf(fs) ==
    \A s \in Sessions :
        /\ InOrder(fs[s])
        /\ \A u \in Users : Answering(u) /\ turn[u].session = s => Ends(fs[s], <<u, turn[u].n>>)

-----------------------------------------------------------------------------
\* The records of a finite set, one after the other.
LEMMA Listed ==
    ASSUME NEW C, IsFiniteSet(C)
    PROVE  /\ SetToSeq(C) \in Seq(C) /\ Len(SetToSeq(C)) = Cardinality(C)
           /\ \A i, j \in 1..Len(SetToSeq(C)) : SetToSeq(C)[i] = SetToSeq(C)[j] => i = j
<1> DEFINE n == Cardinality(C)
           q == SetToSeq(C)
<1>1. n \in Nat
    BY FS_CardinalityType
<1>2. \E f \in [1..n -> C] : IsInjective(f)
  <2>1. ExistsBijection(1..n, C)
      BY FS_CardinalityType
  <2>2. PICK f : f \in Bijection(1..n, C)
      BY <2>1 DEF ExistsBijection
  <2>3. f \in [1..n -> C] /\ \A a, b \in 1..n : f[a] = f[b] => a = b
      BY <2>2 DEF Bijection, Injection, IsInjective
  <2>4. DOMAIN f = 1..n
      BY <2>3
  <2> QED BY <2>3, <2>4 DEF IsInjective
<1>3. q \in [1..n -> C] /\ IsInjective(q)
    BY <1>2 DEF SetToSeq
<1> HIDE DEF q, n
<1>4. q \in Seq(C) /\ Len(q) = n /\ DOMAIN q = 1..n
    BY <1>1, <1>3
<1>5. \A i, j \in 1..Len(q) : q[i] = q[j] => i = j
    BY <1>3, <1>4 DEF IsInjective
<1> QED BY <1>4, <1>5 DEF q, n

\* One sequence after another.
LEMMA Joined ==
    ASSUME NEW S, NEW f \in Seq(S), NEW q \in Seq(S)
    PROVE  /\ f \o q \in Seq(S) /\ Len(f \o q) = Len(f) + Len(q) /\ Len(f) \in Nat /\ Len(q) \in Nat
           /\ \A i \in 1..Len(f) : (f \o q)[i] = f[i]
           /\ \A i \in (Len(f) + 1)..Len(f \o q) :
                 i - Len(f) \in 1..Len(q) /\ (f \o q)[i] = q[i - Len(f)]
OBVIOUS

\* What is added to the file of a session.
Added(C, s) == SetToSeq({r \in C : r.session = s})

\* The file of a session, with some records more.
LEMMA FiledAt ==
    ASSUME NEW fs \in [Sessions -> Seq(Records)], NEW C \in SUBSET Records, IsFiniteSet(C),
           NEW s \in Sessions
    PROVE  /\ Filed(fs, C)[s] = fs[s] \o Added(C, s)
           /\ Added(C, s) \in Seq(Records) /\ fs[s] \in Seq(Records) /\ Filed(fs, C)[s] \in Seq(Records)
           /\ \A i \in 1..Len(Added(C, s)) : Added(C, s)[i] \in C /\ Added(C, s)[i].session = s
           /\ \A i, j \in 1..Len(Added(C, s)) : Added(C, s)[i] = Added(C, s)[j] => i = j
<1> DEFINE D == {r \in C : r.session = s}
           q == SetToSeq(D)
<1>1. D \subseteq C
    OBVIOUS
<1>2. IsFiniteSet(D)
    BY <1>1, FS_Subset
<1> HIDE DEF D
<1>3. q \in Seq(D) /\ \A i, j \in 1..Len(q) : q[i] = q[j] => i = j
    BY <1>2, Listed
<1> HIDE DEF q
<1>4. \A i \in 1..Len(q) : q[i] \in D
    BY <1>3
<1>5. \A i \in 1..Len(q) : q[i] \in C /\ q[i].session = s
    BY <1>4 DEF D
<1>6. q \in Seq(Records)
  <2>1. D \subseteq Records
      BY <1>1
  <2> QED BY <1>3, <2>1
<1>7. Filed(fs, C)[s] = fs[s] \o q
    BY DEF Filed, q, D
<1>8. fs[s] \o q \in Seq(Records)
    BY <1>6
<1> QED BY <1>3, <1>5, <1>6, <1>7, <1>8 DEF q, D, Added

\* A place of the longer file is an old one or a record's.
LEMMA FiledPlace ==
    ASSUME NEW fs \in [Sessions -> Seq(Records)], NEW C \in SUBSET Records, IsFiniteSet(C),
           NEW s \in Sessions, NEW i \in 1..Len(Filed(fs, C)[s])
    PROVE  \/ i \in 1..Len(fs[s]) /\ Filed(fs, C)[s][i] = fs[s][i]
           \/ /\ i - Len(fs[s]) \in 1..Len(Added(C, s)) /\ Len(fs[s]) \in Nat
              /\ Filed(fs, C)[s][i] = Added(C, s)[i - Len(fs[s])] /\ Filed(fs, C)[s][i] \in C
              /\ Filed(fs, C)[s][i].session = s
<1> DEFINE q == Added(C, s)
           f == fs[s]
           g == Filed(fs, C)[s]
<1>1. /\ g = f \o q /\ q \in Seq(Records) /\ f \in Seq(Records)
      /\ \A k \in 1..Len(q) : q[k] \in C /\ q[k].session = s
    BY FiledAt
<1> HIDE DEF q, f, g
<1>2. /\ Len(g) = Len(f) + Len(q) /\ Len(f) \in Nat /\ Len(q) \in Nat
      /\ \A k \in 1..Len(f) : g[k] = f[k]
      /\ \A k \in (Len(f) + 1)..Len(g) : k - Len(f) \in 1..Len(q) /\ g[k] = q[k - Len(f)]
    BY <1>1, Joined
<1>3. i \in 1..Len(g)
    BY DEF g
<1>4. CASE i \in 1..Len(f)
    BY <1>2, <1>4 DEF f, g
<1>5. CASE i \notin 1..Len(f)
  <2>1. i \in (Len(f) + 1)..Len(g)
      BY <1>2, <1>3, <1>5
  <2>2. i - Len(f) \in 1..Len(q) /\ g[i] = q[i - Len(f)]
      BY <1>2, <2>1
  <2>3. g[i] \in C /\ g[i].session = s
      BY <1>1, <2>2
  <2> QED BY <1>2, <2>2, <2>3 DEF f, g, q
<1> QED BY <1>4, <1>5

\* Records with new ids are filed once.
LEMMA FiledKeepsOnce ==
    ASSUME NEW fs \in [Sessions -> Seq(Records)], Once(fs), NEW C \in SUBSET Records, IsFiniteSet(C),
           Distinct(C), \A r \in C : ~Has(fs, r.id)
    PROVE  /\ Filed(fs, C) \in [Sessions -> Seq(Records)] /\ Once(Filed(fs, C))
           /\ \A id : Has(Filed(fs, C), id) => Has(fs, id) \/ \E r \in C : r.id = id
<1> DEFINE g == Filed(fs, C)
           Old(s, i) == i \in 1..Len(fs[s]) /\ g[s][i] = fs[s][i]
           Now(s, i) == /\ i - Len(fs[s]) \in 1..Len(Added(C, s)) /\ Len(fs[s]) \in Nat
                        /\ g[s][i] = Added(C, s)[i - Len(fs[s])] /\ g[s][i] \in C /\ g[s][i].session = s
<1>1. \A s \in Sessions : /\ g[s] \in Seq(Records)
                          /\ \A i, j \in 1..Len(Added(C, s)) : Added(C, s)[i] = Added(C, s)[j] => i = j
    BY FiledAt
<1>2. \A s \in Sessions : \A i \in 1..Len(g[s]) : Old(s, i) \/ Now(s, i)
    BY FiledPlace
<1>3. g \in [Sessions -> Seq(Records)]
  <2>1. g = [s \in Sessions |-> g[s]]
      BY DEF Filed
  <2> QED BY <1>1, <2>1
<1> HIDE DEF g
<1>4. ASSUME NEW s \in Sessions, NEW z \in Sessions, NEW i \in 1..Len(g[s]), NEW j \in 1..Len(g[z]),
             g[s][i].id = g[z][j].id
      PROVE  s = z /\ i = j
  <2>1. CASE Old(s, i) /\ Old(z, j)
      BY <1>4, <2>1 DEF Once
  <2>2. CASE Old(s, i) /\ Now(z, j)
      BY <1>4, <2>2 DEF Has
  <2>3. CASE Now(s, i) /\ Old(z, j)
    <3>1. fs[z][j].id = g[s][i].id /\ g[s][i] \in C
        BY <1>4, <2>3
    <3> QED BY <2>3, <3>1 DEF Has
  <2>4. CASE Now(s, i) /\ Now(z, j)
    <3>1. g[s][i] = g[z][j]
        BY <1>4, <2>4 DEF Distinct
    <3>2. s = z
        BY <2>4, <3>1
    <3>3. i - Len(fs[s]) = j - Len(fs[s])
        BY <1>1, <2>4, <3>1, <3>2
    <3>4. i \in Int /\ j \in Int /\ Len(fs[s]) \in Nat
        BY <2>4
    <3>5. i = j
        BY <3>3, <3>4
    <3> QED BY <3>2, <3>5
  <2> QED BY <1>2, <2>1, <2>2, <2>3, <2>4
<1>5. Once(g)
    BY <1>4 DEF Once
<1>6. ASSUME NEW id, Has(g, id) PROVE Has(fs, id) \/ \E r \in C : r.id = id
  <2>1. PICK s \in Sessions : \E i \in 1..Len(g[s]) : g[s][i].id = id
      BY <1>6 DEF Has
  <2>2. PICK i \in 1..Len(g[s]) : g[s][i].id = id
      BY <2>1
  <2> QED BY <1>2, <2>2 DEF Has
<1> QED BY <1>3, <1>5, <1>6 DEF g

\* The texts of the turn a history ends with go on with it.
LEMMA TextsFollow ==
    ASSUME NEW f \in Seq(Records), NEW q \in Seq(Records), InOrder(f), NEW t,
           \A i \in 1..Len(q) : IsText(q[i]) => q[i].kind = "text" /\ q[i].id[1] = t,
           (\E i \in 1..Len(q) : IsText(q[i])) => Ends(f, t)
    PROVE  InOrder(f \o q)
<1> DEFINE g == f \o q
           n == Len(f)
           Old(i) == i \in 1..n /\ g[i] = f[i]
           New(i) == i > n /\ (IsText(g[i]) => g[i].kind = "text" /\ g[i].id[1] = t /\ Ends(f, t))
<1>1. /\ Len(g) = n + Len(q) /\ n \in Nat /\ Len(q) \in Nat
      /\ \A i \in 1..n : g[i] = f[i]
      /\ \A i \in (n + 1)..Len(g) : i - n \in 1..Len(q) /\ g[i] = q[i - n]
    BY Joined
<1> HIDE DEF g, n
<1>2. ASSUME NEW i \in 1..Len(g) PROVE Old(i) \/ New(i)
  <2>1. CASE i \in 1..n
      BY <1>1, <2>1
  <2>2. CASE i \notin 1..n
    <3>1. i \in (n + 1)..Len(g) /\ i > n
        BY <1>1, <2>2
    <3>2. i - n \in 1..Len(q) /\ g[i] = q[i - n]
        BY <1>1, <3>1
    <3> QED BY <3>1, <3>2
  <2> QED BY <2>1, <2>2
<1>3. SUFFICES ASSUME NEW i \in 1..Len(g), NEW j \in 1..Len(g), i < j, IsText(g[i]), IsText(g[j]),
                      SameTurn(g[i], g[j])
               PROVE  g[j].kind = "text" /\ \A k \in i..j : IsText(g[k]) => SameTurn(g[i], g[k])
    BY DEF InOrder, g
<1>4. CASE Old(j)
  <2>1. \A k \in i..j : Old(k)
      BY <1>1, <1>3, <1>4
  <2>2. i \in i..j /\ j \in i..j
      BY <1>1, <1>3
  <2>3. i \in 1..Len(f) /\ j \in 1..Len(f) /\ IsText(f[i]) /\ IsText(f[j]) /\ SameTurn(f[i], f[j])
      BY <1>3, <2>1, <2>2 DEF n
  <2>4. f[j].kind = "text" /\ \A k \in i..j : IsText(f[k]) => SameTurn(f[i], f[k])
      BY <1>3, <2>3 DEF InOrder
  <2> QED BY <2>1, <2>2, <2>4
<1>5. CASE New(j)
  <2>1. g[j].kind = "text" /\ g[j].id[1] = t /\ Ends(f, t) /\ g[i].id[1] = t
      BY <1>3, <1>5 DEF SameTurn
  <2>2. ASSUME NEW k \in i..j, IsText(g[k]) PROVE g[k].id[1] = t
    <3>1. k \in 1..Len(g)
        BY <1>1
    <3>2. CASE New(k)
        BY <2>2, <3>2
    <3>3. CASE Old(k)
      <4>1. Old(i)
          BY <1>1, <3>3
      <4>2. PICK m \in k..Len(f) : IsText(f[m]) /\ f[m].id[1] = t
          BY <2>1, <2>2, <3>3 DEF Ends, n
      <4>3. i \in 1..Len(f) /\ m \in 1..Len(f) /\ k \in i..m /\ IsText(f[i]) /\ IsText(f[k])
          BY <1>1, <1>3, <2>2, <3>3, <4>1 DEF n
      <4>4. CASE i < m
        <5>1. SameTurn(f[i], f[m])
            BY <2>1, <4>1, <4>2 DEF SameTurn
        <5>2. SameTurn(f[i], f[k])
            BY <4>2, <4>3, <4>4, <5>1 DEF InOrder
        <5> QED BY <2>1, <3>3, <4>1, <5>2 DEF SameTurn
      <4>5. CASE ~(i < m)
        <5>1. k = i
            BY <4>3, <4>5
        <5> QED BY <2>1, <5>1
      <4> QED BY <4>4, <4>5
    <3> QED BY <1>2, <3>1, <3>2, <3>3
  <2> QED BY <2>1, <2>2 DEF SameTurn
<1> QED BY <1>2, <1>4, <1>5

\* ... and the history still ends with that turn.
LEMMA TextsEnd ==
    ASSUME NEW f \in Seq(Records), NEW q \in Seq(Records), NEW t, Ends(f, t),
           \A i \in 1..Len(q) : IsText(q[i]) => q[i].id[1] = t
    PROVE  Ends(f \o q, t)
<1> DEFINE g == f \o q
           n == Len(f)
<1>1. /\ Len(g) = n + Len(q) /\ n \in Nat /\ Len(q) \in Nat
      /\ \A i \in 1..n : g[i] = f[i]
      /\ \A i \in (n + 1)..Len(g) : i - n \in 1..Len(q) /\ g[i] = q[i - n]
    BY Joined
<1> HIDE DEF g, n
<1>2. SUFFICES ASSUME NEW i \in 1..Len(g), IsText(g[i])
               PROVE  \E j \in i..Len(g) : IsText(g[j]) /\ g[j].id[1] = t
    BY DEF Ends, g
<1>3. CASE i \in 1..n
  <2>1. PICK j \in i..n : IsText(f[j]) /\ f[j].id[1] = t
      BY <1>1, <1>2, <1>3 DEF Ends, n
  <2>2. j \in 1..n /\ j \in i..Len(g)
      BY <1>1, <1>3, <2>1
  <2> QED BY <1>1, <2>1, <2>2
<1>4. CASE i \notin 1..n
  <2>1. i \in (n + 1)..Len(g) /\ i \in i..Len(g)
      BY <1>1, <1>4
  <2>2. i - n \in 1..Len(q) /\ g[i] = q[i - n]
      BY <1>1, <2>1
  <2> QED BY <1>2, <2>1, <2>2
<1> QED BY <1>3, <1>4

\* A text that is filed is an answer of the turn that answers in its session.
Speaks(r) == IsText(r) => /\ r.kind = "text"
                          /\ \E u \in Users : /\ Answering(u) /\ turn[u].session = r.session
                                              /\ r.id[1] = <<u, turn[u].n>>

\* Two turns do not answer in one session.
LEMMA OneAnswers ==
    ASSUME Queued, NEW u \in Users, NEW v \in Users, Answering(u), Answering(v),
           turn[u].session = turn[v].session
    PROVE  u = v
BY DEF Queued, Answering

\* So the histories stay in order.
LEMMA FiledKeepsOrder ==
    ASSUME Types, Queued, NEW fs \in [Sessions -> Seq(Records)], OrderOf(fs),
           NEW C \in SUBSET Records, IsFiniteSet(C), \A r \in C : Speaks(r)
    PROVE  OrderOf(Filed(fs, C))
<1> SUFFICES ASSUME NEW s \in Sessions
             PROVE  /\ InOrder(Filed(fs, C)[s])
                    /\ \A u \in Users : Answering(u) /\ turn[u].session = s
                          => Ends(Filed(fs, C)[s], <<u, turn[u].n>>)
    BY DEF OrderOf
<1> DEFINE q == Added(C, s)
           f == fs[s]
<1>1. /\ Filed(fs, C)[s] = f \o q /\ q \in Seq(Records) /\ f \in Seq(Records)
      /\ \A i \in 1..Len(q) : q[i] \in C /\ q[i].session = s
    BY FiledAt
<1>2. /\ InOrder(f) /\ \A u \in Users : Answering(u) /\ turn[u].session = s => Ends(f, <<u, turn[u].n>>)
    BY DEF OrderOf
<1> HIDE DEF q, f
<1>3. \A i \in 1..Len(q) : IsText(q[i]) =>
         /\ q[i].kind = "text"
         /\ \E u \in Users : Answering(u) /\ turn[u].session = s /\ q[i].id[1] = <<u, turn[u].n>>
    BY <1>1 DEF Speaks
<1>4. ASSUME NEW u \in Users, Answering(u), turn[u].session = s
      PROVE  \A i \in 1..Len(q) : IsText(q[i]) => q[i].id[1] = <<u, turn[u].n>>
    BY <1>3, <1>4, OneAnswers
<1>5. InOrder(f \o q)
  <2>1. CASE \E i \in 1..Len(q) : IsText(q[i])
    <3>1. PICK u \in Users : Answering(u) /\ turn[u].session = s
        BY <1>3, <2>1
    <3>2. \A i \in 1..Len(q) : IsText(q[i]) => q[i].kind = "text" /\ q[i].id[1] = <<u, turn[u].n>>
        BY <1>3, <1>4, <3>1
    <3> QED BY <1>1, <1>2, <3>1, <3>2, TextsFollow
  <2>2. CASE ~\E i \in 1..Len(q) : IsText(q[i])
      BY <1>1, <1>2, <2>2, TextsFollow
  <2> QED BY <2>1, <2>2
<1>6. ASSUME NEW u \in Users, Answering(u), turn[u].session = s PROVE Ends(f \o q, <<u, turn[u].n>>)
    BY <1>1, <1>2, <1>4, <1>6, TextsEnd
<1> QED BY <1>1, <1>5, <1>6

\* A step of a turn that answers, or its end.
Advances(u) ==
    /\ Answering(u) /\ DOMAIN turn' = Users /\ TurnOK(u)'
    /\ \A v \in Users : v # u => turn'[v] = turn[v]
    /\ turn'[u].n = turn[u].n
    /\ turn'[u].pc # "waiting"
    /\ Answering(u)' => turn'[u].made >= turn[u].made /\ turn'[u].session = turn[u].session

\* Nothing is filed of no record.
LEMMA FiledNone ==
    ASSUME NEW fs \in [Sessions -> Seq(Records)] PROVE Filed(fs, {}) = fs
<1>1. \A s \in Sessions : {r \in {} : r.session = s} = {}
    OBVIOUS
<1>2. SetToSeq({}) = <<>>
  <2>1. IsFiniteSet({}) /\ Cardinality({}) = 0
      BY FS_EmptySet
  <2>2. SetToSeq({}) \in Seq({}) /\ Len(SetToSeq({})) = 0
      BY <2>1, Listed
  <2> QED BY <2>2
<1>3. \A s \in Sessions : fs[s] \in Seq(Records) /\ fs[s] \o <<>> = fs[s]
    OBVIOUS
<1>4. Filed(fs, {}) = [s \in Sessions |-> fs[s]]
    BY <1>1, <1>2, <1>3 DEF Filed
<1> QED BY <1>4

\* The ids made so far stay so.
LEMMA UsedKept ==
    ASSUME Types, NEW u \in Users, Advances(u), NEW id \in Ids, Used(id) PROVE Used(id)'
<1>1. id[1][1] \in Users /\ id[1][2] \in Nat /\ id[2] \in Nat
    BY DEF Ids
<1>2. CASE id[1][1] # u
    BY <1>1, <1>2 DEF Used, Advances, Answering
<1>3. CASE id[1][1] = u
  <2>1. turn[u].made \in Nat /\ turn'[u].n = turn[u].n
      BY DEF Types, TurnOK, Advances
  <2>2. Answering(u)' => Answering(u) /\ turn'[u].made >= turn[u].made /\ turn'[u].made \in Nat
      BY DEF Advances, TurnOK
  <2> QED BY <1>1, <1>3, <2>1, <2>2 DEF Used
<1> QED BY <1>2, <1>3

\* The next id of a turn is new.
LEMMA NewIsUnused ==
    ASSUME Types, Unique, NEW u \in Users, Answering(u)
    PROVE  /\ NewId(u, 1) \in Ids /\ ~Used(NewId(u, 1)) /\ NewId(u, 1)[1] = <<u, turn[u].n>>
           /\ ~Has(files, NewId(u, 1)) /\ ~IsOpen(NewId(u, 1))
<1>1. turn[u].n \in Nat /\ turn[u].made \in Nat
    BY DEF Types, TurnOK
<1>2. NewId(u, 1) = <<<<u, turn[u].n>>, turn[u].made + 1>>
    BY DEF NewId
<1>3. NewId(u, 1) \in Ids /\ ~Used(NewId(u, 1)) /\ NewId(u, 1)[1] = <<u, turn[u].n>>
    BY <1>1, <1>2 DEF Ids, Used
<1> QED BY <1>3 DEF Unique, IsOpen

\* Some messages are opened, some filed at once and some closed.
LEMMA MessagesKeepUnique ==
    ASSUME Types, Unique, NEW C \in SUBSET open, NEW N \in SUBSET Answers, NEW E \in SUBSET Records,
           IsFiniteSet(N), IsFiniteSet(E), Distinct(N), Distinct(E),
           \A r \in N, q \in E : r.id # q.id,
           \A r \in N \cup E : ~Used(r.id) /\ Used(r.id)',
           \A id \in Ids : Used(id) => Used(id)',
           open' = (open \ C) \cup N, files' = Filed(Filed(files, E), C)
    PROVE  /\ open' \in SUBSET Answers /\ IsFiniteSet(open') /\ files' \in [Sessions -> Seq(Records)]
           /\ Unique'
<1> DEFINE fs == Filed(files, E)
<1>1. Answers \subseteq Records /\ \A r \in Records : r.id \in Ids
    BY DEF Answers, Records
<1>2. open \in SUBSET Answers /\ IsFiniteSet(open) /\ files \in [Sessions -> Seq(Records)]
    BY DEF Types
<1>3. C \in SUBSET Records /\ IsFiniteSet(C)
    BY <1>1, <1>2, FS_Subset
<1>4. /\ Distinct(open) /\ Once(files) /\ Distinct(C)
      /\ \A r \in open : ~Has(files, r.id) /\ Used(r.id)
      /\ \A id \in Ids : Has(files, id) => Used(id)
    BY DEF Unique, Distinct
<1>5. \A r \in N \cup E : r.id \in Ids /\ ~Has(files, r.id)
    BY <1>1, <1>4
<1>6. /\ fs \in [Sessions -> Seq(Records)] /\ Once(fs)
      /\ \A id : Has(fs, id) => Has(files, id) \/ \E r \in E : r.id = id
    BY <1>2, <1>4, <1>5, FiledKeepsOnce
<1> HIDE DEF fs
<1>7. \A r \in open : ~Has(fs, r.id)
    BY <1>4, <1>6
<1>8. \A r \in C : ~Has(fs, r.id)
    BY <1>7
<1>9. /\ Filed(fs, C) \in [Sessions -> Seq(Records)] /\ Once(Filed(fs, C))
      /\ \A id : Has(Filed(fs, C), id) => Has(fs, id) \/ \E r \in C : r.id = id
    BY <1>3, <1>4, <1>6, <1>8, FiledKeepsOnce
<1>10. files' = Filed(fs, C)
    BY DEF fs
<1>11. open' \in SUBSET Answers /\ IsFiniteSet(open')
  <2>1. IsFiniteSet(open \ C)
      BY <1>2, FS_Difference
  <2>2. IsFiniteSet((open \ C) \cup N)
      BY <2>1, FS_Union
  <2> QED BY <1>2, <2>2
<1>12. Distinct(open')
  <2>1. \A r \in open, q \in N : r.id # q.id
      BY <1>4
  <2> QED BY <1>4, <2>1 DEF Distinct
<1>13. \A r \in open' : ~Has(files', r.id)
  <2>1. ASSUME NEW r \in open' PROVE ~Has(Filed(fs, C), r.id)
    <3>1. CASE r \in N
        BY <1>4, <1>5, <1>6, <1>9, <3>1
    <3>2. CASE r \in open \ C
        BY <1>4, <1>7, <1>9, <3>2 DEF Distinct
    <3> QED BY <3>1, <3>2
  <2> QED BY <1>10, <2>1
<1>14. \A r \in open' : Used(r.id)'
    BY <1>1, <1>2, <1>4
<1>15. \A id \in Ids : Has(files', id) => Used(id)'
  <2>1. ASSUME NEW id \in Ids, Has(Filed(fs, C), id) PROVE Used(id)'
    <3>1. Has(files, id) \/ \E r \in C \cup E : r.id = id
        BY <1>6, <1>9, <2>1
    <3> QED BY <1>4, <3>1
  <2> QED BY <1>10, <2>1
<1>16. (\A r \in open : ~Has(files, r.id) /\ Used(r.id))'
    BY <1>13, <1>14
<1>17. (\A id \in Ids : Has(files, id) => Used(id))'
    BY <1>15 DEF Has
<1>18. Once(files)' /\ Distinct(open)'
    BY <1>9, <1>10, <1>12 DEF Once, Distinct
<1> QED BY <1>9, <1>10, <1>11, <1>16, <1>17, <1>18 DEF Unique

\* What is open speaks for the turn it belongs to.
LEMMA OpenSpeaks == ASSUME Types, StreamsAttended PROVE \A r \in open : Speaks(r)
<1> SUFFICES ASSUME NEW r \in open, IsText(r)
             PROVE  /\ r.kind = "text"
                    /\ \E u \in Users : /\ Answering(u) /\ turn[u].session = r.session
                                        /\ r.id[1] = <<u, turn[u].n>>
    BY DEF Speaks
<1>1. r.kind # "user"
    BY DEF Types, Answers
<1>2. r.agent = Master /\ r.kind = "text"
    BY <1>1 DEF IsText
<1>3. PICK u \in Users : Answering(u) /\ r.id = CurrentMsg(u) /\ r.session = turn[u].session
    BY <1>2 DEF StreamsAttended
<1>4. r.id[1] = <<u, turn[u].n>>
    BY <1>3 DEF CurrentMsg
<1> QED BY <1>2, <1>3, <1>4

\* When no turn begins, histories in order stay so.
LEMMA OrderMoves ==
    ASSUME NEW fs, OrderOf(fs), files' = fs,
           \A v \in Users : Answering(v)' => /\ Answering(v) /\ turn'[v].session = turn[v].session
                                             /\ turn'[v].n = turn[v].n
    PROVE  OrderOf(files)'
BY DEF OrderOf

\* A turn's step begins no turn.
LEMMA AdvanceMoves ==
    ASSUME NEW u \in Users, Advances(u)
    PROVE  \A v \in Users : Answering(v)' => /\ Answering(v) /\ turn'[v].session = turn[v].session
                                             /\ turn'[v].n = turn[v].n
BY DEF Advances, Answering

\* A turn's step on the messages: what it opens and files is new.
LEMMA MessagesStep ==
    ASSUME Types, Queued, Unique, OrderOf(files), StreamsAttended, NEW u \in Users, Advances(u),
           NEW C \in SUBSET open, NEW N \in SUBSET Answers, NEW E \in SUBSET Records,
           IsFiniteSet(N), IsFiniteSet(E), N = {} \/ E = {},
           \A r \in N \cup E : r.id = NewId(u, 1) /\ Used(r.id)',
           Distinct(N), Distinct(E), \A r \in E : Speaks(r),
           open' = (open \ C) \cup N, files' = Filed(Filed(files, E), C)
    PROVE  /\ open' \in SUBSET Answers /\ IsFiniteSet(open') /\ files' \in [Sessions -> Seq(Records)]
           /\ Unique' /\ OrderOf(files)'
<1>1. Answering(u) /\ ~Used(NewId(u, 1))
    BY NewIsUnused DEF Advances
<1>2. \A id \in Ids : Used(id) => Used(id)'
    BY UsedKept
<1>3. /\ open' \in SUBSET Answers /\ IsFiniteSet(open') /\ files' \in [Sessions -> Seq(Records)]
      /\ Unique'
  <2>1. \A r \in N \cup E : ~Used(r.id) /\ Used(r.id)'
      BY <1>1
  <2>2. \A r \in N, q \in E : r.id # q.id
      OBVIOUS
  <2> QED BY <1>2, <2>1, <2>2, MessagesKeepUnique
<1>4. OrderOf(files')
  <2>1. files \in [Sessions -> Seq(Records)] /\ open \in SUBSET Answers /\ IsFiniteSet(open)
      BY DEF Types
  <2>2. C \in SUBSET Records /\ IsFiniteSet(C) /\ \A r \in C : Speaks(r)
      BY <2>1, OpenSpeaks, FS_Subset DEF Answers
  <2>3. OrderOf(Filed(files, E))
      BY <2>1, FiledKeepsOrder
  <2>4. Filed(files, E) \in [Sessions -> Seq(Records)]
      BY <2>1, FiledAt DEF Filed
  <2> QED BY <2>2, <2>3, <2>4, FiledKeepsOrder
<1>5. OrderOf(files)'
    BY <1>4, AdvanceMoves, OrderMoves
<1> QED BY <1>3, <1>5

\* The message that a turn's chunks go to is a text of the master.
Voices == \A u \in Users : Answering(u) =>
             \A r \in open : r.id = CurrentMsg(u) => r.agent = Master /\ r.kind = "text"

\* What concerns messages, streams and turns.
MsgInv ==
    /\ Types /\ Queued /\ Unique /\ OrderOf(files) /\ Voices /\ StreamsAttended /\ StacksMatch

\* The texts of an agent that are open.
TextsOf(agent) == {q \in open : q.agent = agent /\ q.kind = "text"}

\* Closing ids closes the messages that have them: of a stream, its texts.
LEMMA Closed ==
    ASSUME Unique
    PROVE  /\ \A ids : Closing(ids) \in SUBSET open /\ StillOpen(ids) = open \ Closing(ids)
           /\ \A agent : Closing(StreamsOf(agent)) = TextsOf(agent)
<1>1. \A ids : Closing(ids) \in SUBSET open /\ StillOpen(ids) = open \ Closing(ids)
    BY DEF Closing, StillOpen
<1>2. \A agent : Closing(StreamsOf(agent)) = TextsOf(agent)
    BY DEF Unique, Distinct, Closing, StreamsOf, TextsOf
<1> QED BY <1>1, <1>2

\* The streams that a step closes and opens: the step's turn keeps what it
\* attends.
Attends(u, C, N) ==
    /\ C \in SUBSET open /\ open' = (open \ C) \cup N
    /\ \A r \in open \ C : r.kind = "text" /\ r.agent = Master /\ r.id = CurrentMsg(u)
          => Answering(u)' /\ CurrentMsg(u)' = CurrentMsg(u)
    /\ \A r \in open \ C : /\ r.kind = "text" /\ r.agent # Master
                           /\ turn[u].pc \in {"running", "subtool"} /\ turn[u].sub = r.agent
          => turn'[u].pc \in {"running", "subtool"} /\ turn'[u].sub = r.agent
    /\ \A r \in N : r.kind = "text" =>
          /\ IF r.agent = Master
             THEN Answering(u)' /\ r.id = CurrentMsg(u)' /\ r.session = turn'[u].session
             ELSE turn'[u].pc \in {"running", "subtool"} /\ turn'[u].sub = r.agent
          /\ \A q \in open \ C : ~(q.kind = "text" /\ q.agent = r.agent /\ q.session = r.session)
    /\ \A r, q \in N : r = q

\* So every stream stays attended.
LEMMA AttendedStep ==
    ASSUME StreamsAttended, NEW u \in Users, Advances(u), NEW C, NEW N, Attends(u, C, N)
    PROVE  StreamsAttended'
<1>0. /\ C \in SUBSET open /\ open' = (open \ C) \cup N
      /\ \A r \in open \ C : r.kind = "text" /\ r.agent = Master /\ r.id = CurrentMsg(u)
            => Answering(u)' /\ CurrentMsg(u)' = CurrentMsg(u)
      /\ \A r \in open \ C : /\ r.kind = "text" /\ r.agent # Master
                             /\ turn[u].pc \in {"running", "subtool"} /\ turn[u].sub = r.agent
            => turn'[u].pc \in {"running", "subtool"} /\ turn'[u].sub = r.agent
      /\ \A r \in N : r.kind = "text" =>
            /\ IF r.agent = Master
               THEN Answering(u)' /\ r.id = CurrentMsg(u)' /\ r.session = turn'[u].session
               ELSE turn'[u].pc \in {"running", "subtool"} /\ turn'[u].sub = r.agent
            /\ \A q \in open \ C : ~(q.kind = "text" /\ q.agent = r.agent /\ q.session = r.session)
      /\ \A r, q \in N : r = q
    BY DEF Attends
<1>1. \A v \in Users : v # u => /\ turn'[v] = turn[v] /\ (Answering(v) => Answering(v)')
                                /\ CurrentMsg(v)' = CurrentMsg(v)
    BY DEF Advances, Answering, CurrentMsg
<1>2. Answering(u)' => turn'[u].session = turn[u].session
    BY DEF Advances
<1>3. ASSUME NEW r \in open', r.kind = "text", r.agent = Master
      PROVE  \E v \in Users : Answering(v)' /\ r.id = CurrentMsg(v)' /\ r.session = turn'[v].session
  <2>1. CASE r \in N
      BY <1>0, <1>3, <2>1
  <2>2. CASE r \in open \ C
    <3>1. PICK v \in Users : Answering(v) /\ r.id = CurrentMsg(v) /\ r.session = turn[v].session
        BY <1>0, <1>3, <2>2 DEF StreamsAttended
    <3>2. CASE v = u
        BY <1>0, <1>2, <1>3, <2>2, <3>1, <3>2
    <3>3. CASE v # u
        BY <1>1, <3>1, <3>3
    <3> QED BY <3>2, <3>3
  <2> QED BY <1>0, <2>1, <2>2
<1>4. ASSUME NEW r \in open', r.kind = "text", r.agent # Master
      PROVE  \E v \in Users : turn'[v].pc \in {"running", "subtool"} /\ turn'[v].sub = r.agent
  <2>1. CASE r \in N
      BY <1>0, <1>4, <2>1
  <2>2. CASE r \in open \ C
    <3>1. PICK v \in Users : turn[v].pc \in {"running", "subtool"} /\ turn[v].sub = r.agent
        BY <1>0, <1>4, <2>2 DEF StreamsAttended
    <3>2. CASE v = u
        BY <1>0, <1>4, <2>2, <3>1, <3>2
    <3>3. CASE v # u
        BY <1>1, <3>1, <3>3
    <3> QED BY <3>2, <3>3
  <2> QED BY <1>0, <2>1, <2>2
<1>5. \A r, q \in open' :
         r.kind = "text" /\ q.kind = "text" /\ r.agent = q.agent /\ r.session = q.session => r = q
    BY <1>0 DEF StreamsAttended
<1> QED BY <1>3, <1>4, <1>5 DEF StreamsAttended

\* Stacks that are left alone while only texts come and go.
LEMMA StacksStep ==
    ASSUME StacksMatch, stacks' = stacks, NEW C \in SUBSET open, NEW N, open' = (open \ C) \cup N,
           \A r \in C \cup N : r.kind = "text"
    PROVE  StacksMatch'
<1>1. \A a : {q \in open' : q.agent = a /\ q.kind = "tool"} = {q \in open : q.agent = a /\ q.kind = "tool"}
    OBVIOUS
<1> QED BY <1>1 DEF StacksMatch

\* A turn that goes on keeps the lock.
LEMMA QueuedStep ==
    ASSUME Types, Queued, NEW u \in Users, Advances(u), locks' = locks, Answering(u)' PROVE Queued'
BY DEF Queued, Advances, Answering

\* A turn that ends gives it to the next.
LEMMA QueuedLeave ==
    ASSUME Types, Queued, NEW u \in Users, Advances(u), turn'[u].pc = "idle",
           locks' = [locks EXCEPT ![turn[u].session] = Tail(@)]
    PROVE  Queued' /\ locks' \in [Sessions -> Seq(Users)]
<1> DEFINE s == turn[u].session
           q == locks[s]
<1>1. s \in Sessions /\ turn[u].pc # "idle"
    BY DEF Types, TurnOK, Advances, Answering
<1>2. q \in Seq(Users) /\ Len(q) >= 1 /\ q[1] = u
    BY <1>1 DEF Types, Queued, Advances
<1>3. /\ Tail(q) \in Seq(Users) /\ Len(Tail(q)) = Len(q) - 1 /\ Len(q) \in Nat
      /\ \A i \in 1..Len(q) : i # 1 => i - 1 \in 1..Len(Tail(q)) /\ Tail(q)[i - 1] = q[i]
    BY <1>2
<1>4. locks'[s] = Tail(q) /\ \A z \in Sessions : z # s => locks'[z] = locks[z]
    BY <1>1 DEF Types
<1>5. locks' \in [Sessions -> Seq(Users)]
    BY <1>1, <1>3 DEF Types
<1> HIDE DEF q
<1>6. ASSUME NEW v \in Users, turn'[v].pc # "idle"
      PROVE  \E i \in 1..Len(locks'[turn'[v].session]) :
                locks'[turn'[v].session][i] = v /\ (Answering(v)' => i = 1)
  <2>1. v # u /\ turn'[v] = turn[v] /\ turn[v].pc # "idle" /\ (Answering(v)' => Answering(v))
      BY <1>6 DEF Advances, Answering
  <2>2. PICK i \in 1..Len(locks[turn[v].session]) :
           locks[turn[v].session][i] = v /\ (Answering(v) => i = 1)
      BY <2>1 DEF Queued
  <2>3. turn[v].session \in Sessions
      BY <2>1 DEF Types, TurnOK
  <2>4. CASE turn[v].session = s
    <3>1. i \in 1..Len(q) /\ i # 1 /\ q[i] = v
        BY <1>2, <2>1, <2>2, <2>4 DEF q
    <3>2. i - 1 \in 1..Len(Tail(q)) /\ Tail(q)[i - 1] = v /\ ~Answering(v)'
        BY <1>3, <2>1, <2>2, <3>1
    <3> QED BY <1>4, <2>1, <2>4, <3>2
  <2>5. CASE turn[v].session # s
      BY <1>4, <2>1, <2>2, <2>3, <2>5
  <2> QED BY <2>4, <2>5
<1> QED BY <1>5, <1>6 DEF Queued

\* The parts of Types, when one turn steps.
LEMMA TypesStep ==
    ASSUME Types, NEW u \in Users, Advances(u), open' \in SUBSET Answers, IsFiniteSet(open'),
           files' \in [Sessions -> Seq(Records)], locks' \in [Sessions -> Seq(Users)],
           stacks' \in [Agents -> Seq(Ids)], active' \in Sessions \cup {NoOne}
    PROVE  Types'
<1>1. \A v \in Users : TurnOK(v)'
    BY DEF Types, TurnOK, Advances, Answering
<1> QED BY <1>1 DEF Types, Advances

\* A step of a turn: the messages it closes, opens and files at once.
Does(u, C, N, E) ==
    /\ Advances(u)
    /\ C \in SUBSET open /\ N \in SUBSET Answers /\ E \in SUBSET Records
    /\ IsFiniteSet(N) /\ IsFiniteSet(E) /\ (N = {} \/ E = {}) /\ Distinct(N) /\ Distinct(E)
    /\ \A r \in N \cup E : r.id = NewId(u, 1) /\ Used(r.id)'
    /\ \A r \in E : Speaks(r)
    /\ open' = (open \ C) \cup N /\ files' = Filed(Filed(files, E), C)
    /\ stacks' \in [Agents -> Seq(Ids)] /\ active' \in Sessions \cup {NoOne}
    /\ \/ Answering(u)' /\ locks' = locks
       \/ turn'[u].pc = "idle" /\ locks' = [locks EXCEPT ![turn[u].session] = Tail(@)]
    /\ Answering(u)' => \/ CurrentMsg(u)' = CurrentMsg(u)
                        \/ /\ CurrentMsg(u)' = NewId(u, 1)
                           /\ \A r \in N : r.agent = Master /\ r.kind = "text"

\* So the step keeps what concerns messages.
LEMMA TurnStep ==
    ASSUME MsgInv, NEW u \in Users, NEW C, NEW N, NEW E, Does(u, C, N, E), StreamsAttended', StacksMatch'
    PROVE  MsgInv'
<1>0. /\ Advances(u)
      /\ C \in SUBSET open /\ N \in SUBSET Answers /\ E \in SUBSET Records
      /\ IsFiniteSet(N) /\ IsFiniteSet(E) /\ (N = {} \/ E = {}) /\ Distinct(N) /\ Distinct(E)
      /\ \A r \in N \cup E : r.id = NewId(u, 1) /\ Used(r.id)'
      /\ \A r \in E : Speaks(r)
      /\ open' = (open \ C) \cup N /\ files' = Filed(Filed(files, E), C)
      /\ stacks' \in [Agents -> Seq(Ids)] /\ active' \in Sessions \cup {NoOne}
      /\ \/ Answering(u)' /\ locks' = locks
         \/ turn'[u].pc = "idle" /\ locks' = [locks EXCEPT ![turn[u].session] = Tail(@)]
      /\ Answering(u)' => \/ CurrentMsg(u)' = CurrentMsg(u)
                          \/ /\ CurrentMsg(u)' = NewId(u, 1)
                             /\ \A r \in N : r.agent = Master /\ r.kind = "text"
    BY DEF Does
<1>1. /\ open' \in SUBSET Answers /\ IsFiniteSet(open') /\ files' \in [Sessions -> Seq(Records)]
      /\ Unique' /\ OrderOf(files)'
    BY <1>0, MessagesStep DEF MsgInv
<1>2. Queued' /\ locks' \in [Sessions -> Seq(Users)]
  <2>1. CASE Answering(u)' /\ locks' = locks
      BY <1>0, <2>1, QueuedStep DEF MsgInv, Types
  <2>2. CASE turn'[u].pc = "idle" /\ locks' = [locks EXCEPT ![turn[u].session] = Tail(@)]
      BY <1>0, <2>2, QueuedLeave DEF MsgInv
  <2> QED BY <1>0, <2>1, <2>2
<1>3. Types'
    BY <1>0, <1>1, <1>2, TypesStep DEF MsgInv
<1>4. Voices'
  <2>1. turn[u].made \in Nat /\ turn[u].msg \in Nat /\ turn[u].msg <= turn[u].made
      BY <1>0 DEF MsgInv, Types, TurnOK, Advances
  <2>2. NewId(u, 1) # CurrentMsg(u) /\ \A v \in Users : v # u => NewId(u, 1) # CurrentMsg(v)
      BY <2>1 DEF NewId, CurrentMsg
  <2>3. \A v \in Users : v # u => CurrentMsg(v)' = CurrentMsg(v) /\ (Answering(v)' => Answering(v))
      BY <1>0 DEF Advances, CurrentMsg, Answering
  <2>4. Answering(u) /\ \A r \in open : r.id # NewId(u, 1)
      BY <1>0, NewIsUnused DEF MsgInv, IsOpen, Advances
  <2>5. \A r \in open' : r \in open \/ (r \in N /\ r.id = NewId(u, 1))
      BY <1>0
  <2>6. ASSUME NEW v \in Users, Answering(v)', NEW r \in open', r.id = CurrentMsg(v)'
        PROVE  r.agent = Master /\ r.kind = "text"
    <3>1. CASE v # u
        BY <2>2, <2>3, <2>5, <2>6, <3>1 DEF MsgInv, Voices
    <3>2. CASE v = u /\ CurrentMsg(u)' = CurrentMsg(u)
        BY <2>2, <2>4, <2>5, <2>6, <3>2 DEF MsgInv, Voices
    <3>3. CASE /\ v = u /\ CurrentMsg(u)' = NewId(u, 1)
               /\ \A q \in N : q.agent = Master /\ q.kind = "text"
        BY <2>4, <2>5, <2>6, <3>3
    <3> QED BY <1>0, <2>6, <3>1, <3>2, <3>3
  <2> QED BY <2>6 DEF Voices
<1> QED BY <1>1, <1>2, <1>3, <1>4 DEF MsgInv

\* A message that a turn makes, and counts.
LEMMA Made ==
    ASSUME MsgInv, NEW u \in Users, Advances(u), Answering(u)' => turn'[u].made = turn[u].made + 1,
           NEW agent \in Agents, NEW s \in Sessions, NEW kind \in {"text", "tool"},
           NEW r, r = Message(NewId(u, 1), agent, s, kind)
    PROVE  /\ r \in Answers /\ r \in Records /\ Used(r.id)'
           /\ r.id = NewId(u, 1) /\ r.agent = agent /\ r.session = s /\ r.kind = kind
<1>1. Answering(u) /\ turn'[u].n = turn[u].n
    BY DEF Advances
<1>2. /\ NewId(u, 1) \in Ids /\ NewId(u, 1)[1] = <<u, turn[u].n>> /\ NewId(u, 1)[2] = turn[u].made + 1
      /\ turn[u].n \in Nat /\ turn[u].made \in Nat
    BY <1>1, NewIsUnused DEF MsgInv, NewId, Types, TurnOK
<1>3. /\ r.id = NewId(u, 1) /\ r.agent = agent /\ r.session = s /\ r.kind = kind
      /\ r = [id |-> r.id, agent |-> r.agent, session |-> r.session, kind |-> r.kind]
    BY DEF Message
<1>4. r \in Records /\ r \in Answers
    BY <1>2, <1>3 DEF Records, Answers
<1>5. r.id[1] = <<u, turn[u].n>> /\ r.id[2] = turn[u].made + 1
    BY <1>2, <1>3
<1>6. Used(r.id)'
    BY <1>1, <1>2, <1>5 DEF Used
<1> QED BY <1>3, <1>4, <1>6

\* A message by itself, and none.
LEMMA OneMessage == \A r : IsFiniteSet({r}) /\ Distinct({r}) /\ IsFiniteSet({}) /\ Distinct({})
<1>1. \A r : IsFiniteSet({r})
    BY FS_Singleton
<1>2. IsFiniteSet({})
    BY FS_EmptySet
<1> QED BY <1>1, <1>2 DEF Distinct

\* Steps that file nothing at once, and such that file and close nothing.
LEMMA FiledShort ==
    ASSUME Types
    PROVE  /\ Filed(files, {}) = files /\ Filed(Filed(files, {}), {}) = files
           /\ \A E \in SUBSET Records : IsFiniteSet(E) => Filed(Filed(files, E), {}) = Filed(files, E)
           /\ \A C : Filed(Filed(files, {}), C) = Filed(files, C)
<1>1. files \in [Sessions -> Seq(Records)]
    BY DEF Types
<1>2. Filed(files, {}) = files
    BY <1>1, FiledNone
<1>3. ASSUME NEW E \in SUBSET Records, IsFiniteSet(E) PROVE Filed(Filed(files, E), {}) = Filed(files, E)
  <2>1. \A s \in Sessions : Filed(files, E)[s] \in Seq(Records)
      BY <1>1, <1>3, FiledAt
  <2>2. Filed(files, E) = [s \in Sessions |-> Filed(files, E)[s]]
      BY DEF Filed
  <2>3. Filed(files, E) \in [Sessions -> Seq(Records)]
      BY <2>1, <2>2
  <2> QED BY <2>3, FiledNone
<1> QED BY <1>2, <1>3

\* The first piece of a sub-agent's reasoning.
LEMMA DeltaKeeps == ASSUME MsgInv, NEW u \in Users, AgentDelta(u) PROVE MsgInv'
<1>0. PICK m : m = Message(NewId(u, 1), turn[u].sub, active, "text")
    OBVIOUS
<1>1. /\ turn[u].pc = "running" /\ active # NoOne /\ StreamsOf(turn[u].sub) = {}
      /\ open' = open \cup {m} /\ turn' = [turn EXCEPT ![u].made = @ + 1]
      /\ files' = files /\ stacks' = stacks /\ locks' = locks /\ active' = active
    BY <1>0 DEF AgentDelta, runVars
<1>2. TurnOK(u) /\ turn[u].sub \in SubAgents /\ active \in Sessions
    BY <1>1 DEF MsgInv, Types, TurnOK
<1>3. turn'[u] = [turn[u] EXCEPT !.made = @ + 1] /\ \A v \in Users : v # u => turn'[v] = turn[v]
    BY <1>1 DEF MsgInv, Types
<1>4. Advances(u) /\ Answering(u)' /\ turn'[u].made = turn[u].made + 1
    BY <1>1, <1>2, <1>3 DEF Advances, Answering, TurnOK, Stages, MsgInv, Types
<1>5. /\ m \in Answers /\ Used(m.id)' /\ m.id = NewId(u, 1) /\ m.agent = turn[u].sub
      /\ m.session = active /\ m.kind = "text"
  <2>1. turn[u].sub \in Agents
      BY <1>2 DEF Agents
  <2> QED BY <1>0, <1>2, <1>4, <2>1, Made
<1>6. StreamsAttended'
  <2>1. open' = (open \ {}) \cup {m} /\ {} \in SUBSET open
      BY <1>1
  <2>2. \A r \in open \ {} : r.kind = "text" /\ r.agent = Master /\ r.id = CurrentMsg(u)
          => Answering(u)' /\ CurrentMsg(u)' = CurrentMsg(u)
      BY <1>2, <1>3, <1>4 DEF CurrentMsg, TurnOK
  <2>3. turn'[u].pc = "running" /\ turn'[u].sub = turn[u].sub
      BY <1>1, <1>2, <1>3 DEF TurnOK
  <2>4. m.agent # Master
      BY <1>2, <1>5, BridgeAssumption DEF BridgeAssumption
  <2>5. \A q \in open : ~(q.kind = "text" /\ q.agent = turn[u].sub)
      BY <1>1 DEF StreamsOf
  <2>6. Attends(u, {}, {m})
      BY <1>5, <2>1, <2>2, <2>3, <2>4, <2>5 DEF Attends
  <2> QED BY <1>4, <2>6, AttendedStep DEF MsgInv
<1>7. StacksMatch'
  <2>1. open' = (open \ {}) \cup {m} /\ {} \in SUBSET open /\ \A r \in {} \cup {m} : r.kind = "text"
      BY <1>1, <1>5
  <2> QED BY <1>1, <2>1, StacksStep DEF MsgInv
<1>8. Does(u, {}, {m}, {})
  <2>1. files' = Filed(Filed(files, {}), {}) /\ open' = (open \ {}) \cup {m}
      BY <1>1, FiledShort DEF MsgInv
  <2>2. stacks' \in [Agents -> Seq(Ids)] /\ active' \in Sessions \cup {NoOne}
      BY <1>1 DEF MsgInv, Types
  <2>3. CurrentMsg(u)' = CurrentMsg(u)
      BY <1>2, <1>3 DEF CurrentMsg, TurnOK
  <2> QED BY <1>1, <1>4, <1>5, <2>1, <2>2, <2>3, OneMessage DEF Does
<1> QED BY <1>6, <1>7, <1>8, TurnStep

\* A stack with one id more.
LEMMA Pushed ==
    ASSUME NEW q \in Seq(Ids), NEW x \in Ids
    PROVE  /\ Append(q, x) \in Seq(Ids) /\ ToSet(Append(q, x)) = ToSet(q) \cup {x}
           /\ IsInjective(q) /\ x \notin ToSet(q) => IsInjective(Append(q, x))
<1> DEFINE r == Append(q, x)
           n == Len(q)
<1>1. /\ r \in Seq(Ids) /\ Len(r) = n + 1 /\ n \in Nat /\ r[n + 1] = x /\ \A i \in 1..n : r[i] = q[i]
      /\ DOMAIN r = 1..(n + 1) /\ DOMAIN q = 1..n
    OBVIOUS
<1>2. 1..(n + 1) = (1..n) \cup {n + 1}
    BY <1>1
<1> HIDE DEF r, n
<1>3. ToSet(r) = ToSet(q) \cup {x}
    BY <1>1, <1>2 DEF ToSet
<1>4. IsInjective(q) /\ x \notin ToSet(q) => IsInjective(r)
    BY <1>1, <1>2 DEF IsInjective, ToSet
<1> QED BY <1>1, <1>3, <1>4 DEF r

\* ... and without its top.
LEMMA Popped ==
    ASSUME NEW q \in Seq(Ids), q # <<>>, IsInjective(q)
    PROVE  /\ SubSeq(q, 1, Len(q) - 1) \in Seq(Ids) /\ IsInjective(SubSeq(q, 1, Len(q) - 1))
           /\ q[Len(q)] \in ToSet(q) /\ ToSet(SubSeq(q, 1, Len(q) - 1)) = ToSet(q) \ {q[Len(q)]}
<1> DEFINE n == Len(q)
           r == SubSeq(q, 1, n - 1)
<1>1. n \in Nat /\ n >= 1 /\ DOMAIN q = 1..n
    OBVIOUS
<1> HIDE DEF n
<1>2. n - 1 \in Nat /\ n - 1 <= Len(q)
    BY <1>1 DEF n
<1>3. /\ Len(r) = n - 1 /\ \A i \in 1..(n - 1) : r[i] = q[i]
      /\ DOMAIN r = 1..(n - 1)
    BY <1>1, <1>2
<1>4. r \in Seq(Ids)
    BY <1>1, <1>2 DEF n
<1>5. 1..n = (1..(n - 1)) \cup {n} /\ n \notin 1..(n - 1)
    BY <1>1
<1> HIDE DEF r
<1>6. \A i, j \in 1..n : q[i] = q[j] => i = j
    BY <1>1 DEF IsInjective
<1>7. IsInjective(r)
    BY <1>1, <1>3, <1>5, <1>6 DEF IsInjective
<1>8. q[n] \in ToSet(q) /\ ToSet(r) = ToSet(q) \ {q[n]}
    BY <1>1, <1>3, <1>5, <1>6 DEF ToSet
<1> QED BY <1>4, <1>7, <1>8 DEF r, n

\* A turn goes on: what it keeps of its locals.
Proceeds(u, next) ==
    /\ DOMAIN turn' = Users /\ \A v \in Users : v # u => turn'[v] = turn[v]
    /\ DOMAIN turn'[u] = {"pc", "session", "n", "made", "msg", "sub", "tracker"}
    /\ turn'[u].pc = next /\ turn'[u].n = turn[u].n /\ turn'[u].msg = turn[u].msg
    /\ turn'[u].session = turn[u].session /\ turn'[u].made \in {turn[u].made, turn[u].made + 1}

\* So it makes no other turn move.
LEMMA ProceedsAdvances ==
    ASSUME MsgInv, NEW u \in Users, Answering(u), NEW next \in Stages \ {"idle", "waiting"}, Proceeds(u, next),
           next \in {"running", "subtool"} => turn'[u].sub \in SubAgents
    PROVE  Advances(u) /\ Answering(u)' /\ CurrentMsg(u)' = CurrentMsg(u)
<1>1. TurnOK(u)
    BY DEF MsgInv, Types
<1>2. Answering(u)' /\ CurrentMsg(u)' = CurrentMsg(u)
    BY DEF Proceeds, Answering, CurrentMsg
<1>3. TurnOK(u)'
    BY <1>1 DEF Proceeds, TurnOK, Answering
<1>4. turn'[u].made >= turn[u].made
    BY <1>1 DEF Proceeds, TurnOK
<1> QED BY <1>2, <1>3, <1>4 DEF Proceeds, Advances

\* A step that leaves messages, stacks and locks alone.
LEMMA SilentKeeps ==
    ASSUME MsgInv, NEW u \in Users, Advances(u), Answering(u)', CurrentMsg(u)' = CurrentMsg(u),
           turn[u].pc \in {"running", "subtool"}
             => turn'[u].pc \in {"running", "subtool"} /\ turn'[u].sub = turn[u].sub,
           open' = open, files' = files, stacks' = stacks, locks' = locks, active' = active
    PROVE  MsgInv'
<1>1. open' = (open \ {}) \cup {} /\ files' = Filed(Filed(files, {}), {}) /\ {} \in SUBSET open
    BY FiledShort DEF MsgInv
<1>2. StacksMatch'
  <2>1. \A r \in {} \cup {} : r.kind = "text"
      OBVIOUS
  <2> QED BY <1>1, <2>1, StacksStep DEF MsgInv
<1>3. Attends(u, {}, {})
    BY <1>1 DEF Attends
<1>4. StreamsAttended'
    BY <1>3, AttendedStep DEF MsgInv
<1>5. Does(u, {}, {}, {})
  <2>1. stacks' \in [Agents -> Seq(Ids)] /\ active' \in Sessions \cup {NoOne}
      BY DEF MsgInv, Types
  <2> QED BY <1>1, <2>1, OneMessage DEF Does
<1> QED BY <1>2, <1>4, <1>5, TurnStep

\* A tool call of an agent is shown: its text is split and a message opened.
LEMMA BeforeKeeps ==
    ASSUME MsgInv, NEW u \in Users, NEW agent \in Agents, NEW next, BeforeTool(u, agent, next),
           \/ turn[u].pc = "streaming" /\ agent = Master /\ next \in {"tool", "create", "run"}
           \/ turn[u].pc = "running" /\ agent = turn[u].sub /\ next = "subtool"
    PROVE  MsgInv'
<1>0. PICK m : m = Message(NewId(u, 1), agent, active, "tool")
    OBVIOUS
<1>1. TurnOK(u) /\ Answering(u) /\ locks' = locks /\ active' = active /\ active \in Sessions \cup {NoOne}
    BY DEF MsgInv, Types, BeforeTool, Answering
<1>2. ASSUME turn' = [turn EXCEPT ![u].pc = next] \/ turn' = [turn EXCEPT ![u].pc = next, ![u].made = @ + 1]
      PROVE  /\ Advances(u) /\ Answering(u)' /\ CurrentMsg(u)' = CurrentMsg(u)
             /\ turn[u].pc \in {"running", "subtool"}
                  => turn'[u].pc \in {"running", "subtool"} /\ turn'[u].sub = turn[u].sub
  <2>1. DOMAIN turn' = Users /\ \A v \in Users : v # u => turn'[v] = turn[v]
      BY <1>2 DEF MsgInv, Types
  <2>2. \/ turn'[u] = [turn[u] EXCEPT !.pc = next]
        \/ turn'[u] = [turn[u] EXCEPT !.pc = next, !.made = @ + 1]
      BY <1>2 DEF MsgInv, Types
  <2>3. Proceeds(u, next) /\ turn'[u].sub = turn[u].sub /\ turn'[u].pc = next
      BY <1>1, <2>1, <2>2 DEF Proceeds, TurnOK
  <2>4. next \in Stages \ {"idle", "waiting"} /\ (next \in {"running", "subtool"} => turn'[u].sub \in SubAgents)
      BY <1>1, <2>3 DEF TurnOK, Stages
  <2>5. turn[u].pc \in {"running", "subtool"} => turn'[u].pc \in {"running", "subtool"}
      BY <2>3
  <2> QED BY <1>1, <2>3, <2>4, <2>5, ProceedsAdvances
<1>3. CASE /\ active = NoOne /\ turn' = [turn EXCEPT ![u].pc = next]
           /\ open' = open /\ files' = files /\ stacks' = stacks
    BY <1>1, <1>2, <1>3, SilentKeeps
<1>4. CASE /\ active # NoOne /\ open' = StillOpen(StreamsOf(agent)) \cup {m}
           /\ files' = Filed(files, Closing(StreamsOf(agent)))
           /\ stacks' = [stacks EXCEPT ![agent] = Append(@, NewId(u, 1))]
           /\ turn' = [turn EXCEPT ![u].pc = next, ![u].made = @ + 1]
  <2>1. /\ m \in Answers /\ Used(m.id)' /\ m.id = NewId(u, 1) /\ m.agent = agent /\ m.kind = "tool"
    <3>1. active \in Sessions /\ "tool" \in {"text", "tool"}
        BY <1>1, <1>4
    <3>2. Advances(u) /\ turn'[u].made = turn[u].made + 1
        BY <1>1, <1>2, <1>4 DEF MsgInv, Types, TurnOK
    <3> QED BY <1>0, <3>1, <3>2, Made
  <2>2. /\ TextsOf(agent) \in SUBSET open /\ open' = (open \ TextsOf(agent)) \cup {m}
        /\ files' = Filed(Filed(files, {}), TextsOf(agent))
      BY <1>4, Closed, FiledShort DEF MsgInv
  <2>3. \A q \in open : q.id # NewId(u, 1)
      BY <1>1, NewIsUnused DEF MsgInv, IsOpen
  <2>4. NewId(u, 1) \in Ids
      BY <1>1, NewIsUnused DEF MsgInv
  <2>5. ASSUME NEW a \in Agents
        PROVE  /\ stacks'[a] \in Seq(Ids) /\ IsInjective(stacks'[a])
               /\ ToSet(stacks'[a]) = {r.id : r \in {q \in open' : q.agent = a /\ q.kind = "tool"}}
    <3>1. /\ stacks[a] \in Seq(Ids) /\ IsInjective(stacks[a])
          /\ ToSet(stacks[a]) = {r.id : r \in {q \in open : q.agent = a /\ q.kind = "tool"}}
        BY DEF MsgInv, Types, StacksMatch
    <3>2. CASE a # agent
      <4>1. stacks'[a] = stacks[a]
          BY <1>4, <3>2 DEF MsgInv, Types
      <4>2. {q \in open' : q.agent = a /\ q.kind = "tool"} = {q \in open : q.agent = a /\ q.kind = "tool"}
          BY <2>1, <2>2, <3>2 DEF TextsOf
      <4> QED BY <3>1, <4>1, <4>2
    <3>3. CASE a = agent
      <4>1. stacks'[a] = Append(stacks[a], NewId(u, 1))
          BY <1>4, <3>3 DEF MsgInv, Types
      <4>2. {q \in open' : q.agent = a /\ q.kind = "tool"}
              = {q \in open : q.agent = a /\ q.kind = "tool"} \cup {m}
          BY <2>1, <2>2, <3>3 DEF TextsOf
      <4>3. NewId(u, 1) \notin ToSet(stacks[a])
          BY <2>3, <3>1
      <4>4. /\ stacks'[a] \in Seq(Ids) /\ IsInjective(stacks'[a])
            /\ ToSet(stacks'[a]) = ToSet(stacks[a]) \cup {NewId(u, 1)}
        <5> DEFINE q == stacks[a]
                   x == NewId(u, 1)
        <5>1. q \in Seq(Ids) /\ x \in Ids /\ IsInjective(q) /\ x \notin ToSet(q)
            BY <2>4, <3>1, <4>3
        <5> HIDE DEF q, x
        <5>2. Append(q, x) \in Seq(Ids)
            BY <5>1, Pushed
        <5>3. ToSet(Append(q, x)) = ToSet(q) \cup {x}
            BY <5>1, Pushed
        <5>4. IsInjective(Append(q, x))
            BY <5>1, Pushed
        <5> QED BY <4>1, <5>2, <5>3, <5>4 DEF q, x
      <4> QED BY <2>1, <3>1, <4>2, <4>4
    <3> QED BY <3>2, <3>3
  <2>6. StacksMatch'
      BY <2>5 DEF StacksMatch
  <2>7. Attends(u, TextsOf(agent), {m})
      BY <1>2, <1>4, <2>1, <2>2 DEF Attends
  <2>8. StreamsAttended'
      BY <1>2, <1>4, <2>7, AttendedStep DEF MsgInv
  <2>9. Does(u, TextsOf(agent), {m}, {})
    <3>1. stacks' \in [Agents -> Seq(Ids)]
      <4>1. stacks' = [a \in Agents |-> stacks'[a]]
          BY <1>4 DEF MsgInv, Types
      <4> QED BY <2>5, <4>1
    <3> QED BY <1>1, <1>2, <1>4, <2>1, <2>2, <3>1, OneMessage DEF Does
  <2> QED BY <2>6, <2>8, <2>9, TurnStep
<1> QED BY <1>0, <1>3, <1>4 DEF BeforeTool, messageVars

\* A tool call of an agent returns: the top of its stack is closed.
LEMMA AfterKeeps ==
    ASSUME MsgInv, NEW u \in Users, NEW agent \in Agents, NEW next, AfterTool(u, agent, next),
           \/ turn[u].pc \in {"tool", "called"} /\ next = "streaming"
           \/ turn[u].pc = "subtool" /\ next = "running"
    PROVE  MsgInv'
<1> DEFINE top == stacks[agent][Len(stacks[agent])]
           C == Closing({top})
<1>1. TurnOK(u) /\ Answering(u) /\ locks' = locks /\ active' = active /\ active \in Sessions \cup {NoOne}
    BY DEF MsgInv, Types, AfterTool, Answering
<1>2. /\ Advances(u) /\ Answering(u)' /\ CurrentMsg(u)' = CurrentMsg(u)
      /\ turn[u].pc \in {"running", "subtool"}
           => turn'[u].pc \in {"running", "subtool"} /\ turn'[u].sub = turn[u].sub
  <2>1. turn' = [turn EXCEPT ![u].pc = next, ![u].sub = IF next = "streaming" THEN NoOne ELSE @,
                             ![u].tracker = IF next = "streaming" THEN NoOne ELSE @]
      BY DEF AfterTool
  <2>2. DOMAIN turn' = Users /\ \A v \in Users : v # u => turn'[v] = turn[v]
      BY <2>1 DEF MsgInv, Types
  <2>3. turn'[u] = [turn[u] EXCEPT !.pc = next, !.sub = IF next = "streaming" THEN NoOne ELSE @,
                                   !.tracker = IF next = "streaming" THEN NoOne ELSE @]
      BY <2>1 DEF MsgInv, Types
  <2>4. /\ Proceeds(u, next) /\ turn'[u].pc = next
        /\ turn'[u].sub = IF next = "streaming" THEN NoOne ELSE turn[u].sub
      BY <1>1, <2>2, <2>3 DEF Proceeds, TurnOK
  <2>5. next \in Stages \ {"idle", "waiting"} /\ (next \in {"running", "subtool"} => turn'[u].sub \in SubAgents)
      BY <1>1, <2>4 DEF TurnOK, Stages
  <2>6. turn[u].pc \in {"running", "subtool"}
           => turn'[u].pc \in {"running", "subtool"} /\ turn'[u].sub = turn[u].sub
      BY <2>4
  <2> QED BY <1>1, <2>4, <2>5, <2>6, ProceedsAdvances
<1>3. CASE open' = open /\ files' = files /\ stacks' = stacks
    BY <1>1, <1>2, <1>3, SilentKeeps
<1>4. CASE /\ stacks[agent] # <<>> /\ open' = StillOpen({top}) /\ files' = Filed(files, C)
           /\ stacks' = [stacks EXCEPT ![agent] = SubSeq(@, 1, Len(@) - 1)]
  <2>1. /\ stacks[agent] \in Seq(Ids) /\ IsInjective(stacks[agent])
        /\ ToSet(stacks[agent]) = {r.id : r \in {q \in open : q.agent = agent /\ q.kind = "tool"}}
      BY DEF MsgInv, Types, StacksMatch
  <2>2. /\ SubSeq(stacks[agent], 1, Len(stacks[agent]) - 1) \in Seq(Ids)
        /\ IsInjective(SubSeq(stacks[agent], 1, Len(stacks[agent]) - 1))
        /\ top \in ToSet(stacks[agent])
        /\ ToSet(SubSeq(stacks[agent], 1, Len(stacks[agent]) - 1)) = ToSet(stacks[agent]) \ {top}
      BY <1>4, <2>1, Popped
  <2>3. stacks'[agent] = SubSeq(stacks[agent], 1, Len(stacks[agent]) - 1)
      BY <1>4 DEF MsgInv, Types
  <2>4. C \in SUBSET open /\ StillOpen({top}) = open \ C
      BY Closed DEF MsgInv
  <2> HIDE DEF top
  <2>5. PICK m \in open : m.id = top /\ m.agent = agent /\ m.kind = "tool"
      BY <2>1, <2>2
  <2>6. C = {m}
      BY <2>5 DEF MsgInv, Unique, Distinct, Closing
  <2> HIDE DEF C
  <2>7. open' = open \ {m} /\ open' = (open \ C) \cup {}
      BY <1>4, <2>4, <2>6
  <2>8. ASSUME NEW a \in Agents
        PROVE  /\ stacks'[a] \in Seq(Ids) /\ IsInjective(stacks'[a])
               /\ ToSet(stacks'[a]) = {r.id : r \in {q \in open' : q.agent = a /\ q.kind = "tool"}}
    <3>1. CASE a # agent
      <4>1. stacks'[a] = stacks[a]
          BY <1>4, <3>1 DEF MsgInv, Types
      <4>2. {q \in open' : q.agent = a /\ q.kind = "tool"} = {q \in open : q.agent = a /\ q.kind = "tool"}
          BY <2>5, <2>7, <3>1
      <4> QED BY <4>1, <4>2 DEF MsgInv, Types, StacksMatch
    <3>2. CASE a = agent
      <4>1. {q \in open' : q.agent = agent /\ q.kind = "tool"}
              = {q \in open : q.agent = agent /\ q.kind = "tool"} \ {m}
          BY <2>7
      <4>2. \A q \in open : q # m => q.id # top
          BY <2>5 DEF MsgInv, Unique, Distinct
      <4>3. {r.id : r \in {q \in open : q.agent = agent /\ q.kind = "tool"} \ {m}}
              = {r.id : r \in {q \in open : q.agent = agent /\ q.kind = "tool"}} \ {top}
          BY <2>5, <4>2
      <4> QED BY <2>1, <2>2, <2>3, <3>2, <4>1, <4>3
    <3> QED BY <3>1, <3>2
  <2>9. StacksMatch'
      BY <2>8 DEF StacksMatch
  <2>10. Attends(u, C, {})
      BY <1>2, <2>4, <2>7 DEF Attends
  <2>11. StreamsAttended'
      BY <1>2, <2>10, AttendedStep DEF MsgInv
  <2>12. Does(u, C, {}, {})
    <3>1. stacks' \in [Agents -> Seq(Ids)]
      <4>1. stacks' = [a \in Agents |-> stacks'[a]]
          BY <1>4 DEF MsgInv, Types
      <4> QED BY <2>8, <4>1
    <3>2. files' = Filed(Filed(files, {}), C)
        BY <1>4, FiledShort DEF MsgInv
    <3> QED BY <1>1, <1>2, <2>4, <2>7, <3>1, <3>2, OneMessage DEF Does
  <2> QED BY <2>9, <2>11, <2>12, TurnStep
<1> QED BY <1>3, <1>4 DEF AfterTool, messageVars

\* The tool calls of a turn and of its sub-agent.
LEMMA CallsKeep ==
    ASSUME MsgInv, NEW u \in Users, CallTool(u) \/ ToolReturns(u) \/ SubCall(u) \/ SubReturns(u)
    PROVE  MsgInv'
<1>1. Master \in Agents /\ (turn[u].pc \in {"running", "subtool"} => turn[u].sub \in Agents)
    BY DEF Agents, MsgInv, Types, TurnOK
<1>2. CASE CallTool(u)
    BY <1>1, <1>2, BeforeKeeps DEF CallTool
<1>3. CASE ToolReturns(u)
    BY <1>1, <1>3, AfterKeeps DEF ToolReturns
<1>4. CASE SubCall(u)
    BY <1>1, <1>4, BeforeKeeps DEF SubCall
<1>5. CASE SubReturns(u)
    BY <1>1, <1>5, AfterKeeps DEF SubReturns
<1> QED BY <1>2, <1>3, <1>4, <1>5

\* The tools create_sub_agent and run_sub_agent show nothing themselves.
LEMMA ToolsKeep == ASSUME MsgInv, NEW u \in Users, CreateTool(u) \/ RunTool(u) PROVE MsgInv'
<1>1. TurnOK(u) /\ turn[u].pc \in {"create", "run"} /\ Answering(u)
    BY DEF MsgInv, Types, CreateTool, RunTool, Answering
<1>2. open' = open /\ files' = files /\ stacks' = stacks /\ locks' = locks /\ active' = active
    BY DEF CreateTool, RunTool, messageVars
<1>3. \/ turn' = [turn EXCEPT ![u].pc = "called"]
      \/ \E a \in SubAgents : turn' = [turn EXCEPT ![u].pc = "running", ![u].sub = a, ![u].tracker = tracker]
    BY DEF CreateTool, RunTool
<1>4. CASE turn' = [turn EXCEPT ![u].pc = "called"]
  <2>1. DOMAIN turn' = Users /\ \A v \in Users : v # u => turn'[v] = turn[v]
      BY <1>4 DEF MsgInv, Types
  <2>2. turn'[u] = [turn[u] EXCEPT !.pc = "called"]
      BY <1>4 DEF MsgInv, Types
  <2>3. Proceeds(u, "called")
      BY <1>1, <2>1, <2>2 DEF Proceeds, TurnOK
  <2>4. Advances(u) /\ Answering(u)' /\ CurrentMsg(u)' = CurrentMsg(u)
      BY <1>1, <2>3, ProceedsAdvances DEF Stages
  <2> QED BY <1>1, <1>2, <2>4, SilentKeeps
<1>5. ASSUME NEW a \in SubAgents,
             turn' = [turn EXCEPT ![u].pc = "running", ![u].sub = a, ![u].tracker = tracker]
      PROVE  MsgInv'
  <2>1. DOMAIN turn' = Users /\ \A v \in Users : v # u => turn'[v] = turn[v]
      BY <1>5 DEF MsgInv, Types
  <2>2. turn'[u] = [turn[u] EXCEPT !.pc = "running", !.sub = a, !.tracker = tracker]
      BY <1>5 DEF MsgInv, Types
  <2>3. Proceeds(u, "running") /\ turn'[u].sub \in SubAgents
      BY <1>1, <2>1, <2>2 DEF Proceeds, TurnOK
  <2>4. Advances(u) /\ Answering(u)' /\ CurrentMsg(u)' = CurrentMsg(u)
      BY <1>1, <2>3, ProceedsAdvances DEF Stages
  <2> QED BY <1>1, <1>2, <2>4, SilentKeeps
<1> QED BY <1>3, <1>4, <1>5

\* A run of a sub-agent ends or raises: its output is filed, its text closed.
LEMMA RunsKeep == ASSUME MsgInv, NEW u \in Users, RunEnds(u) \/ RunRaises(u) PROVE MsgInv'
<1> DEFINE a == turn[u].sub
           C == TextsOf(a)
<1>0. PICK m : m = Message(NewId(u, 1), a, active, "text")
    OBVIOUS
<1>1. /\ TurnOK(u) /\ turn[u].pc = "running" /\ Answering(u) /\ a \in SubAgents
      /\ active \in Sessions \cup {NoOne}
    BY DEF MsgInv, Types, TurnOK, RunEnds, RunRaises, Answering
<1>2. /\ open' = StillOpen(StreamsOf(a)) /\ stacks' = stacks /\ locks' = locks /\ active' = active
    BY DEF RunEnds, RunRaises, SplitStream, runVars
<1>3. \E E \in {{}, {m}} :
         /\ E # {} => active # NoOne
         /\ files' = Filed(Filed(files, E), C)
         /\ \/ E = {} /\ turn' = [turn EXCEPT ![u].pc = "called"]
            \/ turn' = [turn EXCEPT ![u].pc = "called", ![u].made = @ + Cardinality(E)]
  <2>1. Closing(StreamsOf(a)) = C
      BY Closed DEF MsgInv
  <2>2. CASE RunRaises(u)
    <3>1. files' = Filed(files, C) /\ turn' = [turn EXCEPT ![u].pc = "called"]
        BY <2>1, <2>2 DEF RunRaises, SplitStream
    <3>2. files' = Filed(Filed(files, {}), C)
        BY <3>1, FiledShort DEF MsgInv
    <3> QED BY <3>1, <3>2
  <2>3. CASE RunEnds(u)
    <3>1. PICK output \in {{}, IF active = NoOne THEN {} ELSE {m}} :
             /\ files' = Filed(Filed(files, output), Closing(StreamsOf(a)))
             /\ turn' = [turn EXCEPT ![u].pc = "called", ![u].made = @ + Cardinality(output)]
        BY <1>0, <2>3 DEF RunEnds
    <3>2. output \in {{}, {m}} /\ (output # {} => active # NoOne)
        OBVIOUS
    <3> QED BY <2>1, <3>1, <3>2
  <2> QED BY <2>2, <2>3
<1>4. PICK E \in {{}, {m}} :
         /\ E # {} => active # NoOne
         /\ files' = Filed(Filed(files, E), C)
         /\ \/ E = {} /\ turn' = [turn EXCEPT ![u].pc = "called"]
            \/ turn' = [turn EXCEPT ![u].pc = "called", ![u].made = @ + Cardinality(E)]
    BY <1>3
<1>5. Cardinality({}) = 0 /\ Cardinality({m}) = 1
    BY FS_EmptySet, FS_Singleton
<1>6. /\ DOMAIN turn' = Users /\ \A v \in Users : v # u => turn'[v] = turn[v]
      /\ Proceeds(u, "called") /\ (E # {} => turn'[u].made = turn[u].made + 1)
  <2>1. DOMAIN turn' = Users /\ \A v \in Users : v # u => turn'[v] = turn[v]
      BY <1>4 DEF MsgInv, Types
  <2>2. \/ E = {} /\ turn'[u] = [turn[u] EXCEPT !.pc = "called"]
        \/ turn'[u] = [turn[u] EXCEPT !.pc = "called", !.made = @ + Cardinality(E)]
      BY <1>4 DEF MsgInv, Types
  <2>3. CASE E = {}
    <3>1. /\ turn'[u].pc = "called" /\ turn'[u].n = turn[u].n /\ turn'[u].msg = turn[u].msg
          /\ turn'[u].session = turn[u].session
          /\ turn'[u].made \in {turn[u].made, turn[u].made + Cardinality(E)}
          /\ DOMAIN turn'[u] = {"pc", "session", "n", "made", "msg", "sub", "tracker"}
        BY <1>1, <2>2 DEF TurnOK
    <3>2. turn[u].made + Cardinality(E) = turn[u].made
        BY <1>1, <1>5, <2>3 DEF TurnOK
    <3> QED BY <2>1, <2>3, <3>1, <3>2 DEF Proceeds
  <2>4. CASE E = {m}
    <3>1. turn'[u] = [turn[u] EXCEPT !.pc = "called", !.made = @ + 1]
        BY <1>5, <2>2, <2>4
    <3> QED BY <1>1, <2>1, <2>4, <3>1 DEF Proceeds, TurnOK
  <2> QED BY <2>1, <2>3, <2>4
<1>7. Advances(u) /\ Answering(u)' /\ CurrentMsg(u)' = CurrentMsg(u)
    BY <1>1, <1>6, ProceedsAdvances DEF Stages
<1> HIDE DEF a
<1>8. E = {m} => /\ m \in Records /\ Used(m.id)' /\ m.id = NewId(u, 1) /\ Speaks(m)
  <2>1. SUFFICES ASSUME E = {m} PROVE m \in Records /\ Used(m.id)' /\ m.id = NewId(u, 1) /\ Speaks(m)
      OBVIOUS
  <2>2. active \in Sessions /\ a \in Agents /\ turn'[u].made = turn[u].made + 1 /\ "text" \in {"text", "tool"}
      BY <1>1, <1>4, <1>6, <2>1 DEF Agents
  <2>3. m \in Records /\ Used(m.id)' /\ m.id = NewId(u, 1) /\ m.agent = a /\ m.kind = "text"
      BY <1>0, <1>7, <2>2, Made
  <2>4. Speaks(m)
      BY <1>1, <2>3, BridgeAssumption DEF Speaks, IsText, BridgeAssumption
  <2> QED BY <2>3, <2>4
<1>9. C \in SUBSET open /\ open' = (open \ C) \cup {}
    BY <1>2, Closed DEF MsgInv
<1>10. StacksMatch'
  <2>1. \A r \in C \cup {} : r.kind = "text"
      BY DEF TextsOf
  <2> HIDE DEF C
  <2> QED BY <1>2, <1>9, <2>1, StacksStep DEF MsgInv
<1>11. Attends(u, C, {})
    BY <1>7, <1>9 DEF Attends, TextsOf, a
<1> HIDE DEF C
<1>12. StreamsAttended'
    BY <1>7, <1>11, AttendedStep DEF MsgInv
<1>13. Does(u, C, {}, E)
  <2>1. stacks' \in [Agents -> Seq(Ids)] /\ active' \in Sessions \cup {NoOne}
      BY <1>1, <1>2 DEF MsgInv, Types
  <2>2. E \in SUBSET Records /\ IsFiniteSet(E) /\ Distinct(E) /\ IsFiniteSet({}) /\ Distinct({})
      BY <1>8, OneMessage
  <2>3. (\A r \in E : Speaks(r)) /\ (\A r \in {} \cup E : r.id = NewId(u, 1) /\ Used(r.id)')
      BY <1>8
  <2> QED BY <1>2, <1>4, <1>7, <1>9, <2>1, <2>2, <2>3 DEF Does
<1> QED BY <1>10, <1>12, <1>13, TurnStep

\* A chunk of the master opens the message of its turn again.
LEMMA ChunkKeeps == ASSUME MsgInv, NEW u \in Users, Chunk(u) PROVE MsgInv'
<1> DEFINE s == turn[u].session
<1>0. PICK m : m = Message(NewId(u, 1), Master, s, "text")
    OBVIOUS
<1>1. /\ turn[u].pc = "streaming" /\ ~IsOpen(CurrentMsg(u)) /\ open' = open \cup {m}
      /\ turn' = [turn EXCEPT ![u].made = @ + 1, ![u].msg = turn[u].made + 1]
      /\ files' = files /\ stacks' = stacks /\ locks' = locks /\ active' = active
    BY <1>0 DEF Chunk, runVars
<1>2. TurnOK(u) /\ Answering(u) /\ s \in Sessions
    BY <1>1 DEF MsgInv, Types, TurnOK, Answering
<1>3. DOMAIN turn' = Users /\ \A v \in Users : v # u => turn'[v] = turn[v]
    BY <1>1 DEF MsgInv, Types
<1>4. turn'[u] = [turn[u] EXCEPT !.made = @ + 1, !.msg = turn[u].made + 1]
    BY <1>1 DEF MsgInv, Types
<1>5. /\ turn'[u].pc = "streaming" /\ turn'[u].n = turn[u].n /\ turn'[u].session = s
      /\ turn'[u].made = turn[u].made + 1 /\ turn'[u].msg = turn[u].made + 1
      /\ DOMAIN turn'[u] = {"pc", "session", "n", "made", "msg", "sub", "tracker"}
    BY <1>1, <1>2, <1>4 DEF TurnOK
<1>6. Advances(u) /\ Answering(u)' /\ CurrentMsg(u)' = NewId(u, 1)
  <2>1. Answering(u)' /\ CurrentMsg(u)' = NewId(u, 1)
      BY <1>5 DEF Answering, CurrentMsg, NewId
  <2>2. turn[u].made \in Nat /\ turn'[u].made \in Nat /\ turn'[u].made >= turn[u].made
      BY <1>2, <1>5 DEF TurnOK
  <2>3. TurnOK(u)'
      BY <1>2, <1>5, <2>2 DEF TurnOK, Stages
  <2> QED BY <1>2, <1>3, <1>5, <2>1, <2>2, <2>3 DEF Advances
<1> HIDE DEF s
<1>7. /\ m \in Answers /\ Used(m.id)' /\ m.id = NewId(u, 1) /\ m.agent = Master /\ m.session = s
      /\ m.kind = "text"
  <2>1. Master \in Agents /\ "text" \in {"text", "tool"}
      BY DEF Agents
  <2> QED BY <1>0, <1>2, <1>5, <1>6, <2>1, Made
<1>8. open' = (open \ {}) \cup {m} /\ {} \in SUBSET open
    BY <1>1
<1>9. \A q \in open : q.id # CurrentMsg(u)
    BY <1>1 DEF IsOpen
<1>10. Attends(u, {}, {m})
  <2>1. ASSUME NEW q \in open, q.kind = "text", q.agent = Master, q.session = s PROVE FALSE
    <3>1. PICK v \in Users : Answering(v) /\ q.id = CurrentMsg(v) /\ q.session = turn[v].session
        BY <2>1 DEF MsgInv, StreamsAttended
    <3>2. v = u
        BY <1>2, <2>1, <3>1, OneAnswers DEF MsgInv, s
    <3> QED BY <1>9, <3>1, <3>2
  <2> QED BY <1>1, <1>5, <1>6, <1>7, <1>8, <1>9, <2>1 DEF Attends
<1>11. StreamsAttended'
    BY <1>6, <1>10, AttendedStep DEF MsgInv
<1>12. StacksMatch'
  <2>1. \A r \in {} \cup {m} : r.kind = "text"
      BY <1>7
  <2> QED BY <1>1, <1>8, <2>1, StacksStep DEF MsgInv
<1>13. Does(u, {}, {m}, {})
  <2>1. files' = Filed(Filed(files, {}), {})
      BY <1>1, FiledShort DEF MsgInv
  <2>2. stacks' \in [Agents -> Seq(Ids)] /\ active' \in Sessions \cup {NoOne}
      BY <1>1 DEF MsgInv, Types
  <2> QED BY <1>1, <1>6, <1>7, <1>8, <2>1, <2>2, OneMessage DEF Does
<1> QED BY <1>11, <1>12, <1>13, TurnStep

\* The end of a turn: its message is closed, or the error shown.
LEMMA EndsKeep == ASSUME MsgInv, NEW u \in Users, StreamEnds(u) \/ StreamRaises(u) PROVE MsgInv'
<1> DEFINE s == turn[u].session
           C == Closing({CurrentMsg(u)})
<1>0. PICK m : m = Message(NewId(u, 1), Master, s, "text")
    OBVIOUS
<1>1. /\ turn[u].pc = "streaming" /\ stacks' = stacks /\ active' = NoOne
      /\ locks' = [locks EXCEPT ![turn[u].session] = Tail(@)]
      /\ turn' = [turn EXCEPT ![u] = Quiet(turn[u].n)]
    BY DEF StreamEnds, StreamRaises, LeaveTurn, MsgInv, Types
<1>2. TurnOK(u) /\ Answering(u) /\ s \in Sessions
    BY <1>1 DEF MsgInv, Types, TurnOK, Answering
<1>3. DOMAIN turn' = Users /\ (\A v \in Users : v # u => turn'[v] = turn[v]) /\ turn'[u] = Quiet(turn[u].n)
    BY <1>1 DEF MsgInv, Types
<1>4. /\ turn'[u].pc = "idle" /\ turn'[u].n = turn[u].n /\ turn'[u].made = 0 /\ turn'[u].msg = 0
      /\ DOMAIN turn'[u] = {"pc", "session", "n", "made", "msg", "sub", "tracker"}
    BY <1>3 DEF Quiet
<1>5. Advances(u) /\ ~Answering(u)'
  <2>1. ~Answering(u)'
      BY <1>4 DEF Answering
  <2>2. TurnOK(u)'
      BY <1>2, <1>4, <2>1 DEF TurnOK, Stages
  <2> QED BY <1>2, <1>3, <1>4, <2>1, <2>2 DEF Advances
<1>6. stacks' \in [Agents -> Seq(Ids)] /\ active' \in Sessions \cup {NoOne}
    BY <1>1 DEF MsgInv, Types
<1> HIDE DEF s
<1>7. CASE open' = StillOpen({CurrentMsg(u)}) /\ files' = Filed(files, C)
  <2>1. /\ C \in SUBSET open /\ open' = (open \ C) \cup {} /\ files' = Filed(Filed(files, {}), C)
      BY <1>7, Closed, FiledShort DEF MsgInv
  <2>2. \A r \in C \cup {} : r.kind = "text"
      BY <1>2 DEF MsgInv, Voices, Closing
  <2>3. Attends(u, C, {})
      BY <1>1, <2>1 DEF Attends, Closing
  <2> HIDE DEF C
  <2>4. StreamsAttended' /\ StacksMatch'
      BY <1>1, <1>5, <2>1, <2>2, <2>3, AttendedStep, StacksStep DEF MsgInv
  <2>5. Does(u, C, {}, {})
      BY <1>1, <1>4, <1>5, <1>6, <2>1, OneMessage DEF Does
  <2> QED BY <2>4, <2>5, TurnStep
<1>8. CASE open' = open /\ ~IsOpen(CurrentMsg(u)) /\ files' = Filed(files, {m})
  <2>1. m \in Records /\ Used(m.id)' /\ m.id = NewId(u, 1) /\ m.agent = Master /\ m.session = s /\ m.kind = "text"
    <3>1. Master \in Agents /\ "text" \in {"text", "tool"}
        BY DEF Agents
    <3> QED BY <1>0, <1>2, <1>5, <3>1, Made
  <2>2. Speaks(m)
    <3>1. m.id[1] = <<u, turn[u].n>>
        BY <1>2, <2>1, NewIsUnused DEF MsgInv
    <3> QED BY <1>2, <2>1, <3>1 DEF Speaks, s
  <2>3. /\ {} \in SUBSET open /\ open' = (open \ {}) \cup {}
        /\ files' = Filed(Filed(files, {m}), {})
    <3>1. {m} \in SUBSET Records /\ IsFiniteSet({m})
        BY <2>1, OneMessage
    <3> QED BY <1>8, <3>1, FiledShort DEF MsgInv
  <2>4. \A q \in open : q.id # CurrentMsg(u)
      BY <1>8 DEF IsOpen
  <2>5. Attends(u, {}, {})
      BY <1>1, <2>3, <2>4 DEF Attends
  <2>6. StreamsAttended'
      BY <1>5, <2>5, AttendedStep DEF MsgInv
  <2>7. StacksMatch'
    <3>1. \A r \in {} \cup {} : r.kind = "text"
        OBVIOUS
    <3> QED BY <1>1, <2>3, <3>1, StacksStep DEF MsgInv
  <2>8. Does(u, {}, {}, {m})
      BY <1>1, <1>4, <1>5, <1>6, <2>1, <2>2, <2>3, OneMessage DEF Does
  <2> QED BY <2>6, <2>7, <2>8, TurnStep
<1> QED BY <1>0, <1>7, <1>8 DEF StreamEnds, StreamRaises, s

\* Histories of which some were erased.
LEMMA Erased ==
    ASSUME Types, Unique, OrderOf(files), files' \in [Sessions -> Seq(Records)],
           \A s \in Sessions : files'[s] = files[s] \/ files'[s] = <<>>
    PROVE  /\ Once(files') /\ \A id : Has(files', id) => Has(files, id)
           /\ \A s \in Sessions : InOrder(files'[s])
           /\ \A s \in Sessions : \A t : Ends(files[s], t) => Ends(files'[s], t)
<1>1. \A s \in Sessions : \A i \in 1..Len(files'[s]) : files'[s] = files[s]
    OBVIOUS
<1>2. Once(files')
    BY <1>1 DEF Unique, Once
<1>3. \A id : Has(files', id) => Has(files, id)
    BY <1>1 DEF Has
<1>4. ASSUME NEW s \in Sessions PROVE InOrder(files'[s]) /\ \A t : Ends(files[s], t) => Ends(files'[s], t)
  <2>1. CASE files'[s] = files[s]
      BY <2>1 DEF OrderOf
  <2>2. CASE files'[s] = <<>>
    <3>1. \A i \in 1..Len(<<>>) : FALSE
        OBVIOUS
    <3>2. InOrder(<<>>) /\ \A t : Ends(<<>>, t)
        BY <3>1 DEF InOrder, Ends
    <3> QED BY <2>2, <3>2
  <2> QED BY <2>1, <2>2
<1> QED BY <1>2, <1>3, <1>4

\* A command of a user whose turn does not answer: no answer is touched.
LEMMA CommandKeeps ==
    ASSUME MsgInv, Queued', \A v \in Users : TurnOK(v)', DOMAIN turn' = Users,
           \A v \in Users : /\ turn'[v].n = turn[v].n /\ (Answering(v)' <=> Answering(v))
                            /\ (Answering(v) => turn'[v] = turn[v]),
           open' = open, stacks' = stacks, locks' \in [Sessions -> Seq(Users)],
           active' \in Sessions \cup {NoOne}, files' \in [Sessions -> Seq(Records)],
           \A s \in Sessions : files'[s] = files[s] \/ files'[s] = <<>>
    PROVE  MsgInv'
<1>1. /\ Once(files') /\ \A id : Has(files', id) => Has(files, id)
      /\ \A s \in Sessions : InOrder(files'[s])
      /\ \A s \in Sessions : \A t : Ends(files[s], t) => Ends(files'[s], t)
    BY Erased DEF MsgInv
<1>2. Types'
    BY DEF MsgInv, Types
<1>3. \A id \in Ids : Used(id) => Used(id)'
    BY DEF Used, Ids
<1>4. Unique'
  <2>1. \A r \in open : ~Has(files', r.id) /\ Used(r.id)'
      BY <1>1, <1>3 DEF MsgInv, Unique, Types, Answers, Records
  <2>2. (\A r \in open : ~Has(files, r.id) /\ Used(r.id))'
      BY <2>1
  <2>3. (\A id \in Ids : Has(files, id) => Used(id))'
      BY <1>1, <1>3 DEF MsgInv, Unique, Has
  <2>4. Once(files)' /\ Distinct(open)'
      BY <1>1 DEF MsgInv, Unique, Once, Distinct
  <2> QED BY <2>2, <2>3, <2>4 DEF Unique
<1>5. OrderOf(files)'
  <2>1. \A s \in Sessions : \A v \in Users : Answering(v)' /\ turn'[v].session = s
           => Ends(files'[s], <<v, turn'[v].n>>)
      BY <1>1 DEF MsgInv, OrderOf
  <2> QED BY <1>1, <2>1 DEF OrderOf
<1>6. \A v \in Users : Answering(v) => CurrentMsg(v)' = CurrentMsg(v)
    BY DEF CurrentMsg
<1>7. Voices'
    BY <1>6 DEF MsgInv, Voices
<1>8. StreamsAttended'
  <2>1. \A v \in Users : turn[v].pc \in {"running", "subtool"} => turn'[v] = turn[v]
      BY DEF Answering
  <2>2. ASSUME NEW r \in open, r.kind = "text", r.agent = Master
        PROVE  \E v \in Users : Answering(v)' /\ r.id = CurrentMsg(v)' /\ r.session = turn'[v].session
    <3>1. PICK v \in Users : Answering(v) /\ r.id = CurrentMsg(v) /\ r.session = turn[v].session
        BY <2>2 DEF MsgInv, StreamsAttended
    <3> QED BY <1>6, <3>1
  <2>3. ASSUME NEW r \in open, r.kind = "text", r.agent # Master
        PROVE  \E v \in Users : turn'[v].pc \in {"running", "subtool"} /\ turn'[v].sub = r.agent
    <3>1. PICK v \in Users : turn[v].pc \in {"running", "subtool"} /\ turn[v].sub = r.agent
        BY <2>3 DEF MsgInv, StreamsAttended
    <3> QED BY <2>1, <3>1
  <2>4. \A r, q \in open :
           r.kind = "text" /\ q.kind = "text" /\ r.agent = q.agent /\ r.session = q.session => r = q
      BY DEF MsgInv, StreamsAttended
  <2> QED BY <2>2, <2>3, <2>4 DEF StreamsAttended
<1>9. StacksMatch'
    BY DEF MsgInv, StacksMatch
<1> QED BY <1>2, <1>4, <1>5, <1>7, <1>8, <1>9 DEF MsgInv

\* The commands on sessions and members.
LEMMA SessionsKeep ==
    ASSUME MsgInv, NEW u \in Users, NEW s \in Sessions,
           CreateSession(u, s) \/ DeleteSession(u, s) \/ AddMember(u, s)
    PROVE  MsgInv'
<1>1. open' = open /\ stacks' = stacks /\ locks' = locks /\ turn' = turn /\ active' \in {active, NoOne}
    BY DEF CreateSession, DeleteSession, AddMember, messageVars, runVars
<1>2. files' = files \/ files' = [files EXCEPT ![s] = <<>>]
    BY DEF CreateSession, DeleteSession, AddMember, messageVars
<1>3. /\ files' \in [Sessions -> Seq(Records)]
      /\ \A z \in Sessions : files'[z] = files[z] \/ files'[z] = <<>>
  <2>1. files \in [Sessions -> Seq(Records)] /\ <<>> \in Seq(Records)
      BY DEF MsgInv, Types
  <2>2. files' \in [Sessions -> Seq(Records)]
      BY <1>2, <2>1
  <2>3. \A z \in Sessions : files'[z] = files[z] \/ files'[z] = <<>>
      BY <1>2, <2>1
  <2> QED BY <2>2, <2>3
<1>4. Queued' /\ (\A v \in Users : TurnOK(v)') /\ DOMAIN turn' = Users
    BY <1>1 DEF MsgInv, Types, Queued, TurnOK, Answering
<1>5. locks' \in [Sessions -> Seq(Users)] /\ active' \in Sessions \cup {NoOne}
    BY <1>1 DEF MsgInv, Types
<1>6. \A v \in Users : /\ turn'[v].n = turn[v].n /\ (Answering(v)' <=> Answering(v))
                       /\ (Answering(v) => turn'[v] = turn[v])
    BY <1>1 DEF Answering
<1> QED BY <1>1, <1>3, <1>4, <1>5, <1>6, CommandKeeps

\* A message is sent: the turn waits for the lock of its session.
LEMMA SendKeeps ==
    ASSUME MsgInv, NEW u \in Users, NEW s \in Sessions, SendUserMessage(u, s) PROVE MsgInv'
<1>1. /\ turn[u].pc = "idle" /\ open' = open /\ files' = files /\ stacks' = stacks /\ active' = active
      /\ locks' = [locks EXCEPT ![s] = Append(@, u)]
      /\ turn' = [turn EXCEPT ![u].pc = "waiting", ![u].session = s]
    BY DEF SendUserMessage, messageVars
<1>2. TurnOK(u)
    BY DEF MsgInv, Types
<1>3. DOMAIN turn' = Users /\ \A v \in Users : v # u => turn'[v] = turn[v]
    BY <1>1 DEF MsgInv, Types
<1>4. turn'[u] = [turn[u] EXCEPT !.pc = "waiting", !.session = s]
    BY <1>1 DEF MsgInv, Types
<1>5. /\ turn'[u].pc = "waiting" /\ turn'[u].session = s /\ turn'[u].n = turn[u].n
      /\ turn'[u].made = turn[u].made /\ turn'[u].msg = turn[u].msg
      /\ DOMAIN turn'[u] = {"pc", "session", "n", "made", "msg", "sub", "tracker"}
    BY <1>2, <1>4 DEF TurnOK
<1>6. ~Answering(u) /\ ~Answering(u)'
    BY <1>1, <1>5 DEF Answering
<1>7. \A v \in Users : /\ turn'[v].n = turn[v].n /\ (Answering(v)' <=> Answering(v))
                       /\ (Answering(v) => turn'[v] = turn[v])
    BY <1>3, <1>5, <1>6 DEF Answering
<1>8. \A v \in Users : TurnOK(v)'
  <2>1. TurnOK(u)'
      BY <1>2, <1>5, <1>6 DEF TurnOK, Stages
  <2> QED BY <1>3, <2>1 DEF MsgInv, Types, TurnOK, Answering
<1>9. /\ locks' \in [Sessions -> Seq(Users)] /\ Len(locks[s]) \in Nat
      /\ Len(locks'[s]) = Len(locks[s]) + 1 /\ locks'[s][Len(locks[s]) + 1] = u
      /\ \A i \in 1..Len(locks[s]) : locks'[s][i] = locks[s][i]
      /\ \A z \in Sessions : z # s => locks'[z] = locks[z]
  <2>1. locks[s] \in Seq(Users) /\ locks'[s] = Append(locks[s], u)
        /\ \A z \in Sessions : z # s => locks'[z] = locks[z]
      BY <1>1 DEF MsgInv, Types
  <2>2. locks' \in [Sessions -> Seq(Users)]
      BY <1>1 DEF MsgInv, Types
  <2> QED BY <2>1, <2>2
<1>10. Queued'
  <2>1. ASSUME NEW v \in Users, turn'[v].pc # "idle"
        PROVE  \E i \in 1..Len(locks'[turn'[v].session]) :
                  locks'[turn'[v].session][i] = v /\ (Answering(v)' => i = 1)
    <3>1. CASE v = u
      <4>1. Len(locks[s]) + 1 \in 1..Len(locks'[s])
          BY <1>9
      <4> QED BY <1>5, <1>6, <1>9, <3>1, <4>1
    <3>2. CASE v # u
      <4>1. turn'[v] = turn[v] /\ turn[v].pc # "idle"
          BY <1>3, <2>1, <3>2
      <4>2. turn[v].session \in Sessions
          BY <4>1 DEF MsgInv, Types, TurnOK
      <4>3. PICK i \in 1..Len(locks[turn[v].session]) :
               locks[turn[v].session][i] = v /\ (Answering(v) => i = 1)
          BY <4>1 DEF MsgInv, Queued
      <4>4. CASE turn[v].session = s
        <5>1. i \in 1..Len(locks'[s]) /\ locks'[s][i] = v
            BY <1>9, <4>3, <4>4
        <5> QED BY <1>7, <4>1, <4>3, <4>4, <5>1
      <4>5. CASE turn[v].session # s
          BY <1>7, <1>9, <4>1, <4>2, <4>3, <4>5
      <4> QED BY <4>4, <4>5
    <3> QED BY <3>1, <3>2
  <2> QED BY <2>1 DEF Queued
<1>11. /\ files' \in [Sessions -> Seq(Records)] /\ active' \in Sessions \cup {NoOne}
       /\ \A z \in Sessions : files'[z] = files[z] \/ files'[z] = <<>>
    BY <1>1 DEF MsgInv, Types
<1> QED BY <1>1, <1>3, <1>7, <1>8, <1>9, <1>10, <1>11, CommandKeeps

\* A question is filed last, and no text of its turn is before it.
LEMMA QuestionEnds ==
    ASSUME NEW f \in Seq(Records), NEW q \in Records, q.kind = "user", InOrder(f),
           \A i \in 1..Len(f) : f[i].id[1] # q.id[1]
    PROVE  InOrder(Append(f, q)) /\ Ends(Append(f, q), q.id[1])
<1> DEFINE g == Append(f, q)
           n == Len(f)
<1>1. /\ Len(g) = n + 1 /\ n \in Nat /\ g[n + 1] = q /\ \A i \in 1..n : g[i] = f[i]
    OBVIOUS
<1> HIDE DEF g, n
<1>2. ASSUME NEW i \in 1..Len(g), NEW j \in 1..Len(g), i < j, IsText(g[i]), IsText(g[j]),
             SameTurn(g[i], g[j])
      PROVE  g[j].kind = "text" /\ \A k \in i..j : IsText(g[k]) => SameTurn(g[i], g[k])
  <2>1. i \in 1..n /\ g[i] = f[i]
      BY <1>1, <1>2
  <2>2. j \in 1..n
      BY <1>1, <1>2, <2>1 DEF SameTurn, n
  <2>3. \A k \in i..j : k \in 1..n /\ g[k] = f[k]
      BY <1>1, <2>1, <2>2
  <2>4. g[j] = f[j]
      BY <1>1, <2>2
  <2>5. f[j].kind = "text" /\ \A k \in i..j : IsText(f[k]) => SameTurn(f[i], f[k])
      BY <1>2, <2>1, <2>2, <2>4 DEF InOrder, n
  <2> QED BY <2>1, <2>3, <2>4, <2>5
<1>3. InOrder(g)
    BY <1>2 DEF InOrder
<1>4. ASSUME NEW i \in 1..Len(g) PROVE \E j \in i..Len(g) : IsText(g[j]) /\ g[j].id[1] = q.id[1]
  <2>1. n + 1 \in i..Len(g)
      BY <1>1
  <2> QED BY <1>1, <2>1 DEF IsText
<1>5. Ends(g, q.id[1])
    BY <1>4 DEF Ends
<1> QED BY <1>3, <1>5 DEF g

\* One record is appended to the file of its session.
LEMMA FiledOne ==
    ASSUME NEW fs \in [Sessions -> Seq(Records)], NEW q \in Records
    PROVE  /\ Filed(fs, {q})[q.session] = Append(fs[q.session], q)
           /\ \A z \in Sessions : z # q.session => Filed(fs, {q})[z] = fs[z]
<1>1. q.session \in Sessions
    BY DEF Records
<1>2. {r \in {q} : r.session = q.session} = {q}
    OBVIOUS
<1>3. SetToSeq({q}) = <<q>>
  <2>1. IsFiniteSet({q}) /\ Cardinality({q}) = 1
      BY FS_Singleton
  <2>2. SetToSeq({q}) \in Seq({q}) /\ Len(SetToSeq({q})) = 1
      BY <2>1, Listed
  <2> DEFINE D == {q}
             x == SetToSeq({q})
  <2>3. x \in Seq(D) /\ Len(x) = 1
      BY <2>2
  <2> HIDE DEF x, D
  <2>4. \A i \in 1..Len(x) : x[i] \in D
      BY <2>3, ElementOfSeq
  <2>5. x[1] = q
      BY <2>3, <2>4 DEF D
  <2>6. <<q>> \in Seq(D) /\ Len(<<q>>) = 1 /\ <<q>>[1] = q
      BY DEF D
  <2>7. x = <<q>>
      BY <2>3, <2>5, <2>6, SeqEqual
  <2> QED BY <2>7 DEF x
<1>4. Filed(fs, {q})[q.session] = fs[q.session] \o <<q>>
    BY <1>1, <1>2, <1>3 DEF Filed
<1>5. fs[q.session] \o <<q>> = Append(fs[q.session], q)
  <2>1. fs[q.session] \in Seq(Records)
      BY <1>1
  <2> QED BY <2>1
<1>6. ASSUME NEW z \in Sessions, z # q.session PROVE Filed(fs, {q})[z] = fs[z]
  <2>1. {r \in {q} : r.session = z} = {} /\ {r \in {} : r.session = z} = {}
      BY <1>6
  <2>2. Filed(fs, {q})[z] = Filed(fs, {})[z]
      BY <2>1 DEF Filed
  <2> QED BY <2>2, FiledNone
<1> QED BY <1>4, <1>5, <1>6

\* The lock is granted: the question is filed and the answer begins.
LEMMA GrantKeeps == ASSUME MsgInv, NEW u \in Users, LockGranted(u) PROVE MsgInv'
<1> DEFINE s == turn[u].session
           t == <<u, turn[u].n + 1>>
<1>0. PICK q, m : q = Message(<<t, 1>>, u, s, "user") /\ m = Message(<<t, 2>>, Master, s, "text")
    OBVIOUS
<1>1. /\ turn[u].pc = "waiting" /\ Head(locks[s]) = u /\ active' = s
      /\ files' = Filed(files, {q}) /\ open' = open \cup {m} /\ stacks' = stacks /\ locks' = locks
      /\ turn' = [turn EXCEPT ![u] = [Quiet(turn[u].n + 1) EXCEPT !.pc = "streaming", !.session = s,
                                                                !.made = 2, !.msg = 2]]
    BY <1>0 DEF LockGranted
<1>2. TurnOK(u) /\ s \in Sessions /\ ~Answering(u) /\ turn[u].n \in Nat
    BY <1>1 DEF MsgInv, Types, TurnOK, Answering
<1>3. DOMAIN turn' = Users /\ \A v \in Users : v # u => turn'[v] = turn[v]
    BY <1>1 DEF MsgInv, Types
<1>4. turn'[u] = [Quiet(turn[u].n + 1) EXCEPT !.pc = "streaming", !.session = s, !.made = 2, !.msg = 2]
    BY <1>1 DEF MsgInv, Types
<1>5. /\ turn'[u].pc = "streaming" /\ turn'[u].n = turn[u].n + 1 /\ turn'[u].session = s
      /\ turn'[u].made = 2 /\ turn'[u].msg = 2
      /\ DOMAIN turn'[u] = {"pc", "session", "n", "made", "msg", "sub", "tracker"}
    BY <1>4 DEF Quiet
<1>6. Answering(u)' /\ CurrentMsg(u)' = <<t, 2>>
    BY <1>5 DEF Answering, CurrentMsg
<1>7. TurnOK(u)'
    BY <1>2, <1>5 DEF TurnOK, Stages
<1>8. /\ q.id = <<t, 1>> /\ q.agent = u /\ q.session = s /\ q.kind = "user"
      /\ m.id = <<t, 2>> /\ m.agent = Master /\ m.session = s /\ m.kind = "text"
    BY <1>0 DEF Message
<1>9. q \in Records /\ m \in Answers
  <2>1. /\ q = [id |-> q.id, agent |-> q.agent, session |-> q.session, kind |-> q.kind]
        /\ m = [id |-> m.id, agent |-> m.agent, session |-> m.session, kind |-> m.kind]
      BY <1>0 DEF Message
  <2>2. q.id \in Ids /\ m.id \in Ids /\ Master \in Agents
      BY <1>2, <1>8 DEF Ids, Agents
  <2> QED BY <1>2, <1>8, <2>1, <2>2 DEF Records, Answers
<1>10. /\ q.id[1] = <<u, turn[u].n + 1>> /\ q.id[2] = 1 /\ m.id[1] = <<u, turn[u].n + 1>> /\ m.id[2] = 2
       /\ q.id[1][1] = u /\ q.id[1][2] = turn[u].n + 1 /\ m.id[1][1] = u /\ m.id[1][2] = turn[u].n + 1
    BY <1>8
<1> HIDE DEF s, t
<1>11. ~Used(q.id) /\ ~Used(m.id) /\ Used(q.id)' /\ Used(m.id)'
    BY <1>2, <1>5, <1>10 DEF Used
<1>12. \A id \in Ids : Used(id) => Used(id)'
  <2>1. ASSUME NEW id \in Ids, Used(id) PROVE Used(id)'
    <3>1. id[1][1] \in Users /\ id[1][2] \in Nat
        BY DEF Ids
    <3>2. CASE id[1][1] = u
        BY <1>2, <1>5, <2>1, <3>1, <3>2 DEF Used
    <3>3. CASE id[1][1] # u
        BY <1>3, <2>1, <3>1, <3>3 DEF Used, Answering
    <3> QED BY <3>2, <3>3
  <2> QED BY <2>1
<1>13. /\ open' \in SUBSET Answers /\ IsFiniteSet(open') /\ files' \in [Sessions -> Seq(Records)]
       /\ Unique'
  <2>1. /\ {} \in SUBSET open /\ {m} \in SUBSET Answers /\ {q} \in SUBSET Records
        /\ IsFiniteSet({m}) /\ IsFiniteSet({q}) /\ Distinct({m}) /\ Distinct({q})
      BY <1>9, OneMessage
  <2>2. m.id # q.id
      BY <1>10
  <2>3. \A r \in {m}, z \in {q} : r.id # z.id
      BY <2>2
  <2>4. \A r \in {m} \cup {q} : ~Used(r.id) /\ Used(r.id)'
      BY <1>11
  <2>5. open' = (open \ {}) \cup {m} /\ files' = Filed(Filed(files, {q}), {})
      BY <1>1, <2>1, FiledShort DEF MsgInv
  <2> QED BY <1>12, <2>1, <2>3, <2>4, <2>5, MessagesKeepUnique DEF MsgInv
<1>14. locks[s][1] = u /\ \A v \in Users : Answering(v) => v # u /\ turn[v].session # s
  <2>1. locks[s] \in Seq(Users) /\ locks[s] # <<>>
    <3>1. PICK i \in 1..Len(locks[s]) : locks[s][i] = u
        BY <1>1 DEF MsgInv, Queued, s
    <3>2. locks[s] \in Seq(Users)
        BY <1>2 DEF MsgInv, Types
    <3> QED BY <3>1, <3>2
  <2>2. locks[s][1] = u
      BY <1>1, <2>1
  <2> QED BY <1>2, <2>2 DEF MsgInv, Queued, Answering
<1>15. Queued'
  <2>1. \E i \in 1..Len(locks[s]) : locks[s][i] = u /\ i = 1
    <3>1. PICK i \in 1..Len(locks[s]) : locks[s][i] = u
        BY <1>1 DEF MsgInv, Queued, s
    <3>2. locks[s] \in Seq(Users)
        BY <1>2 DEF MsgInv, Types
    <3>3. 1 \in 1..Len(locks[s])
        BY <3>1, <3>2
    <3> QED BY <1>14, <3>3
  <2>2. ASSUME NEW v \in Users, turn'[v].pc # "idle"
        PROVE  \E i \in 1..Len(locks'[turn'[v].session]) :
                  locks'[turn'[v].session][i] = v /\ (Answering(v)' => i = 1)
    <3>1. CASE v = u
        BY <1>1, <1>5, <2>1, <3>1
    <3>2. CASE v # u
      <4>1. turn'[v] = turn[v] /\ turn[v].pc # "idle" /\ (Answering(v)' <=> Answering(v))
          BY <1>3, <2>2, <3>2 DEF Answering
      <4> QED BY <1>1, <4>1 DEF MsgInv, Queued
    <3> QED BY <3>1, <3>2
  <2> QED BY <2>2 DEF Queued
<1>16. \A v \in Users : v # u => /\ (Answering(v)' <=> Answering(v)) /\ turn'[v] = turn[v]
                                 /\ CurrentMsg(v)' = CurrentMsg(v)
    BY <1>3 DEF Answering, CurrentMsg
<1>17. OrderOf(files)'
  <2>1. files \in [Sessions -> Seq(Records)] /\ files[s] \in Seq(Records)
      BY <1>2 DEF MsgInv, Types
  <2>2. files'[s] = Append(files[s], q) /\ \A z \in Sessions : z # s => files'[z] = files[z]
      BY <1>1, <1>8, <1>9, <2>1, FiledOne
  <2>3. \A i \in 1..Len(files[s]) : files[s][i].id[1] # q.id[1]
    <3>1. ASSUME NEW i \in 1..Len(files[s]) PROVE files[s][i].id[1] # q.id[1]
      <4>0. files[s][i] \in Records
          BY <2>1
      <4>1. files[s][i].id \in Ids
          BY <4>0 DEF Records
      <4>2. Has(files, files[s][i].id)
          BY <1>2 DEF Has
      <4>3. Used(files[s][i].id)
          BY <4>1, <4>2 DEF MsgInv, Unique
      <4> QED BY <1>2, <1>10, <4>3 DEF Used
    <3> QED BY <3>1
  <2>4. InOrder(files'[s]) /\ Ends(files'[s], q.id[1])
    <3>1. InOrder(files[s])
        BY <1>2 DEF MsgInv, OrderOf
    <3> QED BY <1>8, <1>9, <2>1, <2>2, <2>3, <3>1, QuestionEnds
  <2>5. ASSUME NEW z \in Sessions
        PROVE  /\ InOrder(files'[z])
               /\ \A v \in Users : Answering(v)' /\ turn'[v].session = z => Ends(files'[z], <<v, turn'[v].n>>)
    <3>1. CASE z = s
        BY <1>5, <1>10, <1>14, <1>16, <2>4, <3>1
    <3>2. CASE z # s
        BY <1>5, <1>16, <2>2, <3>2 DEF MsgInv, OrderOf
    <3> QED BY <3>1, <3>2
  <2> QED BY <2>5 DEF OrderOf
<1>18. \A r \in open : r.id # <<t, 2>>
    BY <1>8, <1>11 DEF MsgInv, Unique
<1>19. \A v \in Users : v # u => CurrentMsg(v) # <<t, 2>>
    BY DEF CurrentMsg, t
<1>20. Voices'
    BY <1>1, <1>6, <1>8, <1>16, <1>18, <1>19 DEF MsgInv, Voices
<1>21. StreamsAttended'
  <2>1. ASSUME NEW r \in open', r.kind = "text", r.agent = Master
        PROVE  \E v \in Users : Answering(v)' /\ r.id = CurrentMsg(v)' /\ r.session = turn'[v].session
    <3>1. CASE r = m
        BY <1>5, <1>6, <1>8, <3>1
    <3>2. CASE r \in open
      <4>1. PICK v \in Users : Answering(v) /\ r.id = CurrentMsg(v) /\ r.session = turn[v].session
          BY <2>1, <3>2 DEF MsgInv, StreamsAttended
      <4> QED BY <1>14, <1>16, <4>1
    <3> QED BY <1>1, <3>1, <3>2
  <2>2. ASSUME NEW r \in open', r.kind = "text", r.agent # Master
        PROVE  \E v \in Users : turn'[v].pc \in {"running", "subtool"} /\ turn'[v].sub = r.agent
    <3>1. r \in open
        BY <1>1, <1>8, <2>2
    <3>2. PICK v \in Users : turn[v].pc \in {"running", "subtool"} /\ turn[v].sub = r.agent
        BY <2>2, <3>1 DEF MsgInv, StreamsAttended
    <3> QED BY <1>1, <1>16, <3>2
  <2>3. \A r \in open : ~(r.kind = "text" /\ r.agent = Master /\ r.session = s)
      BY <1>14 DEF MsgInv, StreamsAttended
  <2>4. \A r, z \in open' :
           r.kind = "text" /\ z.kind = "text" /\ r.agent = z.agent /\ r.session = z.session => r = z
      BY <1>1, <1>8, <2>3 DEF MsgInv, StreamsAttended
  <2> QED BY <2>1, <2>2, <2>4 DEF StreamsAttended
<1>22. StacksMatch'
  <2>1. open' = (open \ {}) \cup {m} /\ {} \in SUBSET open /\ \A r \in {} \cup {m} : r.kind = "text"
      BY <1>1, <1>8
  <2> QED BY <1>1, <2>1, StacksStep DEF MsgInv
<1>23. Types'
  <2>1. \A v \in Users : TurnOK(v)'
      BY <1>3, <1>7 DEF MsgInv, Types, TurnOK, Answering
  <2> QED BY <1>1, <1>2, <1>3, <1>13, <2>1 DEF MsgInv, Types
<1> QED BY <1>13, <1>15, <1>17, <1>20, <1>21, <1>22, <1>23 DEF MsgInv

\* Without turns and open messages, histories are all there is to keep.
LEMMA AllQuiet ==
    ASSUME DOMAIN turn' = Users, \A v \in Users : \E n \in Nat : turn'[v] = Quiet(n),
           open' = {}, active' = NoOne, locks' = [s \in Sessions |-> <<>>], stacks' = [a \in Agents |-> <<>>],
           files' \in [Sessions -> Seq(Records)], Once(files'), \A s \in Sessions : InOrder(files'[s]),
           \A id \in Ids : Has(files', id) => id[1][2] <= turn'[id[1][1]].n
    PROVE  MsgInv'
<1>1. \A v \in Users : /\ turn'[v].pc = "idle" /\ turn'[v].n \in Nat /\ turn'[v].made = 0 /\ turn'[v].msg = 0
                       /\ DOMAIN turn'[v] = {"pc", "session", "n", "made", "msg", "sub", "tracker"}
    BY DEF Quiet
<1>2. \A v \in Users : ~Answering(v)' /\ TurnOK(v)'
    BY <1>1 DEF Answering, TurnOK, Stages
<1>3. Types'
  <2>1. open' \in SUBSET Answers /\ IsFiniteSet(open')
      BY FS_EmptySet
  <2>2. locks' \in [Sessions -> Seq(Users)] /\ stacks' \in [Agents -> Seq(Ids)]
    <3>1. <<>> \in Seq(Users) /\ <<>> \in Seq(Ids)
        OBVIOUS
    <3> QED BY <3>1
  <2> QED BY <1>2, <2>1, <2>2 DEF Types
<1>4. Queued' /\ Voices' /\ StreamsAttended'
    BY <1>1, <1>2 DEF Queued, Voices, StreamsAttended
<1>5. Unique'
  <2>1. \A id \in Ids : Has(files', id) => Used(id)'
      BY <1>2 DEF Used, Ids
  <2>2. (\A id \in Ids : Has(files, id) => Used(id))'
      BY <2>1 DEF Has
  <2>3. Once(files)' /\ Distinct(open)'
      BY DEF Once, Distinct
  <2> QED BY <2>2, <2>3 DEF Unique
<1>6. OrderOf(files)'
    BY <1>2 DEF OrderOf
<1>7. StacksMatch'
  <2>1. ToSet(<<>>) = {} /\ IsInjective(<<>>)
      BY DEF ToSet, IsInjective
  <2>2. \A a \in Agents : stacks'[a] = <<>>
      OBVIOUS
  <2> QED BY <2>1, <2>2 DEF StacksMatch
<1> QED BY <1>3, <1>4, <1>5, <1>6, <1>7 DEF MsgInv

\* The first start, with no history.
LEMMA GuiStarts == GuiInit => MsgInv
<1> SUFFICES ASSUME GuiInit PROVE MsgInv
    OBVIOUS
<1>1. /\ files = [s \in Sessions |-> <<>>] /\ open = {} /\ active = NoOne
      /\ locks = [s \in Sessions |-> <<>>] /\ turn = [u \in Users |-> Quiet(0)]
      /\ stacks = [a \in Agents |-> <<>>]
    BY DEF GuiInit
<1>2. \A v \in Users : /\ turn[v].pc = "idle" /\ turn[v].n = 0 /\ turn[v].made = 0 /\ turn[v].msg = 0
                       /\ DOMAIN turn[v] = {"pc", "session", "n", "made", "msg", "sub", "tracker"}
    BY <1>1 DEF Quiet
<1>3. \A v \in Users : ~Answering(v) /\ TurnOK(v)
    BY <1>2 DEF Answering, TurnOK, Stages
<1>4. \A s \in Sessions : files[s] = <<>> /\ \A i \in 1..Len(files[s]) : FALSE
    BY <1>1
<1>5. Types
  <2>1. <<>> \in Seq(Users) /\ <<>> \in Seq(Ids) /\ <<>> \in Seq(Records) /\ IsFiniteSet({})
      BY FS_EmptySet
  <2> QED BY <1>1, <1>3, <2>1 DEF Types
<1>6. Queued /\ Voices /\ StreamsAttended
    BY <1>1, <1>2, <1>3 DEF Queued, Voices, StreamsAttended
<1>7. Unique
    BY <1>1, <1>4 DEF Unique, Once, Distinct, Has
<1>8. OrderOf(files)
    BY <1>3, <1>4 DEF OrderOf, InOrder
<1>9. StacksMatch
  <2>1. ToSet(<<>>) = {} /\ IsInjective(<<>>)
      BY DEF ToSet, IsInjective
  <2>2. \A a \in Agents : stacks[a] = <<>>
      BY <1>1
  <2> QED BY <1>1, <2>1, <2>2 DEF StacksMatch
<1> QED BY <1>5, <1>6, <1>7, <1>8, <1>9 DEF MsgInv

\* A restart forgets the turns and keeps the histories, but for one that a
\* deletion had removed.
LEMMA RestartKeeps == ASSUME MsgInv, Restart PROVE MsgInv'
<1>1. /\ open' = {} /\ active' = NoOne /\ locks' = [s \in Sessions |-> <<>>]
      /\ stacks' = [a \in Agents |-> <<>>] /\ turn' = [u \in Users |-> Quiet(turn[u].n)]
    BY DEF Restart
<1>2. DOMAIN turn' = Users /\ \A v \in Users : turn[v].n \in Nat /\ turn'[v] = Quiet(turn[v].n)
    BY <1>1 DEF MsgInv, Types, TurnOK
<1>3. files' = files \/ \E s \in live : files' = [files EXCEPT ![s] = <<>>]
    BY DEF Restart
<1>4. /\ files' \in [Sessions -> Seq(Records)]
      /\ \A z \in Sessions : files'[z] = files[z] \/ files'[z] = <<>>
  <2>1. files \in [Sessions -> Seq(Records)] /\ <<>> \in Seq(Records)
      BY DEF MsgInv, Types
  <2>2. files' \in [Sessions -> Seq(Records)]
      BY <1>3, <2>1
  <2>3. \A z \in Sessions : files'[z] = files[z] \/ files'[z] = <<>>
      BY <1>3, <2>1
  <2> QED BY <2>2, <2>3
<1>5. /\ Once(files') /\ (\A id : Has(files', id) => Has(files, id)) /\ \A s \in Sessions : InOrder(files'[s])
    BY <1>4, Erased DEF MsgInv
<1>6. \A id \in Ids : Has(files', id) => id[1][2] <= turn'[id[1][1]].n
  <2>1. ASSUME NEW id \in Ids, Has(files', id) PROVE id[1][2] <= turn'[id[1][1]].n
    <3>1. Used(id) /\ id[1][1] \in Users
        BY <1>5, <2>1 DEF MsgInv, Unique, Ids
    <3>2. turn'[id[1][1]].n = turn[id[1][1]].n
        BY <1>2, <3>1 DEF Quiet
    <3> QED BY <3>1, <3>2 DEF Used
  <2> QED BY <2>1
<1> QED BY <1>1, <1>2, <1>4, <1>5, <1>6, AllQuiet
-----------------------------------------------------------------------------
\* What is on disk is up to date, and every member has its card.
Kept ==
    /\ live \subseteq Sessions /\ DOMAIN members = Sessions
    /\ saved = StateOf(live, members, cards)
    /\ \A s \in Sessions : members[s] \subseteq cards
    /\ gone \cap live = {}

\* A tracker counts at most one announcement.
Told ==
    /\ DOMAIN progress = Turns
    /\ \A t \in Turns : DOMAIN progress[t] = {"steps", "told"} /\ progress[t].told \in {0, 1}

GuiInv == MsgInv /\ Kept /\ Told

\* A new sub-agent is saved with its card and its session.
LEMMA CreatedKeeps == ASSUME Kept, NEW session, Created(session), gone' = gone PROVE Kept'
<1>1. PICK a : /\ cards' = cards \cup {a} /\ live' = live
               /\ members' = IF session \in live THEN [members EXCEPT ![session] = @ \cup {a}] ELSE members
               /\ saved' = StateOf(live, members', cards')
    BY DEF Created, JoinsSession
<1>2. DOMAIN members' = Sessions /\ \A s \in Sessions : members'[s] \subseteq cards'
    BY <1>1 DEF Kept
<1> QED BY <1>1, <1>2 DEF Kept

\* So every step of the server keeps the disk.
LEMMA DiskKept == ASSUME Kept, [GuiNext]_guiVars PROVE Kept'
<1>1. CASE UNCHANGED <<stateVars, gone>>
    BY <1>1 DEF Kept, stateVars
<1>2. ASSUME NEW u \in Users, Advance(u) PROVE Kept'
  <2>1. CASE StreamEnds(u) \/ StreamRaises(u)
      BY <2>1 DEF StreamEnds, StreamRaises, LeaveTurn, Kept
  <2>2. CASE CreateTool(u)
    <3>1. gone' = gone /\ (UNCHANGED stateVars \/ Created(active))
        BY <2>2 DEF CreateTool
    <3> QED BY <1>1, <3>1, CreatedKeeps
  <2>3. CASE LockGranted(u) \/ ToolReturns(u) \/ RunTool(u) \/ SubReturns(u) \/ RunEnds(u) \/ RunRaises(u)
      BY <1>1, <2>3 DEF LockGranted, ToolReturns, RunTool, SubReturns, RunEnds, RunRaises, AfterTool
  <2> QED BY <1>2, <2>1, <2>2, <2>3 DEF Advance
<1>3. ASSUME NEW u \in Users, Chunk(u) \/ CallTool(u) \/ SubCall(u) \/ AgentDelta(u) PROVE Kept'
    BY <1>1, <1>3 DEF Chunk, CallTool, SubCall, AgentDelta, BeforeTool
<1>4. ASSUME NEW u \in Users, NEW s \in Sessions,
             CreateSession(u, s) \/ DeleteSession(u, s) \/ AddMember(u, s) \/ SendUserMessage(u, s)
      PROVE  Kept'
  <2>1. CASE CreateSession(u, s)
      BY <2>1 DEF CreateSession, Kept
  <2>2. CASE DeleteSession(u, s)
      BY <2>2 DEF DeleteSession, Kept
  <2>3. CASE AddMember(u, s)
    <3>1. gone' = gone /\ (UNCHANGED stateVars \/ Created(s))
        BY <2>3 DEF AddMember
    <3> QED BY <1>1, <3>1, CreatedKeeps
  <2>4. CASE SendUserMessage(u, s)
      BY <1>1, <2>4 DEF SendUserMessage
  <2> QED BY <1>4, <2>1, <2>2, <2>3, <2>4
<1>5. CASE Restart
    BY <1>5 DEF Restart, Kept, StateOf
<1> QED BY <1>1, <1>2, <1>3, <1>4, <1>5 DEF GuiNext, guiVars

\* ... and announces a workflow once.
LEMMA ToldKept == ASSUME Told, [GuiNext]_guiVars PROVE Told'
<1>1. CASE UNCHANGED progress
    BY <1>1 DEF Told
<1>2. \A t, a : progress' = OnCreate(t, a) => Told'
  <2>1. ASSUME NEW t, NEW a, progress' = OnCreate(t, a) PROVE Told'
    <3>1. /\ DOMAIN progress' = DOMAIN progress
          /\ \A x \in Turns : progress'[x] = progress[x]
               \/ progress'[x] = [progress[x] EXCEPT !.steps[a] = IF @ = "none" THEN "pending" ELSE @]
        BY <2>1 DEF OnCreate, Told
    <3> QED BY <3>1 DEF Told
  <2> QED BY <2>1
<1>3. \A t, a : progress' = OnStart(t, a) => Told'
  <2>1. ASSUME NEW t, NEW a, progress' = OnStart(t, a) PROVE Told'
    <3>1. /\ DOMAIN progress' = DOMAIN progress
          /\ \A x \in Turns : progress'[x] = progress[x]
               \/ progress'[x] = [progress[x] EXCEPT !.steps[a] = IF @ = "pending" THEN "running" ELSE @]
        BY <2>1 DEF OnStart, Told
    <3> QED BY <3>1 DEF Told
  <2> QED BY <2>1
<1>4. \A t, a, how : progress' = OnDone(t, a, how) => Told'
  <2>1. ASSUME NEW t, NEW a, NEW how, progress' = OnDone(t, a, how) PROVE Told'
    <3>1. CASE progress' = progress
        BY <1>1, <3>1
    <3>2. CASE progress' # progress
      <4>1. PICK steps, done : progress' = [progress EXCEPT ![t] =
                                  [steps |-> steps, told |-> IF done /\ @.told = 0 THEN 1 ELSE @.told]]
          BY <2>1, <3>2 DEF OnDone
      <4>2. /\ DOMAIN progress' = DOMAIN progress
            /\ \A x \in Turns : progress'[x] = progress[x]
                 \/ progress'[x] = [steps |-> steps,
                                    told |-> IF done /\ progress[x].told = 0 THEN 1 ELSE progress[x].told]
          BY <4>1 DEF Told
      <4> QED BY <4>2 DEF Told
    <3> QED BY <3>1, <3>2
  <2> QED BY <2>1
<1>5. ASSUME NEW u \in Users, Advance(u) PROVE Told'
  <2>1. CASE CreateTool(u)
      BY <1>1, <1>2, <2>1 DEF CreateTool
  <2>2. CASE RunTool(u)
      BY <1>1, <1>3, <2>2 DEF RunTool
  <2>3. CASE RunEnds(u)
      BY <1>4, <2>3 DEF RunEnds
  <2>4. CASE \/ LockGranted(u) \/ ToolReturns(u) \/ SubReturns(u) \/ RunRaises(u)
             \/ StreamEnds(u) \/ StreamRaises(u)
      BY <1>1, <2>4 DEF LockGranted, ToolReturns, SubReturns, RunRaises, StreamEnds, StreamRaises,
                        AfterTool, runVars
  <2> QED BY <1>5, <2>1, <2>2, <2>3, <2>4 DEF Advance
<1>6. ASSUME NEW u \in Users, Chunk(u) \/ CallTool(u) \/ SubCall(u) \/ AgentDelta(u) PROVE Told'
    BY <1>1, <1>6 DEF Chunk, CallTool, SubCall, AgentDelta, BeforeTool, runVars
<1>7. ASSUME NEW u \in Users, NEW s \in Sessions,
             CreateSession(u, s) \/ DeleteSession(u, s) \/ AddMember(u, s) \/ SendUserMessage(u, s)
      PROVE  Told'
    BY <1>1, <1>7 DEF CreateSession, DeleteSession, AddMember, SendUserMessage, runVars
<1>8. CASE Restart
    BY <1>8 DEF Restart, Told, NewTracker
<1> QED BY <1>1, <1>5, <1>6, <1>7, <1>8 DEF GuiNext, guiVars, runVars

\* Every step keeps what concerns messages, streams and turns.
LEMMA MessagesKept == ASSUME MsgInv, [GuiNext]_guiVars PROVE MsgInv'
<1>1. CASE UNCHANGED guiVars
  <2>1. /\ open' = open /\ files' = files /\ stacks' = stacks /\ locks' = locks /\ active' = active
        /\ turn' = turn
      BY <1>1 DEF guiVars, messageVars, runVars
  <2>2. Queued' /\ (\A v \in Users : TurnOK(v)') /\ DOMAIN turn' = Users
      BY <2>1 DEF MsgInv, Types, Queued, TurnOK, Answering
  <2>3. /\ locks' \in [Sessions -> Seq(Users)] /\ active' \in Sessions \cup {NoOne}
        /\ files' \in [Sessions -> Seq(Records)]
      BY <2>1 DEF MsgInv, Types
  <2>4. \A v \in Users : /\ turn'[v].n = turn[v].n /\ (Answering(v)' <=> Answering(v))
                         /\ (Answering(v) => turn'[v] = turn[v])
      BY <2>1 DEF Answering
  <2>5. \A z \in Sessions : files'[z] = files[z] \/ files'[z] = <<>>
      BY <2>1
  <2> QED BY <2>1, <2>2, <2>3, <2>4, <2>5, CommandKeeps
<1>2. ASSUME NEW u \in Users, Advance(u) PROVE MsgInv'
    BY <1>2, GrantKeeps, CallsKeep, ToolsKeep, RunsKeep, EndsKeep DEF Advance
<1>3. ASSUME NEW u \in Users, Chunk(u) \/ CallTool(u) \/ SubCall(u) \/ AgentDelta(u) PROVE MsgInv'
    BY <1>3, ChunkKeeps, CallsKeep, DeltaKeeps
<1>4. ASSUME NEW u \in Users, NEW s \in Sessions,
             CreateSession(u, s) \/ DeleteSession(u, s) \/ AddMember(u, s) \/ SendUserMessage(u, s)
      PROVE  MsgInv'
    BY <1>4, SessionsKeep, SendKeeps
<1>5. CASE Restart
    BY <1>5, RestartKeeps
<1> QED BY <1>1, <1>2, <1>3, <1>4, <1>5 DEF GuiNext

\* With all of it the users find what they should.
LEMMA InvGivesGui == GuiInv => GuiSound
<1> SUFFICES ASSUME GuiInv PROVE GuiSound
    OBVIOUS
<1>1. FiledOnce
  <2>1. \A s \in Sessions : ToSet(files[s]) = {files[s][i] : i \in 1..Len(files[s])}
      BY DEF GuiInv, MsgInv, Types, ToSet
  <2>2. \A s \in Sessions : \A i, j \in 1..Len(files[s]) : files[s][i].id = files[s][j].id => i = j
      BY DEF GuiInv, MsgInv, Unique, Once
  <2>3. \A r \in AllFiled : ~IsOpen(r.id)
    <3>1. ASSUME NEW r \in AllFiled, IsOpen(r.id) PROVE FALSE
      <4>1. PICK s \in Sessions : r \in ToSet(files[s])
          BY DEF AllFiled
      <4>2. Has(files, r.id)
          BY <2>1, <4>1 DEF Has
      <4> QED BY <3>1, <4>2 DEF GuiInv, MsgInv, Unique, IsOpen
    <3> QED BY <3>1
  <2>4. \A s, z \in Sessions : s # z => \A r \in ToSet(files[s]), q \in ToSet(files[z]) : r.id # q.id
    <3>1. ASSUME NEW s \in Sessions, NEW z \in Sessions, s # z,
                 NEW r \in ToSet(files[s]), NEW q \in ToSet(files[z])
          PROVE  r.id # q.id
      <4>1. PICK i \in 1..Len(files[s]) : r = files[s][i]
          BY <2>1
      <4>2. PICK j \in 1..Len(files[z]) : q = files[z][j]
          BY <2>1
      <4> QED BY <3>1, <4>1, <4>2 DEF GuiInv, MsgInv, Unique, Once
    <3> QED BY <3>1
  <2> QED BY <2>2, <2>3, <2>4 DEF FiledOnce
<1>2. TurnsInOrder /\ StreamsAttended /\ StacksMatch
    BY DEF GuiInv, MsgInv, OrderOf, TurnsInOrder
<1>3. SavedSound /\ CompleteOnce
    BY DEF GuiInv, Kept, Told, SavedSound, CompleteOnce
<1> QED BY <1>1, <1>2, <1>3 DEF GuiSound

\* What the users of the GUI find in their sessions, whatever turns, tool
\* calls, deletions and restarts come between.
THEOREM GuiHolds == GuiSpec => []GuiSound
<1>1. GuiInit => GuiInv
  <2>1. GuiInit => Kept
      BY BridgeAssumption DEF BridgeAssumption, GuiInit, Kept
  <2>2. GuiInit => Told
      BY DEF GuiInit, Told, NewTracker
  <2> QED BY <2>1, <2>2, GuiStarts DEF GuiInv
<1>2. GuiInv /\ [GuiNext]_guiVars => GuiInv'
    BY MessagesKept, DiskKept, ToldKept DEF GuiInv
<1> QED BY <1>1, <1>2, InvGivesGui, PTL DEF GuiSpec
=============================================================================
