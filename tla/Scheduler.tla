------------------------------ MODULE Scheduler ------------------------------
(***************************************************************************)
(* HeartbeatScheduler (youmi/scheduler/__init__.py) with its default       *)
(* handler, and the life cycle of the one Agent it drives (initialize and  *)
(* run of youmi/core/agent.py).  A loop is the asyncio.Task that start()   *)
(* makes for a task name, named by the name and the number of the start;   *)
(* number 0 is the manual run_once of the name.  A job is one _TaskState   *)
(* object: removing a task and adding its name again makes another one.    *)
(***************************************************************************)
EXTENDS Naturals, FiniteSets

CONSTANTS Names, Jobs,
          NameOf,      \* ScheduledTask.name
          Periodic,    \* jobs with interval_seconds > 0
          Delayed,     \* jobs with delay_seconds > 0
          MaxRuns,     \* ScheduledTask.max_runs, 0 for no limit
          MaxStarts,   \* bound: calls of start()
          Manual,      \* bound: names of which run_once is called
          None

ASSUME SchedulerAssumption ==
    /\ NameOf \in [Jobs -> Names] /\ MaxRuns \in [Jobs -> Nat]
    /\ Periodic \subseteq Jobs /\ Delayed \subseteq Jobs
    /\ MaxStarts \in Nat /\ Manual \subseteq Names
    /\ None \notin Jobs

VARIABLES
    tasks,    \* _tasks
    made,     \* jobs created so far
    removed,  \* jobs whose _cancelled is set
    enabled,  \* jobs whose task is enabled
    runs,     \* run_count, cut off at max_runs (no test tells more apart)
    looped,   \* history: runs begun by loops, cut off above max_runs
    running,  \* _running
    starts,   \* calls of start() so far
    tracked,  \* _background_tasks
    pc, job,  \* of a loop or a run_once: where it is, its local `state`
    status,   \* Agent._status
    stopping, \* progress of stop(): "no", "waiting" or "cancelling"
    waitFor,  \* the loops stop() waits for, then the pending ones
    late,     \* history: tasks added or enabled since the last start()
    doubled,  \* history: two initialize() of the Agent have overlapped
    spoiled,  \* history: run() was left outside its try by an exception
    missed    \* history: loops started while stop() was waiting

jobVars   == <<tasks, made, removed, enabled>>
countVars == <<runs, looped>>
stopVars  == <<running, starts, tracked, stopping, waitFor>>
history   == <<late, doubled, spoiled, missed>>
vars == <<jobVars, countVars, stopVars, pc, job, status, history>>

Procs == Names \X (0..MaxStarts)
Loops == Names \X (1..MaxStarts)

\* Inside Agent.run(): before the ReAct loop's try, in it, and after it.
Turn == {"prep", "react"}
Executing == {"init", "closing"} \cup Turn
Live == Executing \cup {"created", "delay", "sleep"}
-----------------------------------------------------------------------------
\* Mutant: _cancelled is not looked at.
Complete_NotRemoved(s) == s \notin enabled \/ (MaxRuns[s] > 0 /\ runs[s] >= MaxRuns[s])

\* _TaskState.is_complete
Complete(s) ==
    \/ s \in removed \/ s \notin enabled
    \/ MaxRuns[s] > 0 /\ runs[s] >= MaxRuns[s]

\* add_task: a name that exists is refused.
AddTask(s) ==
    /\ s \notin made /\ tasks[NameOf[s]] = None
    /\ tasks' = [tasks EXCEPT ![NameOf[s]] = s]
    /\ made' = made \cup {s} /\ enabled' = enabled \cup {s}
    /\ late' = IF running THEN late \cup {s} ELSE late
    /\ UNCHANGED <<removed, countVars, stopVars, pc, job, status, doubled, spoiled, missed>>

\* remove_task: a loop of the job finds it complete.
RemoveTask(n) ==
    /\ tasks[n] # None
    /\ tasks' = [tasks EXCEPT ![n] = None]
    /\ removed' = removed \cup {tasks[n]}
    /\ late' = late \ {tasks[n]}
    /\ UNCHANGED <<made, enabled, countVars, stopVars, pc, job, status, doubled, spoiled, missed>>

\* enable_task
EnableTask(n, on) ==
    /\ tasks[n] # None
    /\ on # (tasks[n] \in enabled)
    /\ late' = IF on /\ running THEN late \cup {tasks[n]} ELSE late \ {tasks[n]}
    /\ enabled' = IF on THEN enabled \cup {tasks[n]} ELSE enabled \ {tasks[n]}
    /\ UNCHANGED <<tasks, made, removed, countVars, stopVars, pc, job, status,
                   doubled, spoiled, missed>>
-----------------------------------------------------------------------------
(* _execute_task and Agent.run *)

\* Where a process goes on after an execution: a loop sleeps for its
\* interval while the scheduler runs; a single-shot loop or run_once ends.
After(p, s) == IF p \in Loops /\ s \in Periodic /\ running THEN "sleep" ELSE "done"

Goto(p, where) == pc' = [pc EXCEPT ![p] = where]

\* run_count += 1, at the start of _execute_task, skipped or not.
Count(p, s) ==
    /\ runs' = [runs EXCEPT ![s] = IF @ < MaxRuns[s] THEN @ + 1 ELSE @]
    /\ looped' = [looped EXCEPT ![s] =
                     IF p \in Loops /\ 0 < MaxRuns[s] /\ @ <= MaxRuns[s] THEN @ + 1 ELSE @]

\* Mutant: a busy Agent is not skipped.
Execute_Busy(p, s) ==
    /\ Count(p, s)
    /\ UNCHANGED doubled
    /\ \/ status = "created" /\ Goto(p, "init") /\ UNCHANGED status
       \/ status \in {"idle", "running"} /\ status' = "running" /\ Goto(p, "prep")
       \/ status \notin {"created", "idle", "running"} /\ Goto(p, After(p, s)) /\ UNCHANGED status

\* Up to the first await: an Agent just created is initialised first; a
\* RUNNING one is skipped; run() sets RUNNING, or raises if the Agent is
\* not IDLE.
Execute(p, s) ==
    /\ Count(p, s)
    /\ doubled' = (doubled \/ (status = "created" /\ \E q \in Procs : pc[q] = "init"))
    /\ \/ status = "created" /\ Goto(p, "init") /\ UNCHANGED status
       \/ status = "idle" /\ status' = "running" /\ Goto(p, "prep")
       \/ status \notin {"created", "idle"} /\ Goto(p, After(p, s)) /\ UNCHANGED status

\* initialize() returns: IDLE, and on to run() without an await.
Initialised(p) ==
    /\ pc[p] = "init"
    /\ status' = "running" /\ Goto(p, "prep")
    /\ UNCHANGED <<jobVars, countVars, stopVars, job, history>>

\* on_start, the self-check and the first memory entry are done.
Prepared(p) ==
    /\ pc[p] = "prep" /\ Goto(p, "react")
    /\ UNCHANGED <<jobVars, countVars, stopVars, job, status, history>>

\* The ReAct loop ends with an answer, its budget used up, or an exception.
ReactEnds(p) ==
    /\ pc[p] = "react" /\ Goto(p, "closing")
    /\ status' \in {"completed", "failed"}
    /\ UNCHANGED <<jobVars, countVars, stopVars, job, history>>

\* on_stop and on_session_end are done: run() returns, and _execute_task
\* makes the Agent IDLE again.
RunReturns(p) ==
    /\ pc[p] = "closing" /\ Goto(p, After(p, job[p]))
    /\ status' = IF status \in {"completed", "failed"} THEN "idle" ELSE status
    /\ UNCHANGED <<jobVars, countVars, stopVars, job, history>>

\* A hook or the memory raises outside the try of run(): the exception
\* leaves _execute_task with the status as it is.
HookRaises(p) ==
    /\ pc[p] \in {"init", "prep", "closing"}
    /\ Goto(p, After(p, job[p]))
    /\ spoiled' = (spoiled \/ pc[p] # "init")
    /\ UNCHANGED <<jobVars, countVars, stopVars, job, status, late, doubled, missed>>
-----------------------------------------------------------------------------
(* Loops and the manual run *)

\* The head of the while loop of _run_task_loop.
LoopTop(p, s) ==
    \/ running /\ ~Complete(s) /\ Execute(p, s)
    \/ (~running \/ Complete(s)) /\ Goto(p, "done") /\ UNCHANGED <<countVars, status, doubled>>

\* The loop's first step: it looks its name up, which may be gone.
LoopStarts(p) ==
    /\ pc[p] = "created"
    /\ LET s == tasks[p[1]] IN
       /\ job' = [job EXCEPT ![p] = s]
       /\ \/ s = None /\ Goto(p, "done") /\ UNCHANGED <<countVars, status, doubled>>
          \/ s \in Delayed /\ Goto(p, "delay") /\ UNCHANGED <<countVars, status, doubled>>
          \/ s \in Jobs \ Delayed /\ LoopTop(p, s)
    /\ UNCHANGED <<jobVars, stopVars, late, spoiled, missed>>

\* The delay or the interval is over.
Wakes(p) ==
    /\ pc[p] \in {"delay", "sleep"}
    /\ LoopTop(p, job[p])
    /\ UNCHANGED <<jobVars, stopVars, job, late, spoiled, missed>>

\* run_once looks at no flag and no limit.
RunOnce(n) ==
    LET p == <<n, 0>> IN
    /\ tasks[n] # None /\ pc[p] = "none"
    /\ job' = [job EXCEPT ![p] = tasks[n]]
    /\ Execute(p, tasks[n])
    /\ UNCHANGED <<jobVars, stopVars, late, spoiled, missed>>
-----------------------------------------------------------------------------
(* start and stop *)

\* A loop for every enabled task that is not complete.
Start ==
    LET new == {<<n, starts + 1>> : n \in {m \in Names : tasks[m] # None /\ ~Complete(tasks[m])}} IN
    /\ ~running /\ starts < MaxStarts
    /\ running' = TRUE /\ starts' = starts + 1
    /\ tracked' = tracked \cup new
    /\ pc' = [p \in Procs |-> IF p \in new THEN "created" ELSE pc[p]]
    /\ late' = {}
    /\ missed' = IF stopping = "no" THEN missed ELSE missed \cup new
    /\ UNCHANGED <<jobVars, countVars, job, status, stopping, waitFor, doubled, spoiled>>

\* stop() up to asyncio.wait; without loops it returns at once.
Stop ==
    /\ running /\ stopping = "no"
    /\ running' = FALSE
    /\ waitFor' = tracked
    /\ stopping' = IF tracked = {} THEN "no" ELSE "waiting"
    /\ UNCHANGED <<jobVars, countVars, starts, tracked, pc, job, status, history>>

\* asyncio.wait returns when all loops have ended or, some being left, the
\* timeout has passed.
WaitOver ==
    /\ stopping = "waiting"
    /\ stopping' = "cancelling"
    /\ waitFor' = {p \in waitFor : pc[p] # "done"}
    /\ UNCHANGED <<jobVars, countVars, running, starts, tracked, pc, job, status, history>>

\* Mutant: the pending loop is awaited without being cancelled.
CancelOne_OnlyAwaits(p) ==
    /\ stopping = "cancelling" /\ p \in waitFor /\ pc[p] = "done"
    /\ waitFor' = waitFor \ {p}
    /\ UNCHANGED <<jobVars, countVars, running, starts, tracked, stopping, pc, job, status, history>>

\* The next pending loop is cancelled and awaited.  CancelledError ends it
\* at its await; only the try of run() makes the Agent IDLE again.
CancelOne(p) ==
    /\ stopping = "cancelling" /\ p \in waitFor
    /\ waitFor' = waitFor \ {p}
    /\ Goto(p, "done")
    /\ status' = IF pc[p] = "react" THEN "idle" ELSE status
    /\ spoiled' = (spoiled \/ pc[p] \in {"prep", "closing"})
    /\ UNCHANGED <<jobVars, countVars, running, starts, tracked, stopping, job,
                   late, doubled, missed>>

\* The list is cleared, whatever start() has appended meanwhile.
StopReturns ==
    /\ stopping = "cancelling" /\ waitFor = {}
    /\ stopping' = "no" /\ tracked' = {}
    /\ UNCHANGED <<jobVars, countVars, running, starts, waitFor, pc, job, status, history>>
-----------------------------------------------------------------------------
Init ==
    /\ tasks = [n \in Names |-> None]
    /\ made = {} /\ removed = {} /\ enabled = {}
    /\ runs = [s \in Jobs |-> 0] /\ looped = [s \in Jobs |-> 0]
    /\ running = FALSE /\ starts = 0 /\ tracked = {}
    /\ pc = [p \in Procs |-> "none"] /\ job = [p \in Procs |-> None]
    /\ status = "created"
    /\ stopping = "no" /\ waitFor = {}
    /\ late = {} /\ doubled = FALSE /\ spoiled = FALSE /\ missed = {}

Next ==
    \/ \E s \in Jobs : AddTask(s)
    \/ \E n \in Names : RemoveTask(n) \/ \E on \in BOOLEAN : EnableTask(n, on)
    \/ \E n \in Manual : RunOnce(n)
    \/ \E p \in Procs :
          \/ Initialised(p) \/ Prepared(p) \/ ReactEnds(p) \/ RunReturns(p) \/ HookRaises(p)
          \/ LoopStarts(p) \/ Wakes(p) \/ CancelOne(p)
    \/ Start \/ Stop \/ WaitOver \/ StopReturns

\* Timers fire, ready coroutines are resumed, and every stage of run() ends
\* (the LLM client and the tools have timeouts).
Fairness ==
    /\ WF_vars(WaitOver) /\ WF_vars(StopReturns)
    /\ \A p \in Procs :
          /\ WF_vars(CancelOne(p))
          /\ WF_vars(\/ Initialised(p) \/ Prepared(p) \/ ReactEnds(p) \/ RunReturns(p)
                     \/ LoopStarts(p) \/ Wakes(p))

Spec == Init /\ [][Next]_vars

FairSpec == Spec /\ Fairness
-----------------------------------------------------------------------------
(* Properties *)

JobsOK ==
    /\ tasks \in [Names -> made \cup {None}]
    /\ made \subseteq Jobs /\ removed \subseteq made /\ enabled \subseteq made
    /\ late \subseteq made

CountersOK ==
    /\ runs \in [Jobs -> Nat] /\ looped \in [Jobs -> Nat]
    /\ \A s \in Jobs : runs[s] <= MaxRuns[s] /\ looped[s] <= MaxRuns[s]

LoopsOK ==
    /\ starts \in 0..MaxStarts
    /\ stopping \in {"no", "waiting", "cancelling"}
    /\ tracked \subseteq Loops /\ waitFor \subseteq Loops /\ missed \subseteq Loops

ProcsOK ==
    /\ pc \in [Procs -> Live \cup {"none", "done"}]
    /\ job \in [Procs -> Jobs \cup {None}]
    /\ status \in {"created", "idle", "running", "completed", "failed"}

FlagsOK == running \in BOOLEAN /\ doubled \in BOOLEAN /\ spoiled \in BOOLEAN

\* Every variable stays in its range; a job's loops never begin more than
\* max_runs executions, whoever else runs it.
TypeOK == JobsOK /\ CountersOK /\ LoopsOK /\ ProcsOK /\ FlagsOK

\* "If the Agent is running, skip": one Agent never executes two runs at a
\* time, whichever loops and manual runs wake it, once two concurrent
\* initialisations are ruled out.
OneRunAtATime ==
    doubled \/ \A p, q \in Procs : pc[p] \in Turn /\ pc[q] \in Turn => p = q

\* When nothing executes, the Agent can execute the next heartbeat, unless
\* run() was left by an exception or a cancellation outside its try.
AgentAvailable ==
    (\A p \in Procs : pc[p] \notin Executing) => status \in {"created", "idle"} \/ spoiled

\* stop() waits for the running tasks: when it has returned, and until the
\* next start(), only loops are left that were started while it waited.
StopIsComplete ==
    ~running /\ stopping = "no" => \A p \in Loops \ missed : pc[p] \notin Live

\* While the scheduler runs, each periodic task that start() found and that
\* is due again has a loop.
TasksAreScheduled ==
    running => \A n \in Names :
        tasks[n] \in Periodic \ late /\ ~Complete(tasks[n])
            => \E k \in 1..MaxStarts : pc[<<n, k>>] = "created" \/
                   (job[<<n, k>>] = tasks[n] /\ pc[<<n, k>>] \in Live)

\* stop() returns, also when a loop sleeps or executes for longer than the
\* timeout.
StopEnds == stopping # "no" ~> stopping = "no"

\* A removed task, or one that is disabled at the time, is not executed by a loop it has,
\* also when its name has been given to another task, or it has been disabled, while the
\* loop slept or executed.
WithdrawnStaysOut ==
    [][\A p \in Loops : job[p] \in removed \cup (made \ enabled) /\ pc[p] \notin Executing
                           => pc'[p] \notin Executing]_vars

\* The shared Agent has limited, exclusive runs and is available between them;
\* there is a loop for every task that is due, and none after stop().
SchedulerSound ==
    /\ TypeOK /\ OneRunAtATime /\ AgentAvailable
    /\ StopIsComplete /\ TasksAreScheduled
=============================================================================
