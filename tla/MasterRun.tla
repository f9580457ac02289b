----------------------------- MODULE MasterRun ------------------------------
(***************************************************************************)
(* Runs of a master with its memory (AgentMemory) and its sub-agents       *)
(* (SubAgents): Agent.run() of youmi/core/agent.py with the master's hooks *)
(* (coordinator/master.py), reset_for_new_task between two runs, and the   *)
(* pipeline of an earlier run that writes its report into the master's     *)
(* memory from the background (coordinator/post_task.py).  The process     *)
(* may be killed and started again; the stored sessions are all that stays.*)
(***************************************************************************)
EXTENDS AgentMemory, SubAgents

CONSTANTS Setups,   \* strategy, model, backend, agents and bus of a master
          MaxRuns,  \* bound: runs of one behaviour
          MaxJobs,  \* bound: rounds of tool calls of one run
          MaxRestarts

ASSUME MasterRunAssumption ==
    /\ \A s \in Setups : /\ s.strategy \in {"full", "summary", "lstm"}
                          /\ s.model \in BOOLEAN
                          /\ s.backend \in {"none", "sqlite", "file"}
                          /\ s.team \subseteq Agents /\ s.isolated \subseteq Agents
                          /\ s.bus \in {"none", "deaf", "heard", "hosted"}
    /\ MaxRuns \in Nat /\ MaxJobs \in Nat /\ MaxRestarts \in Nat

VARIABLES
    pc,       \* where the run is
    notes,    \* background pipelines that have not written their report yet
    runs, jobs, restarts   \* what the bounds count

countVars == <<runs, jobs, restarts>>
vars == <<memoryVars, subVars, pc, notes, countVars>>

Busy == {"task", "loop", "thinking", "acting", "stopping", "ending", "saving"}

Init ==
    /\ \E s \in Setups : /\ strategy = s.strategy /\ hasModel = s.model
                         /\ backend = s.backend /\ isolated = s.isolated /\ bus = s.bus
                         /\ team = s.team
    /\ MemoryInit /\ SubInit
    /\ pc = "new" /\ notes = 0 /\ runs = 0 /\ jobs = 0 /\ restarts = 0

\* initialize(): reading a session file that was cut off while it was written
\* raises, and the agent stays as it is.
Initialize ==
    /\ pc = "new" /\ ~torn
    /\ RestoreSession
    /\ pc' = "idle"
    /\ UNCHANGED <<configVars, strategyVars, lastId, disk, torn, talkVars, subVars,
                   notes, countVars>>

\* run(): a fresh session and a fresh conversation, whose first message is the task.
BeginRun ==
    /\ pc = "idle" /\ runs < MaxRuns
    /\ runs' = runs + 1 /\ jobs' = 0
    /\ StartSession
    /\ before' = said /\ said' = said + 1
    /\ pc' = "task"
    /\ UNCHANGED <<configVars, strategyVars, disk, torn, digest, subVars, notes, restarts>>

\* ... which the memory is told, as it is told the answer at the end.
Tell(from, to) ==
    /\ pc = from
    /\ OnMessage("run")
    /\ pc' = to
    /\ UNCHANGED <<subVars, notes, countVars>>

\* One iteration: the prompt is cut down to the budget, and the model answers ...
Observe ==
    /\ pc = "loop" /\ Idle("run")
    /\ Compact
    /\ pc' = "thinking"
    /\ UNCHANGED <<subVars, notes, countVars>>

\* ... with a tool call.
CallTool ==
    /\ pc = "thinking" /\ jobs < MaxJobs
    /\ jobs' = jobs + 1
    /\ pc' = "acting"
    /\ UNCHANGED <<memoryVars, subVars, notes, runs, restarts>>

\* A tool call: a sub-agent is created, ...
Create ==
    /\ pc = "acting"
    /\ \E a \in Agents : Enlist(a)
    /\ UNCHANGED <<memoryVars, pc, notes, countVars>>

\* ... one or all are run, ...
StartJob ==
    /\ pc = "acting"
    /\ (\E a \in Agents : RunTool(a)) \/ RunAll("each") \/ RunAll("all")
    /\ UNCHANGED <<memoryVars, pc, notes, countVars>>

\* ... or the tool has nothing to do with sub-agents, ...
OtherTool ==
    /\ pc = "acting" /\ job = NoJob
    /\ said' = said + 2
    /\ pc' = "loop"
    /\ UNCHANGED <<configVars, strategyVars, sessionVars, before, digest, subVars, notes, countVars>>

\* ... and the call and its answer are appended to the conversation.
ToolReturns ==
    /\ pc = "acting"
    /\ EndJob
    /\ said' = said + 2
    /\ pc' = "loop"
    /\ UNCHANGED <<configVars, strategyVars, sessionVars, before, digest, notes, countVars>>

\* The loop ends without an answer: max_iterations, or the model fails.
Fails ==
    /\ pc = "thinking"
    /\ pc' = "stopping"
    /\ UNCHANGED <<memoryVars, subVars, notes, countVars>>

\* on_stop: the pipeline is started when some sub-agent has a result.
Stop ==
    /\ pc = "stopping" /\ Idle("run")
    /\ notes' = IF \E a \in enlisted : result[a] # NoOutcome THEN notes + 1 ELSE notes
    /\ pc' = "ending"
    /\ UNCHANGED <<memoryVars, subVars, countVars>>

\* on_session_end: the strategy first,
EndSession ==
    /\ pc = "ending"
    /\ EndStrategy
    /\ pc' = "saving"
    /\ UNCHANGED <<subVars, notes, countVars>>

\* ... then the session is stored.
SaveSession ==
    /\ pc = "saving" /\ Idle("run")
    /\ \/ SaveRow /\ pc' = "done"
       \/ OpenFile /\ UNCHANGED pc
       \/ WriteFile /\ pc' = "done"
       \/ (backend = "none" \/ session = 0) /\ pc' = "done" /\ UNCHANGED memoryVars
    /\ UNCHANGED <<subVars, notes, countVars>>

\* reset_for_new_task, before the agent is used again.
Reset ==
    /\ pc = "done"
    /\ DropSubAgents
    /\ pc' = "idle"
    /\ UNCHANGED <<memoryVars, notes, countVars>>

\* summarize_task_outcomes of a pipeline, whatever the master does meanwhile.
Note ==
    /\ notes > 0
    /\ OnMessage("note")
    /\ notes' = notes - 1
    /\ UNCHANGED <<subVars, pc, countVars>>

Answer(c) ==
    /\ ModelReturns(c)
    /\ UNCHANGED <<subVars, pc, notes, countVars>>

\* The caller cancels the run; CancelledError goes through run() without a
\* session end, and the agent is idle again.
Cancel ==
    /\ pc \in {"loop", "thinking", "acting"} /\ Idle("run") /\ Fault
    /\ CancelCalls
    /\ pc' = IF job = NoJob THEN "idle" ELSE "cancelled"
    /\ UNCHANGED <<memoryVars, notes, countVars>>

Cancelled ==
    /\ pc = "cancelled"
    /\ EndJob
    /\ pc' = "idle"
    /\ UNCHANGED <<memoryVars, notes, countVars>>

\* The process is killed, at a moment without children, and started again.
Restart ==
    /\ restarts < MaxRestarts /\ pc \notin {"new", "idle", "acting", "cancelled"}
    /\ \A p \in Processes : proc[p] \notin Alive
    /\ Forget /\ DropRecords
    /\ pc' = "new" /\ notes' = 0 /\ restarts' = restarts + 1 /\ mail' = <<>>
    /\ captured' = (captured /\ bus # "hosted")
    /\ UNCHANGED <<configVars, arrived, lastId, disk, torn, said, isolated, team, bus, callVars,
                   waiting, hand, childVars, doubled, faultVars, runs, jobs>>

SubStep(a) ==
    /\ Job(a)
    /\ UNCHANGED <<memoryVars, pc, notes, countVars>>

\* The steps of the master's event loop.
MasterStep ==
    \/ Initialize \/ BeginRun \/ Tell("task", "loop") \/ Tell("thinking", "stopping")
    \/ Observe \/ CallTool \/ Create \/ StartJob \/ OtherTool \/ ToolReturns \/ Fails \/ Stop \/ EndSession
    \/ SaveSession \/ Reset \/ Note \/ Cancel \/ Cancelled
    \/ \E c \in Callers : Answer(c)
    \/ \E a \in Agents : SubStep(a)

\* The steps of the other processes.
ChildStep ==
    /\ \E p \in Processes : Child(p)
    /\ UNCHANGED <<memoryVars, pc, notes, countVars>>

Next == (~Frozen /\ MasterStep) \/ ChildStep \/ Restart

Spec == Init /\ [][Next]_vars
-----------------------------------------------------------------------------
(* Fairness: the master's own steps, its timeouts and the model's answers, as *)
(* long as the event loop they run in is not captured.                        *)
FairSpec == Spec
    /\ WF_vars(~Frozen /\ (\/ Tell("task", "loop") \/ Tell("thinking", "stopping") \/ Observe
                            \/ CallTool \/ ToolReturns \/ Fails \/ Stop \/ EndSession
                            \/ SaveSession \/ Cancelled))
    /\ WF_vars(~Frozen /\ (Create \/ StartJob \/ OtherTool))
    /\ WF_vars(~Frozen /\ Answer("run"))
    /\ \A a \in Agents : WF_vars(~Frozen /\ SubStep(a))
-----------------------------------------------------------------------------
(* Properties *)

\* The full and the summary strategy hold the newest messages in the order they
\* arrived, without a gap ...
InOrder ==
    strategy # "lstm" =>
        messages = [i \in 1..Len(messages) |-> arrived - Len(messages) + i]

\* ... and, unless a session end emptied the list, at least as many as promised:
\* a message that comes while the model writes a summary is not cut off with the
\* old ones.
NewestKept ==
    strategy # "lstm" =>
        LET promised == IF strategy = "full" \/ MaxTotal < Buffer THEN MaxTotal ELSE Buffer
        IN  Len(messages) >= IF arrived - wiped < promised THEN arrived - wiped ELSE promised

\* No message is filed twice, in the short and the long term or in either.
FiledOnce ==
    LET filed == messages \o long
    IN  \A i, j \in 1..Len(filed) : i # j => filed[i] # filed[j]

\* Each session is stored once, in the order of its last save, and what a restarted
\* master resumes is the latest, never an older one.
SessionsSound ==
    /\ \A i, j \in 1..Len(disk) : i < j => disk[i].id < disk[j].id
    /\ session # 0 => \A i \in 1..Len(disk) : disk[i].id <= session

MemorySound == InOrder /\ NewestKept /\ FiledOnce /\ SessionsSound

\* What a summary replaces it speaks of.  At the end of a session, a message leaves the
\* list with the model's answer only if it is in the summary, came while the model was
\* asked, or is part of what the model is asked by the other caller.  Before, only if it
\* is in the summary or in the other's question, as long as the list is still one that
\* starts a summary: with an interval above the buffer, another answer may cut it to
\* the buffer while the model is asked, and what comes next starts no summary and
\* pushes out what nobody summarises.  And the compactor's summary leaves no gap before
\* the messages it keeps.
SummariesCover ==
    [][restarts' = restarts =>
        /\ \A c \in Callers : (~Idle(c) /\ asking'[c] = NotAsking /\ summary' # summary) =>
              \A m \in Elems(messages) \ Elems(messages') :
                 \/ asking[c].for = "summary" /\ Len(messages) < Interval
                 \/ asking[c].for = "all" /\ m > asking[c].upto
                 \/ m \in summary' \/ \E d \in Callers : m \in asking'[d].cover
        /\ digest' # digest
              => \A m \in before + 1 .. said : m \in digest' \/ said - m < KeepRecent
      ]_vars

\* A run comes to its end whatever its sub-agents do: crash, hang, never answer, or
\* answer for somebody else.  Only if two processes of an agent have met on a server
\* in the master's own event loop may it stop for good.
RunEnds == pc \in Busy \cup {"cancelled"} ~> pc \notin Busy \cup {"cancelled"} \/ Frozen
=============================================================================
